------------------------ MODULE ModelUpdate_proofs ------------------------
(***************************************************************************)
(* A push of a model keeps the types of documents, platform and maps; one  *)
(* that records no error leaves the platform as the documents say; and one *)
(* in which calls fail costs an element the documents name only through a  *)
(* failure of that element or of something it depends on.  All for any     *)
(* documents, model, number of calls that fail, edits and pushes.          *)
(*                                                                         *)
(* The tree comes first: what Inside and Under hold, that they are closed  *)
(* under children, and which edits keep the documents a tree.  The         *)
(* inductive invariant Inv then says, phase by phase, what the maps of     *)
(* DtUpdate.updateModel mean.  MapInv: no key has two ids, no id two       *)
(* keys.  ParentInv: an element that was written lies where the documents  *)
(* have it.  WorkInv: what is not yet written is still to do, or lies in   *)
(* something that failed.  SyncInv and ConduitInv: without an error,       *)
(* platform and documents agree on all that was written.                   *)
(*                                                                         *)
(* Damage needs two facts more.  BlameInv: a key fails once, and a flow    *)
(* that did not fail has its ends.  Reached, by induction over the         *)
(* documents' tree: an element that was written is in the model, or on the *)
(* platform it lies in something that failed.                              *)
(***************************************************************************)
EXTENDS ModelUpdate, FiniteSetTheorems, TLAPS

\* The nodes of documents, and the phases before deletions start.
NodesOf(d) == [k \in DOMAIN d |-> d[k].node]
Writing == {"tree", "conduits", "flows", "answers"}
Known == existing \union processed \union {0}

\* Documents: a tree under the default boundary, with conduits between
\* boundaries.
DocOK(d) ==
  /\ 0 \in DOMAIN d /\ DOMAIN d \subseteq Keys
  /\ \A k \in DOMAIN d :
       /\ d[k] \in Element
       /\ d[k].node.kind = "root" <=> k = 0
       /\ d[k].node.kind \in Tree => k \in Under(NodesOf(d), 0)
       /\ d[k].node.kind \notin Tree => d[k].node.parent = 0
       /\ IF d[k].node.kind = "flow" THEN d[k].node.ends \in Keys \X Keys
                                     ELSE d[k].node.ends = Empty
       /\ d[k].peers \subseteq Boundaries(NodesOf(d)) \ {k}

\* The end of a flow is a component where the documents name it, and an id of
\* the platform where they do not.
EndOK(d, c) == IF c \in DOMAIN d THEN d[c].node.kind = "component" ELSE c \in Ids
EndsOK(d) ==
  \A k \in DOMAIN d : d[k].node.kind = "flow" => \A e \in {1, 2} : EndOK(d, d[k].node.ends[e])

\* An id means the same kind of element wherever it is.
DocInv ==
  /\ DocOK(doc) /\ EndsOK(doc)
  /\ \A k \in DOMAIN doc \intersect Ids :
       k <= minted /\ (k \in DOMAIN nodes => nodes[k].kind = doc[k].node.kind)

\* The platform: a well-formed model, and each conduit once.
NodeInv ==
  /\ WellFormed(nodes) /\ minted \in Ids /\ DOMAIN nodes \subseteq 0..minted
  /\ conduits = SetToBag(BagToSet(conduits))
  /\ \A c \in BagToSet(conduits) : c \in Boundaries(nodes) \X Boundaries(nodes) /\ c[1] # c[2]

IdleInv == pc = "idle" => blamed = {} /\ spared = {}

\* The ids of a push: those fetched stand for themselves, those created are
\* new, and no two keys share one.
MapInv ==
  pc # "idle" =>
    /\ Valid
    /\ existing \subseteq 0..minted /\ 0 \notin existing
    /\ existing \union {0} \subseteq DOMAIN idMapping
    /\ \A i \in existing \union {0} : idMapping[i] = i
    /\ DOMAIN idMapping \subseteq existing \union {0} \union entered
    /\ 0 \in entered /\ entered \subseteq DOMAIN idMapping \intersect DOMAIN doc
    /\ \A k \in DOMAIN idMapping : idMapping[k] \in 0..minted
    /\ \A j, k \in DOMAIN idMapping : idMapping[j] = idMapping[k] => j = k
    /\ \A k \in entered \ {0} : idMapping[k] \in processed
    /\ \A i \in processed : \E k \in entered : idMapping[k] = i
    /\ \A k \in DOMAIN idMapping \intersect DOMAIN doc :
         idMapping[k] \in DOMAIN nodes => nodes[idMapping[k]].kind = KindOf(k)
    /\ \A k \in entered : KindOf(k) # "flow" => idMapping[k] \in DOMAIN nodes
    /\ pc \in Writing => \A k \in DOMAIN idMapping : idMapping[k] \in DOMAIN nodes

\* What is written of an element, whatever failed besides: it is where the
\* documents have it, in a boundary that was written before.
ParentInv ==
  pc # "idle" =>
    \A k \in entered : KindOf(k) \in Tree =>
      /\ doc[k].node.parent \in entered
      /\ k \notin blamed => nodes[idMapping[k]].parent = idMapping[doc[k].node.parent]

\* What is handled when: by the end of the first phase every element was
\* written or lies in the line of one that failed.
WorkInv ==
  /\ pc \in {"tree", "flows"} => todo \intersect entered \subseteq {0}
  /\ pc \in {"tree", "conduits"} => entered \intersect DocKeys({"flow"}) = {}
  /\ pc = "tree" =>
       /\ todo \subseteq DocKeys(Tree \union {"item", "root"})
       /\ \A k \in DocKeys(Tree \union {"item", "root"}) \ todo :
            /\ k \in entered \union blamed /\ (k \in existing => k \in entered)
            /\ k = 0 => 0 \in processed
  /\ pc \notin {"idle", "tree"} =>
       /\ 0 \in processed
       /\ \A k \in DocKeys(Tree) : k \in entered \/ Lines(DocNodes, k) \intersect blamed # {}
       /\ \A k \in DocKeys({"item"}) : k \in entered \union blamed /\ (k \in existing => k \in entered)
  /\ pc = "flows" => todo \subseteq DocKeys({"flow"})
  /\ pc \in {"flows", "answers", "orphans", "export"} =>
       \A k \in DocKeys({"flow"}) :
         \/ pc = "flows" /\ k \in todo
         \/ k \in entered \union blamed
         \/ errors /\ \E e \in {1, 2} : doc[k].node.ends[e] \notin entered
  /\ pc = "orphans" => todo \subseteq existing \ processed
  /\ pc \in {"orphans", "export"} =>
       \A i \in existing \ processed : i \in spared \/ i \notin DOMAIN nodes \/ (pc = "orphans" /\ i \in todo)
  /\ pc = "export" => ~errors

\* A push without an error so far has written what it handled as the
\* documents have it, up to answers that wait in the queue, and what it does
\* not know of is not in the model.
SyncInv ==
  pc # "idle" /\ ~errors =>
    /\ blamed = {}
    /\ \A k \in entered \ {0} :
         /\ idMapping[k] \in DOMAIN nodes
         /\ KindOf(k) = "flow" =>
              /\ {doc[k].node.ends[1], doc[k].node.ends[2]} \subseteq entered
              /\ nodes[idMapping[k]].ends = <<idMapping[doc[k].node.ends[1]], idMapping[doc[k].node.ends[2]]>>
         /\ nodes[idMapping[k]].val = doc[k].node.val
         /\ nodes[idMapping[k]].ans = doc[k].node.ans \/ <<idMapping[k], doc[k].node.ans>> \in queue
    /\ 0 \in processed => nodes[0].val = doc[0].node.val
    /\ \A w \in queue : \E k \in entered : w = <<idMapping[k], doc[k].node.ans>>
    /\ pc \in {"orphans", "export"} => queue = {}
    /\ \A i \in DOMAIN nodes \ Known :
         /\ nodes[i].kind # "item"
         /\ nodes[i].kind \in Tree => nodes[i].parent \notin Known
         /\ \A e \in DOMAIN nodes[i].ends : nodes[i].ends[e] \notin Known

\* Conduits are written from the boundary they start at, once.
ConduitInv ==
  /\ pc = "tree" => base = BagToSet(conduits)
  /\ pc = "conduits" =>
       /\ todo \subseteq DocKeys({"root", "boundary"}) \intersect DOMAIN idMapping
       /\ \A k \in todo, b \in Ids : <<idMapping[k], b>> \in base <=> <<idMapping[k], b>> \in BagToSet(conduits)
  /\ pc \in {"conduits", "flows", "answers", "orphans", "export"} /\ ~errors =>
       \A a, b \in DocKeys({"root", "boundary"}) :
         \/ pc = "conduits" /\ a \in todo
         \/ <<idMapping[a], idMapping[b]>> \in BagToSet(conduits) <=> b \in doc[a].peers

\* The types of the variables of a push.
PushType ==
  /\ pc \in Phases /\ errors \in BOOLEAN
  /\ existing \subseteq Ids /\ base \subseteq Ids \X Ids /\ processed \subseteq Ids
  /\ DOMAIN idMapping \subseteq Keys /\ \A k \in DOMAIN idMapping : idMapping[k] \in Ids
  /\ entered \subseteq Keys /\ todo \subseteq Keys /\ queue \subseteq Ids \X Vals
  /\ faults \in 0..MaxFaults /\ edits \in 0..MaxEdits
  /\ blamed \subseteq Keys /\ spared \subseteq Ids

Inv ==
  /\ PushType /\ DocInv /\ NodeInv /\ IdleInv /\ MapInv /\ ParentInv /\ WorkInv /\ SyncInv /\ ConduitInv

-----------------------------------------------------------------------------
(* Boundaries inside boundaries                                            *)

\* An element in a boundary of the set is in the set.
LEMMA InsideClosed ==
  ASSUME NEW N, NEW r, NEW j \in Domain("boundary", N), N[j].parent \in Inside(N, r) \union {r}
  PROVE  j \in Inside(N, r)
<1> DEFINE all == Domain("boundary", N)
<1>1. SUFFICES ASSUME NEW S \in SUBSET all, \A i \in all : N[i].parent \in S \union {r} => i \in S
               PROVE  j \in S
  BY DEF Inside
<1>2. Inside(N, r) \subseteq S
  BY <1>1 DEF Inside
<1> QED
  BY <1>1, <1>2

\* The set is the least one: induction along BELONGS_TO.
LEMMA InsideLeast ==
  ASSUME NEW N, NEW r, NEW S,
         \A j \in Domain("boundary", N) : N[j].parent \in S \union {r} => j \in S
  PROVE  Inside(N, r) \subseteq S
<1> DEFINE all == Domain("boundary", N)
           T == S \intersect all
<1>1. T \in SUBSET all
  OBVIOUS
<1>2. \A j \in all : N[j].parent \in T \union {r} => j \in T
  OBVIOUS
<1>3. \A b \in Inside(N, r) : b \in T
  BY <1>1, <1>2 DEF Inside
<1> QED
  BY <1>3

LEMMA InsideParent ==
  ASSUME NEW N, NEW r, NEW j \in Inside(N, r)
  PROVE  j \in Domain("boundary", N) /\ N[j].parent \in Inside(N, r) \union {r}
<1> DEFINE S == {b \in Inside(N, r) : N[b].parent \in Inside(N, r) \union {r}}
<1>1. \A b \in Domain("boundary", N) : N[b].parent \in S \union {r} => b \in S
  <2>1. ASSUME NEW b \in Domain("boundary", N), N[b].parent \in S \union {r}
        PROVE  b \in S
    <3>1. N[b].parent \in Inside(N, r) \union {r}
      BY <2>1
    <3>2. b \in Inside(N, r)
      BY <3>1, InsideClosed
    <3> QED
      BY <3>1, <3>2
  <2> QED
    BY <2>1
<1>2. Inside(N, r) \subseteq S
  <2> HIDE DEF S
  <2> QED
    BY <1>1, InsideLeast
<1> QED
  BY <1>2 DEF Inside

\* In the tree, what has a parent among the elements has it among the
\* boundaries.
TreeShape(N) ==
  \A i \in DOMAIN N : N[i].kind \in Tree => N[i].parent \in Boundaries(N) \/ N[i].parent \notin DOMAIN N

LEMMA UnderSelf ==
  ASSUME NEW N, NEW r
  PROVE  r \in Under(N, r)
BY DEF Under

LEMMA InsideUnder ==
  ASSUME NEW N, NEW r
  PROVE  /\ Inside(N, r) \subseteq Under(N, r)
         /\ \A b \in Domain("boundary", N) : b \in Under(N, r) /\ b # r => b \in Inside(N, r)
<1>1. ASSUME NEW b \in Inside(N, r)
      PROVE  b \in Under(N, r)
  <2>1. b \in DOMAIN N /\ N[b].kind = "boundary" /\ N[b].parent \in Inside(N, r) \union {r}
    BY InsideParent DEF Domain
  <2> QED
    BY <2>1 DEF Under, Tree
<1>2. ASSUME NEW b \in Domain("boundary", N), b \in Under(N, r), b # r
      PROVE  b \in Inside(N, r)
  <2>1. N[b].parent \in Inside(N, r) \union {r}
    BY <1>2 DEF Under
  <2> QED
    BY <2>1, InsideClosed
<1> QED
  BY <1>1, <1>2

LEMMA UnderIntro ==
  ASSUME NEW N, NEW r, NEW i \in DOMAIN N, N[i].kind \in Tree, N[i].parent \in Inside(N, r) \union {r}
  PROVE  i \in Under(N, r)
BY DEF Under

\* What lies in something that lies under r lies under r.
LEMMA UnderClosed ==
  ASSUME NEW N, NEW r, NEW i \in DOMAIN N, N[i].kind \in Tree, N[i].parent \in Under(N, r),
         N[i].parent \in Domain("boundary", N) \union {r}
  PROVE  i \in Under(N, r)
<1>1. N[i].parent \in Inside(N, r) \union {r}
  BY InsideUnder
<1> QED
  BY <1>1 DEF Under

LEMMA UnderParent ==
  ASSUME NEW N, NEW r, NEW i \in Under(N, r), i # r
  PROVE  /\ i \in DOMAIN N /\ N[i].kind \in Tree /\ N[i].parent \in Under(N, r)
         /\ N[i].parent \in Domain("boundary", N) \union {r}
<1>1. i \in DOMAIN N /\ N[i].kind \in Tree /\ N[i].parent \in Inside(N, r) \union {r}
  BY DEF Under
<1>2. Inside(N, r) \subseteq Under(N, r) /\ Inside(N, r) \subseteq Domain("boundary", N)
  BY InsideUnder DEF Inside
<1> QED
  BY <1>1, <1>2, UnderSelf

LEMMA UnderTransitive ==
  ASSUME NEW N, TreeShape(N), NEW r, NEW x \in Under(N, r), x \in DOMAIN N, NEW i \in Under(N, x),
         x = 0 => x = r, \A n \in DOMAIN N : N[n].kind = "root" => n = 0
  PROVE  i \in Under(N, r)
<1>1. CASE x = r \/ i = x
  BY <1>1
<1>2. CASE x # r /\ i # x
  <2>1. ASSUME NEW j \in DOMAIN N, N[j].kind \in Tree, N[j].parent = x
        PROVE  x \in Inside(N, r)
    <3>1. x \in Boundaries(N)
      BY <2>1 DEF TreeShape
    <3>2. x \in Domain("boundary", N)
      BY <1>2, <3>1 DEF Boundaries, Domain
    <3> QED
      BY <1>2, <3>2, InsideUnder
  <2>2. \A j \in Domain("boundary", N) : N[j].parent \in Inside(N, r) \union {x} => j \in Inside(N, r)
    <3>1. ASSUME NEW j \in Domain("boundary", N), N[j].parent \in Inside(N, r) \union {x}
          PROVE  j \in Inside(N, r)
      <4>1. N[j].parent \in Inside(N, r)
        BY <2>1, <3>1 DEF Domain, Tree
      <4> QED
        BY <4>1, InsideClosed
    <3> QED
      BY <3>1
  <2>3. Inside(N, x) \subseteq Inside(N, r)
    BY <2>2, InsideLeast
  <2>4. i \in DOMAIN N /\ N[i].kind \in Tree /\ N[i].parent \in Inside(N, x) \union {x}
    BY <1>2 DEF Under
  <2>5. N[i].parent \in Inside(N, r)
    BY <2>1, <2>3, <2>4
  <2> QED
    BY <2>4, <2>5 DEF Under
<1> QED
  BY <1>1, <1>2

\* Only kinds and parents matter.
SameTree(N, M) ==
  \A i : /\ (i \in DOMAIN N /\ N[i].kind \in Tree) <=> (i \in DOMAIN M /\ M[i].kind \in Tree)
         /\ i \in DOMAIN N /\ N[i].kind \in Tree => N[i].kind = M[i].kind /\ N[i].parent = M[i].parent

LEMMA SameInside ==
  ASSUME NEW N, NEW M, SameTree(N, M), NEW r
  PROVE  Inside(N, r) \subseteq Inside(M, r)
<1>1. ASSUME NEW j \in Domain("boundary", N)
      PROVE  j \in Domain("boundary", M) /\ N[j].parent = M[j].parent
  BY DEF SameTree, Domain, Tree
<1>2. \A j \in Domain("boundary", N) : N[j].parent \in Inside(M, r) \union {r} => j \in Inside(M, r)
  BY <1>1, InsideClosed
<1> QED
  BY <1>2, InsideLeast

LEMMA SameUnder ==
  ASSUME NEW N, NEW M, SameTree(N, M), NEW r
  PROVE  Under(N, r) = Under(M, r) /\ Inside(N, r) = Inside(M, r)
<1>1. SameTree(M, N)
  BY DEF SameTree
<1>2. Inside(N, r) = Inside(M, r)
  <2>1. Inside(N, r) \subseteq Inside(M, r)
    BY SameInside
  <2>2. Inside(M, r) \subseteq Inside(N, r)
    BY <1>1, SameInside
  <2> QED
    BY <2>1, <2>2
<1> QED
  BY <1>2 DEF Under, SameTree

-----------------------------------------------------------------------------
(* Documents                                                               *)

LEMMA NodesOfFacts ==
  ASSUME NEW d
  PROVE  DOMAIN NodesOf(d) = DOMAIN d /\ \A k \in DOMAIN d : NodesOf(d)[k] = d[k].node
BY DEF NodesOf

LEMMA DocShape ==
  ASSUME NEW d, DocOK(d)
  PROVE  /\ TreeShape(NodesOf(d)) /\ \A k \in DOMAIN d : d[k].node.kind = "root" => k = 0
         /\ \A k \in DOMAIN d : d[k].node.kind \in Tree =>
              /\ d[k].node.parent \in Boundaries(NodesOf(d)) /\ d[k].node.parent \in DOMAIN d
              /\ d[k].node.parent \in Inside(NodesOf(d), 0) \union {0}
         /\ \A b \in Domain("boundary", NodesOf(d)) : b \in Inside(NodesOf(d), 0)
<1> DEFINE N == NodesOf(d)
<1>1. DOMAIN N = DOMAIN d /\ \A k \in DOMAIN d : N[k] = d[k].node
  BY NodesOfFacts
<1>2. 0 \in DOMAIN d /\ N[0].kind = "root" /\ \A k \in DOMAIN d : N[k].kind = "root" => k = 0
  BY <1>1 DEF DocOK
<1>3. ASSUME NEW k \in DOMAIN d, N[k].kind \in Tree
      PROVE  /\ N[k].parent \in Boundaries(N) /\ N[k].parent \in DOMAIN d
             /\ N[k].parent \in Inside(N, 0) \union {0}
  <2>1. k \in Under(N, 0) /\ k # 0
    BY <1>1, <1>2, <1>3 DEF DocOK, Tree
  <2>2. N[k].parent \in Domain("boundary", N) \union {0} /\ N[k].parent \in Under(N, 0)
    BY <2>1, UnderParent
  <2> QED
    BY <1>1, <1>2, <2>2, InsideUnder DEF Boundaries, Domain
<1>4. \A b \in Domain("boundary", N) : b \in Inside(N, 0)
  <2>1. ASSUME NEW b \in Domain("boundary", N)
        PROVE  b \in Under(N, 0) /\ b # 0
    BY <1>1, <1>2 DEF DocOK, Domain, Tree
  <2> QED
    BY <2>1, InsideUnder
<1> QED
  BY <1>1, <1>2, <1>3, <1>4 DEF TreeShape

\* An edit that moves nothing.
LEMMA DocKept ==
  ASSUME NEW d, DocOK(d), NEW e, DOMAIN e = DOMAIN d,
         \A k \in DOMAIN d :
           /\ e[k] \in Element /\ e[k].node.kind = d[k].node.kind /\ e[k].node.parent = d[k].node.parent
           /\ IF d[k].node.kind = "flow" THEN e[k].node.ends \in Keys \X Keys ELSE e[k].node.ends = Empty
           /\ e[k].peers \subseteq Boundaries(NodesOf(d)) \ {k}
  PROVE  DocOK(e)
<1>1. /\ DOMAIN NodesOf(d) = DOMAIN d /\ \A k \in DOMAIN d : NodesOf(d)[k] = d[k].node
      /\ DOMAIN NodesOf(e) = DOMAIN d /\ \A k \in DOMAIN d : NodesOf(e)[k] = e[k].node
  BY DEF NodesOf
<1>2. SameTree(NodesOf(d), NodesOf(e))
  BY <1>1 DEF SameTree
<1>3. Under(NodesOf(e), 0) = Under(NodesOf(d), 0)
  BY <1>2, SameUnder
<1>4. Boundaries(NodesOf(e)) = Boundaries(NodesOf(d))
  BY <1>1 DEF Boundaries, Domain
<1> QED
  BY <1>3, <1>4 DEF DocOK

\* A new leaf.
LEMMA DocAdded ==
  ASSUME NEW d, DocOK(d), NEW r \in Keys, r \notin DOMAIN d, NEW x \in Element,
         x.node.kind # "root", x.peers = {},
         x.node.kind \in Tree => x.node.parent \in Boundaries(NodesOf(d)),
         x.node.kind \notin Tree => x.node.parent = 0,
         IF x.node.kind = "flow" THEN x.node.ends \in Keys \X Keys ELSE x.node.ends = Empty
  PROVE  DocOK(With(d, r, x))
<1> DEFINE e == With(d, r, x)
           N == NodesOf(d)
           M == NodesOf(e)
<1>1. DOMAIN e = DOMAIN d \union {r} /\ e[r] = x /\ \A k \in DOMAIN d : e[k] = d[k]
  BY DEF With
<1>2. /\ DOMAIN N = DOMAIN d /\ \A k \in DOMAIN d : N[k] = d[k].node
      /\ DOMAIN M = DOMAIN e /\ \A k \in DOMAIN e : M[k] = e[k].node
  BY DEF NodesOf
<1> HIDE DEF e, N, M
<1>3. \A b \in Domain("boundary", N) : b \in Inside(N, 0)
  BY DocShape DEF N
<1>4. Inside(N, 0) \subseteq Inside(M, 0)
  <2>1. \A j \in Domain("boundary", N) : j \in Domain("boundary", M) /\ M[j].parent = N[j].parent
    BY <1>1, <1>2 DEF Domain
  <2>2. \A j \in Domain("boundary", N) : N[j].parent \in Inside(M, 0) \union {0} => j \in Inside(M, 0)
    BY <2>1, InsideClosed
  <2> QED
    BY <2>2, InsideLeast
<1>5. Boundaries(N) \subseteq Boundaries(M) /\ Boundaries(N) \subseteq Inside(M, 0) \union {0}
  <2>1. Domain("root", N) = {0}
    BY <1>2 DEF DocOK, Domain
  <2> QED
    BY <1>1, <1>2, <1>3, <1>4, <2>1 DEF Boundaries, Domain
<1>6. ASSUME NEW k \in DOMAIN e, e[k].node.kind \in Tree
      PROVE  k \in Under(M, 0)
  <2>1. CASE k = r
    <3>1. M[k].parent \in Inside(M, 0) \union {0} /\ M[k].kind \in Tree
      BY <1>1, <1>2, <1>5, <1>6, <2>1 DEF N
    <3> QED
      BY <1>2, <3>1 DEF Under
  <2>2. CASE k # r
    <3>1. k \in DOMAIN d /\ e[k] = d[k]
      BY <1>1, <2>2
    <3>2. d[k].node.parent \in Inside(N, 0) \union {0}
      BY <1>6, <3>1, DocShape DEF N
    <3>3. M[k].parent \in Inside(M, 0) \union {0} /\ M[k].kind \in Tree
      BY <1>2, <1>4, <1>6, <3>1, <3>2
    <3> QED
      BY <1>2, <3>3 DEF Under
  <2> QED
    BY <2>1, <2>2
<1>7. 0 \in DOMAIN d /\ r # 0
  BY DEF DocOK
<1>8. ASSUME NEW k \in DOMAIN d
      PROVE  /\ d[k] \in Element /\ (d[k].node.kind = "root" <=> k = 0)
             /\ (d[k].node.kind \notin Tree => d[k].node.parent = 0)
             /\ IF d[k].node.kind = "flow" THEN d[k].node.ends \in Keys \X Keys
                                           ELSE d[k].node.ends = Empty
             /\ d[k].peers \subseteq Boundaries(M) \ {k}
  <2>1. d[k].peers \subseteq Boundaries(N) \ {k}
    BY DEF DocOK, N
  <2> QED
    BY <1>5, <2>1 DEF DocOK
<1>9. DOMAIN e \subseteq Keys
  BY <1>1 DEF DocOK
<1> QED
  BY <1>1, <1>6, <1>7, <1>8, <1>9 DEF DocOK, e, M

\* An element put elsewhere, not under itself.
LEMMA DocMoved ==
  ASSUME NEW d, DocOK(d), NEW k \in DOMAIN d, d[k].node.kind \in Tree,
         NEW p \in Boundaries(NodesOf(d)), p \notin Under(NodesOf(d), k),
         NEW e, DOMAIN e = DOMAIN d, e[k] \in Element, \A j \in DOMAIN d \ {k} : e[j] = d[j],
         e[k].node.kind = d[k].node.kind, e[k].node.ends = d[k].node.ends, e[k].peers = d[k].peers,
         e[k].node.parent = p
  PROVE  DocOK(e)
<1> DEFINE N == NodesOf(d)
           M == NodesOf(e)
<1>1. /\ DOMAIN N = DOMAIN d /\ \A j \in DOMAIN d : N[j] = d[j].node
      /\ DOMAIN M = DOMAIN d /\ \A j \in DOMAIN d : M[j] = e[j].node
  BY DEF NodesOf
<1>2. p \in Boundaries(N) /\ p \notin Under(N, k)
  OBVIOUS
<1>3. /\ TreeShape(N) /\ \A j \in DOMAIN d : d[j].node.kind \in Tree => d[j].node.parent \in Inside(N, 0) \union {0}
      /\ \A b \in Domain("boundary", N) : b \in Inside(N, 0)
  BY DocShape
<1> HIDE DEF N, M
<1>4. \A j \in DOMAIN d : M[j].kind = N[j].kind /\ (j # k => M[j].parent = N[j].parent)
  BY <1>1
<1>5. Domain("boundary", N) = Domain("boundary", M) /\ Boundaries(N) = Boundaries(M)
  BY <1>1, <1>4 DEF Domain, Boundaries
<1>6. Domain("root", N) = {0}
  BY <1>1 DEF DocOK, Domain
\* What is not under k is reached as before,
<1>7. \A b \in Domain("boundary", N) : b \in Inside(M, 0) \union Under(N, k)
  <2> DEFINE S == Inside(M, 0) \union Under(N, k)
  <2>1. ASSUME NEW j \in Domain("boundary", N), N[j].parent \in S \union {0}
        PROVE  j \in S
    <3>1. CASE j = k
      BY <3>1, UnderSelf
    <3>2. CASE j # k /\ N[j].parent \in Inside(M, 0) \union {0}
      <4>1. M[j].parent \in Inside(M, 0) \union {0} /\ j \in Domain("boundary", M)
        BY <1>1, <1>4, <1>5, <3>2 DEF Domain
      <4> QED
        BY <4>1, InsideClosed
    <3>3. CASE j # k /\ N[j].parent \in Under(N, k) /\ N[j].parent # 0
      <4>1. N[j].parent \in Boundaries(N)
        <5>1. j \in DOMAIN d /\ N[j].kind \in Tree
          BY <1>1 DEF Domain, Tree
        <5> QED
          BY <1>1, <3>3, <5>1, DocShape DEF N
      <4>2. N[j].parent \in Domain("boundary", N)
        BY <1>6, <3>3, <4>1 DEF Boundaries
      <4>3. j \in DOMAIN N /\ N[j].kind \in Tree
        BY DEF Domain, Tree
      <4>4. j \in Under(N, k)
        BY <3>3, <4>2, <4>3, UnderClosed
      <4> QED
        BY <4>4
    <3> QED
      BY <2>1, <3>1, <3>2, <3>3
  <2> HIDE DEF S
  <2>2. Inside(N, 0) \subseteq S
    BY <2>1, InsideLeast
  <2> QED
    BY <1>3, <2>2 DEF S
\* the new place among it,
<1>8. p \in Inside(M, 0) \union {0}
  BY <1>2, <1>6, <1>7 DEF Boundaries
\* and with it all that goes along.
<1>9. k \in Under(M, 0)
  <2>1. k \in DOMAIN M /\ M[k].kind \in Tree /\ M[k].parent = p
    BY <1>1
  <2> QED
    BY <1>8, <2>1 DEF Under
<1>10. ASSUME NEW b \in Domain("boundary", N)
       PROVE  b \in Inside(M, 0)
  <2>1. CASE b \in Under(N, k)
    <3>1. k # 0
      BY <1>1, <1>6 DEF DocOK, Tree
    <3>2. CASE b = k
      BY <1>5, <1>9, <3>1, <3>2, InsideUnder
    <3>3. CASE b # k
      <4>1. b \in Inside(N, k)
        BY <2>1, <3>3, InsideUnder
      <4>2. k \in Domain("boundary", N)
        <5>1. \A j \in Domain("boundary", N) : N[j].parent \in {k} => k \in Domain("boundary", N)
          BY <1>1, <1>3, <1>6, <3>1 DEF TreeShape, Boundaries, Domain, Tree
        <5>2. CASE k \notin Domain("boundary", N)
          <6>1. \A j \in Domain("boundary", N) : N[j].parent \in {} \union {k} => j \in {}
            BY <5>1, <5>2
          <6>2. Inside(N, k) \subseteq {}
            BY <6>1, InsideLeast
          <6> QED
            BY <4>1, <6>2
        <5> QED
          BY <5>2
      <4>3. k \in Inside(M, 0)
        BY <1>5, <1>9, <3>1, <4>2, InsideUnder
      <4>4. ASSUME NEW j \in Domain("boundary", N), N[j].parent \in Inside(M, 0) \union {k}
            PROVE  j \in Inside(M, 0)
        <5>1. CASE j = k
          BY <4>3, <5>1
        <5>2. CASE j # k
          <6>1. j \in Domain("boundary", M) /\ M[j].parent \in Inside(M, 0) \union {0}
            BY <1>1, <1>4, <1>5, <4>3, <4>4, <5>2 DEF Domain
          <6> QED
            BY <6>1, InsideClosed
        <5> QED
          BY <5>1, <5>2
      <4>5. Inside(N, k) \subseteq Inside(M, 0)
        BY <4>4, InsideLeast
      <4> QED
        BY <4>1, <4>5
    <3> QED
      BY <3>2, <3>3
  <2>2. CASE b \notin Under(N, k)
    BY <1>7, <2>2
  <2> QED
    BY <2>1, <2>2
<1>11. ASSUME NEW j \in DOMAIN d, d[j].node.kind \in Tree
       PROVE  j \in Under(M, 0)
  <2>1. CASE j = k
    BY <1>9, <2>1
  <2>2. CASE j # k
    <3>1. N[j].parent \in Inside(N, 0) \union {0}
      BY <1>1, <1>3, <1>11
    <3>2. M[j].parent \in Inside(M, 0) \union {0} /\ M[j].kind \in Tree
      BY <1>1, <1>4, <1>10, <1>11, <2>2, <3>1 DEF Inside
    <3> QED
      BY <1>1, <3>2 DEF Under
  <2> QED
    BY <2>1, <2>2
<1>12. \A j \in DOMAIN d : e[j].peers = d[j].peers /\ e[j].node.kind = d[j].node.kind /\ e[j].node.ends = d[j].node.ends
  OBVIOUS
<1>13. \A j \in DOMAIN d : d[j].peers \subseteq Boundaries(M) \ {j}
  BY <1>5 DEF DocOK, N
<1>14. \A j \in DOMAIN d : e[j].node.kind \in Tree => j \in Under(M, 0)
  BY <1>11, <1>12
<1>15. \A j \in DOMAIN d : e[j] \in Element /\ (e[j].node.kind \notin Tree => e[j].node.parent = 0)
  BY DEF DocOK
<1> QED
  BY <1>12, <1>13, <1>14, <1>15 DEF DocOK, M

\* An element taken out with all that is in it.
LEMMA DocRemoved ==
  ASSUME NEW d, DocOK(d), NEW k \in DOMAIN d, k # 0,
         NEW left, left = {j \in DOMAIN d \ Under(NodesOf(d), k) :
                             \A i \in DOMAIN d[j].node.ends : d[j].node.ends[i] \notin Under(NodesOf(d), k)}
  PROVE  DocOK([j \in left |-> [d[j] EXCEPT !.peers = @ \ Under(NodesOf(d), k)]])
<1> DEFINE N == NodesOf(d)
           gone == Under(N, k)
           e == [j \in left |-> [d[j] EXCEPT !.peers = @ \ gone]]
           M == NodesOf(e)
<1>1. /\ DOMAIN N = DOMAIN d /\ \A j \in DOMAIN d : N[j] = d[j].node
      /\ DOMAIN M = left /\ \A j \in left : M[j] = e[j].node
  BY DEF NodesOf
<1>2. DOMAIN e = left /\ left \subseteq DOMAIN d
  OBVIOUS
<1>3. ASSUME NEW j \in left
      PROVE  e[j] \in Element /\ e[j].node = d[j].node /\ e[j].peers = d[j].peers \ gone
  <2>1. j \in DOMAIN d /\ d[j] \in Element
    BY DEF DocOK
  <2>2. e[j] = [d[j] EXCEPT !.peers = @ \ gone]
    OBVIOUS
  <2> HIDE DEF e, gone
  <2> QED
    BY <2>1, <2>2 DEF Element
<1>4. \A j \in DOMAIN d \ gone : d[j].node.kind # "flow" => j \in left
  <2>1. \A j \in DOMAIN d : d[j].node.kind # "flow" => d[j].node.ends = Empty
    BY DEF DocOK
  <2>2. DOMAIN Empty = {}
    BY DEF Empty
  <2> QED
    BY <2>1, <2>2
<1>5. \A j \in left : j \in DOMAIN d /\ j \notin gone
  OBVIOUS
<1> HIDE DEF e, M, gone, N
<1>6. \A j \in left : j \in DOMAIN N /\ M[j] = N[j] /\ N[j] = d[j].node
  BY <1>1, <1>3, <1>5
<1>7. Domain("root", N) = {0} /\ 0 \in DOMAIN d
  BY <1>1 DEF DocOK, Domain
<1>8. 0 \notin gone
  <2>1. CASE 0 \in gone
    <3>1. N[0].kind \in Tree
      BY <2>1, UnderParent DEF gone
    <3> QED
      BY <1>7, <3>1 DEF Domain, Tree
  <2> QED
    BY <2>1
<1>9. ASSUME NEW j \in left, d[j].node.kind \in Tree
      PROVE  d[j].node.parent \in left /\ d[j].node.parent \in Inside(N, 0) \union {0}
  <2>1. d[j].node.parent \in DOMAIN d /\ d[j].node.parent \in Boundaries(N) /\ d[j].node.parent \in Inside(N, 0) \union {0}
    BY <1>5, <1>9, DocShape DEF N
  <2>2. d[j].node.parent \notin gone
    <3>1. CASE d[j].node.parent \in gone
      <4>1. d[j].node.parent \in Domain("boundary", N)
        BY <1>7, <1>8, <2>1, <3>1 DEF Boundaries
      <4>2. j \in DOMAIN N /\ N[j].kind \in Tree /\ N[j].parent \in Under(N, k) /\ N[j].parent \in Domain("boundary", N)
        BY <1>6, <1>9, <3>1, <4>1 DEF gone
      <4>3. j \in gone
        BY <4>2, UnderClosed DEF gone
      <4> QED
        BY <1>5, <4>3
    <3> QED
      BY <3>1
  <2>3. d[j].node.parent \in left
    BY <1>1, <1>4, <2>1, <2>2 DEF Boundaries, Domain
  <2> QED
    BY <2>1, <2>3
<1>10. ASSUME NEW b \in Domain("boundary", N)
       PROVE  b \in Inside(M, 0) \union gone
  <2> DEFINE S == Inside(M, 0) \union gone
  <2>1. ASSUME NEW j \in Domain("boundary", N), N[j].parent \in S \union {0}
        PROVE  j \in S
    <3>1. CASE j \in gone
      BY <3>1
    <3>2. CASE j \notin gone
      <4>1. j \in left /\ d[j].node.kind = "boundary" /\ j \in DOMAIN d
        BY <1>1, <1>4, <3>2 DEF Domain
      <4>2. d[j].node.parent \in left
        BY <1>9, <4>1 DEF Tree
      <4>3. N[j].parent \notin gone
        BY <1>5, <1>6, <4>1, <4>2
      <4>4. M[j].parent \in Inside(M, 0) \union {0} /\ j \in Domain("boundary", M)
        BY <1>1, <1>6, <2>1, <4>1, <4>3 DEF Domain
      <4> QED
        BY <4>4, InsideClosed
    <3> QED
      BY <3>1, <3>2
  <2>2. b \in Inside(N, 0)
    BY DocShape DEF N
  <2> HIDE DEF S
  <2>3. Inside(N, 0) \subseteq S
    BY <2>1, InsideLeast
  <2> QED
    BY <2>2, <2>3 DEF S
<1>11. ASSUME NEW j \in left, d[j].node.kind \in Tree
       PROVE  j \in Under(M, 0)
  <2>1. d[j].node.parent \in left /\ d[j].node.parent \in Inside(N, 0) \union {0}
    BY <1>9, <1>11
  <2>2. d[j].node.parent \in Inside(M, 0) \union {0}
    BY <1>5, <1>10, <2>1 DEF Inside
  <2>3. j \in DOMAIN M /\ M[j].kind \in Tree /\ M[j].parent \in Inside(M, 0) \union {0}
    BY <1>1, <1>6, <1>11, <2>2
  <2> QED
    BY <2>3, UnderIntro
<1>12. \A j \in left : d[j].peers \ gone \subseteq Boundaries(M) \ {j}
  <2>1. \A j \in left : d[j].peers \subseteq Boundaries(N) \ {j}
    BY <1>5 DEF DocOK, N
  <2>2. \A b \in Boundaries(N) \ gone : b \in left /\ (N[b].kind = "boundary" \/ N[b].kind = "root")
    BY <1>1, <1>4 DEF Boundaries, Domain
  <2>3. \A b \in Boundaries(N) \ gone : b \in Boundaries(M)
    BY <1>1, <1>6, <2>2 DEF Boundaries, Domain
  <2> QED
    BY <2>1, <2>3
<1>13. 0 \in left
  BY <1>1, <1>4, <1>7, <1>8 DEF Domain
<1>14. left \subseteq Keys
  BY <1>2 DEF DocOK
<1>15. ASSUME NEW j \in left
       PROVE  /\ e[j].node.kind = "root" <=> j = 0
              /\ e[j].node.kind \in Tree => j \in Under(M, 0)
              /\ e[j].node.kind \notin Tree => e[j].node.parent = 0
              /\ IF e[j].node.kind = "flow" THEN e[j].node.ends \in Keys \X Keys ELSE e[j].node.ends = Empty
  BY <1>3, <1>5, <1>11 DEF DocOK
<1>16. DocOK(e)
  BY <1>2, <1>3, <1>12, <1>13, <1>14, <1>15 DEF DocOK, M
<1> QED
  BY <1>16 DEF e, gone, N

\* The documents an export writes.
LEMMA DocExported ==
  ASSUME NEW N, WellFormed(N), DOMAIN N \subseteq Ids, NEW C,
         \A c \in DOMAIN C : c \in Boundaries(N) \X Boundaries(N) /\ c[1] # c[2]
  PROVE  /\ DocOK(Export(N, C)) /\ EndsOK(Export(N, C)) /\ DOMAIN Export(N, C) \subseteq DOMAIN N
         /\ \A k \in DOMAIN Export(N, C) : Export(N, C)[k].node = N[k]
<1> DEFINE data == ModelData(N)
           d == Export(N, C)
           M == NodesOf(d)
<1>1. DOMAIN d = data /\ \A k \in data : d[k] = [node |-> N[k], peers |-> {b \in data : <<k, b>> \in DOMAIN C}]
  BY DEF Export, BagToSet
<1>2. DOMAIN M = data /\ \A k \in data : M[k] = d[k].node
  BY <1>1 DEF NodesOf
<1> HIDE DEF d, M
<1>3. \A k \in data : d[k].node = N[k] /\ d[k].peers = {b \in data : <<k, b>> \in DOMAIN C} /\ M[k] = N[k]
  BY <1>1, <1>2
<1>4. 0 \in DOMAIN N /\ N[0].kind = "root" /\ \A i \in DOMAIN N : N[i] \in Node /\ (N[i].kind = "root" => i = 0)
  BY DEF WellFormed
<1>5. data \subseteq DOMAIN N
  <2>1. Under(N, 0) \subseteq DOMAIN N
    BY <1>4, UnderParent
  <2> QED
    BY <2>1 DEF ModelData, Domain
<1>6. \A k \in data : N[k].kind \in Tree \union {"root"} <=> k \in Under(N, 0)
  <2>1. \A k \in Under(N, 0) : k = 0 \/ N[k].kind \in Tree
    BY UnderParent
  <2>2. \A k \in data \ Under(N, 0) : N[k].kind \in {"item", "flow"}
    BY DEF ModelData, Domain
  <2> QED
    BY <1>4, <2>1, <2>2 DEF Tree
<1>7. \A b \in Under(N, 0) : b \in data
  BY DEF ModelData
<1>8. ASSUME NEW k \in data, N[k].kind \in Tree
      PROVE  N[k].parent \in Inside(N, 0) \union {0} /\ N[k].parent \in DOMAIN N
  <2>1. k \in Under(N, 0) /\ k # 0
    BY <1>4, <1>6, <1>8 DEF Tree
  <2>2. N[k].parent \in Under(N, 0) /\ N[k].parent \in Domain("boundary", N) \union {0}
    BY <2>1, UnderParent
  <2>3. N[k].parent \in DOMAIN N
    BY <1>5, <1>7, <2>2
  <2>4. CASE N[k].parent = 0
    BY <2>3, <2>4
  <2>5. CASE N[k].parent # 0
    BY <2>2, <2>3, <2>5, InsideUnder
  <2> QED
    BY <2>4, <2>5
<1>9. Inside(N, 0) \subseteq Inside(M, 0)
  <2>1. \A j \in Inside(N, 0) : j \in data /\ N[j].kind = "boundary" /\ j \in DOMAIN N
    BY <1>7, InsideUnder DEF Inside, Domain
  <2> DEFINE S == {j \in Inside(N, 0) : j \in Inside(M, 0)}
  <2>2. ASSUME NEW j \in Domain("boundary", N), N[j].parent \in S \union {0}
        PROVE  j \in S
    <3>1. j \in Inside(N, 0)
      BY <2>2, InsideClosed
    <3>2. j \in Domain("boundary", M) /\ M[j].parent = N[j].parent
      BY <1>2, <1>3, <2>1, <3>1 DEF Domain
    <3>3. M[j].parent \in Inside(M, 0) \union {0}
      BY <2>2, <3>2
    <3> QED
      BY <3>1, <3>2, <3>3, InsideClosed
  <2> HIDE DEF S
  <2>3. Inside(N, 0) \subseteq S
    BY <2>2, InsideLeast
  <2> QED
    BY <2>3 DEF S
<1>10. ASSUME NEW k \in data, N[k].kind \in Tree
       PROVE  k \in Under(M, 0)
  BY <1>2, <1>3, <1>8, <1>9, <1>10 DEF Under
<1>11. ASSUME NEW k \in data
       PROVE  d[k] \in Element
  <2>1. N[k] \in Node /\ k \in DOMAIN N
    BY <1>4, <1>5
  <2>2. N[k].parent \in Ids
    <3>1. CASE N[k].kind \in Tree
      BY <1>8, <3>1
    <3>2. CASE N[k].kind \notin Tree
      <4>1. N[k].parent = 0
        BY <2>1, <3>2 DEF WellFormed
      <4> QED
        BY <1>4, <4>1
    <3> QED
      BY <3>1, <3>2
  <2>3. Ids \subseteq Keys /\ data \subseteq Keys
    BY <1>5 DEF Keys
  <2>4. N[k].ends \in {Empty} \union (Keys \X Keys)
    BY <2>1, <2>3 DEF Node, NodeOf
  <2>5. N[k] \in NodeOf(Keys, Keys)
    BY <2>1, <2>2, <2>3, <2>4 DEF Node, NodeOf
  <2> DEFINE P == {b \in data : <<k, b>> \in DOMAIN C}
  <2>6. P \in SUBSET Keys /\ d[k] = [node |-> N[k], peers |-> P]
    BY <1>1, <2>3
  <2> HIDE DEF P
  <2> QED
    BY <2>5, <2>6 DEF Element
<1>12. \A k \in data : d[k].peers \subseteq Boundaries(M) \ {k}
  <2>1. ASSUME NEW k \in data, NEW b \in data, <<k, b>> \in DOMAIN C
        PROVE  b \in Boundaries(M) \ {k}
    <3>1. <<k, b>>[1] = k /\ <<k, b>>[2] = b
      OBVIOUS
    <3>2. b # k /\ b \in Boundaries(N)
      BY <2>1, <3>1
    <3> QED
      BY <1>2, <1>3, <3>2 DEF Boundaries, Domain
  <2> QED
    BY <1>3, <2>1
<1>13. ASSUME NEW k \in data
       PROVE  /\ (d[k].node.kind = "root" <=> k = 0)
              /\ d[k].node.kind \in Tree => k \in Under(M, 0)
              /\ d[k].node.kind \notin Tree => d[k].node.parent = 0
              /\ IF d[k].node.kind = "flow" THEN d[k].node.ends \in Keys \X Keys ELSE d[k].node.ends = Empty
  <2>1. k \in DOMAIN N /\ d[k].node = N[k]
    BY <1>3, <1>5
  <2>2. /\ (N[k].kind = "root" <=> k = 0)
        /\ N[k].kind \notin Tree => N[k].parent = 0
        /\ N[k].kind # "flow" => N[k].ends = Empty
    BY <2>1 DEF WellFormed
  <2>3. N[k].kind = "flow" => N[k].ends \in Keys \X Keys
    BY <2>1 DEF WellFormed, Domain, Keys
  <2> QED
    BY <1>10, <2>1, <2>2, <2>3
<1>14. 0 \in data /\ data \subseteq Keys
  BY <1>5, <1>7, UnderSelf DEF Keys
<1>15. DocOK(d)
  BY <1>1, <1>11, <1>12, <1>13, <1>14 DEF DocOK, M
<1>16. EndsOK(d)
  <2>1. ASSUME NEW k \in data, N[k].kind = "flow", NEW e \in {1, 2}
        PROVE  N[k].ends[e] \in Domain("component", N)
    <3>1. k \in DOMAIN N
      BY <1>5
    <3>2. N[k].ends \in Domain("component", N) \X Domain("component", N)
      BY <2>1, <3>1 DEF WellFormed
    <3> QED
      BY <3>2
  <2>2. \A c \in Domain("component", N) : EndOK(d, c)
    BY <1>1, <1>3 DEF EndOK, Domain
  <2> QED
    BY <1>1, <1>3, <2>1, <2>2 DEF EndsOK
<1> QED
  BY <1>1, <1>3, <1>5, <1>15, <1>16 DEF d

-----------------------------------------------------------------------------
(* Types, beginnings and ends                                              *)

LEMMA BagFacts ==
  ASSUME NEW S
  PROVE  /\ IsABag(SetToBag(S)) /\ BagToSet(SetToBag(S)) = S
         /\ \A c \in S : SetToBag(S)[c] = 1
BY DEF IsABag, SetToBag, BagToSet

LEMMA InvType == Inv => TypeOK
<1> SUFFICES ASSUME Inv
             PROVE  TypeOK
  OBVIOUS
<1>1. /\ DOMAIN doc \subseteq Keys /\ \A k \in DOMAIN doc : doc[k] \in Element
  BY DEF Inv, DocInv, DocOK
<1>2. /\ \A i \in DOMAIN nodes : nodes[i] \in Node
      /\ minted \in Ids /\ DOMAIN nodes \subseteq 0..minted
  BY DEF Inv, NodeInv, WellFormed
<1>3. DOMAIN nodes \subseteq Ids
  BY <1>2, BoundsAssumption DEF Ids
<1>4. IsABag(conduits)
  <2>1. conduits = SetToBag(BagToSet(conduits))
    BY DEF Inv, NodeInv
  <2>2. IsABag(SetToBag(BagToSet(conduits)))
    BY BagFacts
  <2> QED
    BY <2>1, <2>2
<1>5. BagToSet(conduits) \subseteq (DOMAIN nodes) \X (DOMAIN nodes)
  <2>1. Boundaries(nodes) \subseteq DOMAIN nodes
    BY DEF Boundaries, Domain
  <2> QED
    BY <2>1 DEF Inv, NodeInv
<1>6. PushType
  BY DEF Inv
<1> QED
  BY <1>1, <1>2, <1>3, <1>4, <1>5, <1>6 DEF TypeOK, PushType

\* Between pushes the invariants of a push say nothing.
LEMMA Idle ==
  ASSUME pc' = "idle"
  PROVE  MapInv' /\ ParentInv' /\ WorkInv' /\ SyncInv' /\ ConduitInv'
<1>1. MapInv' /\ ParentInv'
  BY DEF MapInv, ParentInv
<1>2. WorkInv'
  BY DEF WorkInv
<1>3. SyncInv' /\ ConduitInv'
  BY DEF SyncInv, ConduitInv
<1> QED
  BY <1>1, <1>2, <1>3

LEMMA EmptyMap == DOMAIN Empty = {}
BY DEF Empty

LEMMA InitInv == Init => Inv
<1> SUFFICES ASSUME Init
             PROVE  Inv
  OBVIOUS
<1>1. PICK n \in Ids : DOMAIN FirstNodes = 0..n
  BY FirstAssumption
<1>2. n \in Nat /\ n <= MaxIds
  BY <1>1, BoundsAssumption DEF Ids
<1>3. Cardinality(0..n) = n + 1
  BY <1>2, FS_Interval
<1>4. minted = n
  BY <1>1, <1>2, <1>3 DEF Init
<1>5. BagToSet(conduits) = FirstConduits /\ conduits = SetToBag(FirstConduits)
  BY BagFacts DEF Init
<1>6. NodeInv
  BY <1>1, <1>4, <1>5, FirstAssumption DEF NodeInv, Init
<1>7. DOMAIN nodes \subseteq Ids
  BY <1>1, <1>2, BoundsAssumption DEF Init, Ids
<1>8. /\ DocOK(doc) /\ EndsOK(doc) /\ DOMAIN doc \subseteq DOMAIN nodes
      /\ \A k \in DOMAIN doc : doc[k].node = nodes[k]
  <2>1. WellFormed(nodes) /\ doc = Export(nodes, conduits)
    BY <1>6 DEF NodeInv, Init
  <2>2. \A c \in DOMAIN conduits : c \in Boundaries(nodes) \X Boundaries(nodes) /\ c[1] # c[2]
    BY <1>6 DEF NodeInv, BagToSet
  <2> QED
    BY <1>7, <2>1, <2>2, DocExported
<1>9. DocInv
  <2>1. \A k \in DOMAIN doc : k \in 0..n
    BY <1>1, <1>8 DEF Init
  <2> QED
    BY <1>2, <1>4, <1>8, <2>1 DEF DocInv
<1>10. IdleInv /\ MapInv /\ ParentInv /\ WorkInv /\ SyncInv /\ ConduitInv
  BY DEF Init, IdleInv, MapInv, ParentInv, WorkInv, SyncInv, ConduitInv
<1>11. PushType
  <2>1. pc \in Phases /\ errors \in BOOLEAN
    BY DEF Init, Phases
  <2>2. DOMAIN idMapping = {}
    BY EmptyMap DEF Init
  <2>3. faults \in 0..MaxFaults /\ edits \in 0..MaxEdits
    BY BoundsAssumption DEF Init
  <2> QED
    BY <2>1, <2>2, <2>3 DEF PushType, Init
<1> QED
  BY <1>6, <1>9, <1>10, <1>11 DEF Inv

\* A push that ends leaves the platform as it is, and documents that are as
\* good as before.
LEMMA FaultCount ==
  ASSUME NEW o, Outcome(o), faults \in 0..MaxFaults
  PROVE  faults' \in 0..MaxFaults
BY BoundsAssumption DEF Outcome

LEMMA ReturnInv ==
  ASSUME Inv, Return, UNCHANGED <<nodes, conduits, minted, edits>>, faults' \in 0..MaxFaults, DocInv'
  PROVE  Inv'
<1>1. NodeInv'
  BY DEF Inv, NodeInv
<1>2. pc' = "idle" /\ IdleInv'
  BY DEF Return, IdleInv
<1>3. MapInv' /\ ParentInv' /\ WorkInv' /\ SyncInv' /\ ConduitInv'
  BY <1>2, Idle
<1>4. PushType'
  <2>1. pc' \in Phases /\ errors' \in BOOLEAN
    BY DEF Return, Phases
  <2>2. DOMAIN idMapping' = {}
    BY EmptyMap DEF Return
  <2>3. edits' \in 0..MaxEdits
    BY DEF Inv, PushType
  <2> QED
    BY <2>1, <2>2, <2>3 DEF PushType, Return
<1> QED
  BY <1>1, <1>2, <1>3, <1>4 DEF Inv

LEMMA GiveInv == ASSUME Inv, Give PROVE Inv'
<1>1. DocInv'
  BY DEF Inv, DocInv, Give
<1>2. faults' \in 0..MaxFaults
  BY DEF Inv, PushType, Give
<1> QED
  BY <1>1, <1>2, ReturnInv DEF Give

LEMMA DieInv == ASSUME Inv, Die PROVE Inv'
<1>1. DocInv'
  BY DEF Inv, DocInv, Die
<1>2. faults' \in 0..MaxFaults
  BY FaultCount DEF Inv, PushType, Die
<1> QED
  BY <1>1, <1>2, ReturnInv DEF Die

LEMMA NodeFacts ==
  ASSUME Inv
  PROVE  /\ DOMAIN nodes \subseteq Ids /\ minted \in Nat /\ minted <= MaxIds
         /\ \A i \in DOMAIN nodes : i \in Nat /\ i <= minted
         /\ \A c \in DOMAIN conduits : c \in Boundaries(nodes) \X Boundaries(nodes) /\ c[1] # c[2]
         /\ Ids \subseteq Keys /\ 0 \in Ids
BY BoundsAssumption DEF Inv, NodeInv, Ids, Keys, BagToSet

LEMMA WriteBackInv == ASSUME Inv, NEW o, WriteBack(o) PROVE Inv'
<1>1. faults' \in 0..MaxFaults
  BY FaultCount DEF Inv, PushType, WriteBack
<1>2. UNCHANGED <<nodes, conduits, minted, edits>> /\ Return
  BY DEF WriteBack
<1>3. CASE doc' = doc
  <2>1. DocInv'
    BY <1>2, <1>3 DEF Inv, DocInv
  <2> QED
    BY <1>1, <1>2, <2>1, ReturnInv
<1>4. CASE doc' = Export(nodes, conduits)
  <2>1. WellFormed(nodes)
    BY DEF Inv, NodeInv
  <2>2. /\ DocOK(doc') /\ EndsOK(doc') /\ DOMAIN doc' \subseteq DOMAIN nodes
        /\ \A k \in DOMAIN doc' : doc'[k].node = nodes[k]
    BY <1>4, <2>1, NodeFacts, DocExported
  <2>3. DocInv'
    BY <1>2, <2>2, NodeFacts DEF DocInv
  <2> QED
    BY <1>1, <1>2, <2>3, ReturnInv
<1> QED
  BY <1>3, <1>4 DEF WriteBack

-----------------------------------------------------------------------------
(* The operator                                                            *)

LEMMA EditInv ==
  ASSUME Inv, NEW d, Edit(d), DocOK(d), EndsOK(d),
         \A k \in DOMAIN d \intersect Ids : k \in DOMAIN doc /\ d[k].node.kind = doc[k].node.kind
  PROVE  Inv'
<1>1. /\ pc = "idle" /\ pc' = pc /\ doc' = d /\ edits < MaxEdits /\ edits' = edits + 1
      /\ UNCHANGED <<nodes, conduits, minted, push, faults, blamed, spared>>
  BY DEF Edit, push
<1>2. DocInv'
  BY <1>1 DEF Inv, DocInv
<1>3. NodeInv' /\ IdleInv'
  BY <1>1 DEF Inv, NodeInv, IdleInv
<1>4. MapInv' /\ ParentInv' /\ WorkInv' /\ SyncInv' /\ ConduitInv'
  BY <1>1, Idle
<1>5. PushType'
  <2>1. edits' \in 0..MaxEdits
    BY <1>1, BoundsAssumption DEF Inv, PushType
  <2> QED
    BY <1>1, <2>1 DEF Inv, PushType, push
<1> QED
  BY <1>2, <1>3, <1>4, <1>5 DEF Inv

LEMMA DocFacts ==
  ASSUME Inv
  PROVE  /\ DocOK(doc) /\ EndsOK(doc) /\ DocNodes = NodesOf(doc)
         /\ \A k \in DOMAIN doc :
              /\ k \in Keys /\ doc[k] \in Element /\ doc[k].peers \subseteq Boundaries(NodesOf(doc)) \ {k}
              /\ doc[k].node \in NodeOf(Keys, Keys)
              /\ IF doc[k].node.kind = "flow" THEN doc[k].node.ends \in Keys \X Keys ELSE doc[k].node.ends = Empty
         /\ Places = Boundaries(NodesOf(doc)) /\ Places \subseteq DOMAIN doc
<1>1. DocOK(doc) /\ EndsOK(doc) /\ DocNodes = NodesOf(doc)
  BY DEF Inv, DocInv, DocNodes, NodesOf
<1>2. \A k \in DOMAIN doc : NodesOf(doc)[k] = doc[k].node
  BY NodesOfFacts
<1>3. Places = Boundaries(NodesOf(doc)) /\ Places \subseteq DOMAIN doc
  BY <1>2, NodesOfFacts DEF Places, Boundaries, Domain, DocKeys, KindOf
<1> QED
  BY <1>1, <1>3 DEF DocOK, Element

LEMMA AddInv == ASSUME Inv, NEW r \in Refs, Add(r) PROVE Inv'
<1> DEFINE node(p, ends) ==
             [kind |-> RefKind[r], val |-> 1, ans |-> 1,
              parent |-> IF RefKind[r] \in Tree THEN p ELSE 0,
              ends |-> IF RefKind[r] = "flow" THEN ends ELSE Empty]
<1>1. PICK p \in Places, ends \in DocKeys({"component"}) \X DocKeys({"component"}) :
        Edit(With(doc, r, [node |-> node(p, ends), peers |-> {}]))
  BY DEF Add
<1> DEFINE x == [node |-> node(p, ends), peers |-> {}]
<1>2. RefKind[r] \in Kinds /\ r \in Keys /\ r \notin Ids /\ r \notin DOMAIN doc
  BY RefsAssumption DEF Keys, Add
<1>3. p \in Boundaries(NodesOf(doc)) /\ p \in Keys /\ 0 \in Keys
  BY DocFacts, NodeFacts
<1>4. ends \in Keys \X Keys
  <2>1. DocKeys({"component"}) \subseteq Keys
    BY DocFacts DEF DocKeys
  <2> QED
    BY <2>1
<1>5. /\ x.node.kind = RefKind[r] /\ x.peers = {}
      /\ x.node.parent = (IF RefKind[r] \in Tree THEN p ELSE 0)
      /\ x.node.ends = (IF RefKind[r] = "flow" THEN ends ELSE Empty)
  OBVIOUS
<1>6. x \in Element
  <2>1. node(p, ends) \in NodeOf(Keys, Keys)
    BY <1>2, <1>3, <1>4 DEF NodeOf, Vals
  <2> HIDE DEF node
  <2> QED
    BY <2>1 DEF Element
<1>7. RefKind[r] # "root"
  BY <1>2 DEF Kinds
<1> HIDE DEF x
<1>8. DocOK(With(doc, r, x))
  <2>1. x.node.kind # "root" /\ (x.node.kind \in Tree => x.node.parent \in Boundaries(NodesOf(doc)))
        /\ (x.node.kind \notin Tree => x.node.parent = 0)
    BY <1>3, <1>5, <1>7
  <2>2. IF x.node.kind = "flow" THEN x.node.ends \in Keys \X Keys ELSE x.node.ends = Empty
    BY <1>4, <1>5
  <2>3. DocOK(doc)
    BY DocFacts
  <2> QED
    BY <1>2, <1>5, <1>6, <2>1, <2>2, <2>3, DocAdded
<1>9. \A k \in DOMAIN With(doc, r, x) \intersect Ids :
        k \in DOMAIN doc /\ With(doc, r, x)[k].node.kind = doc[k].node.kind
  BY <1>2 DEF With
<1>10. EndsOK(With(doc, r, x))
  <2> DEFINE d == With(doc, r, x)
  <2>1. DOMAIN d = DOMAIN doc \union {r} /\ d[r] = x /\ \A j \in DOMAIN doc : d[j] = doc[j]
    BY <1>2 DEF With
  <2> HIDE DEF d
  <2>2. ASSUME NEW c, EndOK(doc, c)
        PROVE  EndOK(d, c)
    BY <1>2, <2>1, <2>2 DEF EndOK
  <2>3. EndsOK(doc)
    BY DocFacts
  <2>4. x.node.kind = "flow" => \A e \in {1, 2} : EndOK(doc, x.node.ends[e])
    BY <1>5 DEF EndOK, DocKeys, KindOf
  <2>5. \A j \in DOMAIN doc : d[j].node.kind = "flow" => \A e \in {1, 2} : EndOK(d, d[j].node.ends[e])
    BY <2>1, <2>2, <2>3 DEF EndsOK
  <2>6. EndsOK(d)
    BY <2>1, <2>2, <2>4, <2>5 DEF EndsOK
  <2> QED
    BY <2>6 DEF d
<1> QED
  BY <1>1, <1>8, <1>9, <1>10, EditInv DEF x

LEMMA RemoveInv == ASSUME Inv, NEW k \in DOMAIN doc, Remove(k) PROVE Inv'
<1> DEFINE gone == Under(NodesOf(doc), k)
           left == {j \in DOMAIN doc \ gone : \A e \in DOMAIN doc[j].node.ends : doc[j].node.ends[e] \notin gone}
           d == [j \in left |-> [doc[j] EXCEPT !.peers = @ \ gone]]
<1>1. k # 0 /\ Edit(d)
  BY DocFacts DEF Remove
<1>2. DocOK(doc)
  BY DocFacts
<1>3. DocOK(d)
  BY <1>1, <1>2, DocRemoved
<1>4. ASSUME NEW j \in left
      PROVE  j \in DOMAIN doc /\ d[j].node = doc[j].node
  <2>1. j \in DOMAIN doc /\ doc[j] \in Element /\ d[j] = [doc[j] EXCEPT !.peers = @ \ gone]
    BY DocFacts
  <2> HIDE DEF d, gone
  <2> QED
    BY <2>1 DEF Element
<1>5. DOMAIN d = left
  OBVIOUS
<1>6. \A j \in DOMAIN doc \ gone : doc[j].node.kind # "flow" => j \in left
  <2>1. \A j \in DOMAIN doc : doc[j].node.kind # "flow" => doc[j].node.ends = Empty
    BY <1>2 DEF DocOK
  <2> QED
    BY <2>1, EmptyMap
<1>7. ASSUME NEW j \in left, doc[j].node.kind = "flow", NEW e \in {1, 2}
      PROVE  doc[j].node.ends[e] \notin gone
  <2>1. doc[j].node.ends \in Keys \X Keys
    BY <1>2, <1>4, <1>7 DEF DocOK
  <2>2. e \in DOMAIN doc[j].node.ends
    BY <2>1
  <2> QED
    BY <2>2
<1> HIDE DEF d, left, gone
<1>8. EndsOK(d)
  <2>1. EndsOK(doc)
    BY DocFacts
  <2>2. ASSUME NEW j \in left, doc[j].node.kind = "flow", NEW e \in {1, 2}
        PROVE  EndOK(d, doc[j].node.ends[e])
    <3>1. EndOK(doc, doc[j].node.ends[e]) /\ doc[j].node.ends[e] \notin gone
      BY <1>4, <1>7, <2>1, <2>2 DEF EndsOK
    <3> QED
      BY <1>4, <1>5, <1>6, <3>1 DEF EndOK
  <2> QED
    BY <1>4, <1>5, <2>2 DEF EndsOK
<1>9. \A j \in DOMAIN d \intersect Ids : j \in DOMAIN doc /\ d[j].node.kind = doc[j].node.kind
  BY <1>4, <1>5
<1> QED
  BY <1>1, <1>3, <1>8, <1>9, EditInv

LEMMA MoveInv == ASSUME Inv, NEW k \in DOMAIN doc, NEW p \in DOMAIN doc, Move(k, p) PROVE Inv'
<1> DEFINE d == [doc EXCEPT ![k].node.parent = p]
<1>1. /\ doc[k].node.kind \in Tree /\ p \in Boundaries(NodesOf(doc)) /\ p \notin Under(NodesOf(doc), k)
      /\ Edit(d)
  BY DocFacts DEF Move, KindOf
<1>2. DOMAIN d = DOMAIN doc /\ \A j \in DOMAIN doc \ {k} : d[j] = doc[j]
  OBVIOUS
<1>3. doc[k] \in Element /\ p \in Keys
  BY DocFacts
<1>4. d[k] = [doc[k] EXCEPT !.node.parent = p]
  OBVIOUS
<1>5. d[k] \in Element /\ d[k].node.kind = doc[k].node.kind /\ d[k].node.ends = doc[k].node.ends
      /\ d[k].peers = doc[k].peers /\ d[k].node.parent = p
  <2> HIDE DEF d
  <2> QED
    BY <1>3, <1>4 DEF Element, NodeOf
<1>6. DocOK(doc)
  BY DocFacts
<1> HIDE DEF d
<1>7. DocOK(d)
  BY <1>1, <1>2, <1>5, <1>6, DocMoved
<1>8. \A j \in DOMAIN d \intersect Ids : j \in DOMAIN doc /\ d[j].node.kind = doc[j].node.kind
  BY <1>2, <1>5
<1>9. EndsOK(d)
  <2>1. EndsOK(doc)
    BY DocFacts
  <2>2. \A j \in DOMAIN doc : d[j].node.kind = doc[j].node.kind /\ d[j].node.ends = doc[j].node.ends
    BY <1>2, <1>5
  <2> QED
    BY <1>2, <2>1, <2>2 DEF EndsOK, EndOK
<1> QED
  BY <1>1, <1>7, <1>8, <1>9, EditInv

\* The edits that move nothing: of one element.
LEMMA EditedInv ==
  ASSUME Inv, NEW k \in DOMAIN doc, NEW x \in Element, NEW d, d = [doc EXCEPT ![k] = x], Edit(d),
         x.node.kind = doc[k].node.kind, x.node.parent = doc[k].node.parent,
         IF doc[k].node.kind = "flow" THEN x.node.ends \in Keys \X Keys ELSE x.node.ends = Empty,
         doc[k].node.kind = "flow" => \A e \in {1, 2} : EndOK(doc, x.node.ends[e]),
         x.peers \subseteq Boundaries(NodesOf(doc)) \ {k}
  PROVE  Inv'
<1>1. DOMAIN d = DOMAIN doc /\ d[k] = x /\ \A j \in DOMAIN doc \ {k} : d[j] = doc[j]
  OBVIOUS
<1>2. DocOK(d)
  <2>1. DocOK(doc)
    BY DocFacts
  <2>2. ASSUME NEW j \in DOMAIN doc
        PROVE  /\ d[j] \in Element /\ d[j].node.kind = doc[j].node.kind /\ d[j].node.parent = doc[j].node.parent
               /\ IF doc[j].node.kind = "flow" THEN d[j].node.ends \in Keys \X Keys ELSE d[j].node.ends = Empty
               /\ d[j].peers \subseteq Boundaries(NodesOf(doc)) \ {j}
    <3>1. CASE j = k
      BY <1>1, <3>1
    <3>2. CASE j # k
      BY <1>1, <3>2, DocFacts
    <3> QED
      BY <3>1, <3>2
  <2> QED
    BY <1>1, <2>1, <2>2, DocKept
<1>3. \A j \in DOMAIN d \intersect Ids : j \in DOMAIN doc /\ d[j].node.kind = doc[j].node.kind
  BY <1>1
<1>4. EndsOK(d)
  <2>1. EndsOK(doc)
    BY DocFacts
  <2>2. \A c : EndOK(doc, c) => EndOK(d, c)
    BY <1>1 DEF EndOK
  <2>3. ASSUME NEW j \in DOMAIN doc, d[j].node.kind = "flow", NEW e \in {1, 2}
        PROVE  EndOK(doc, d[j].node.ends[e])
    <3>1. CASE j = k
      BY <1>1, <2>3, <3>1
    <3>2. CASE j # k
      BY <1>1, <2>1, <2>3, <3>2 DEF EndsOK
    <3> QED
      BY <3>1, <3>2
  <2> QED
    BY <1>1, <2>2, <2>3 DEF EndsOK
<1> QED
  BY <1>2, <1>3, <1>4, EditInv

LEMMA ChangeInv == ASSUME Inv, NEW k \in DOMAIN doc, Change(k) PROVE Inv'
<1> DEFINE n == [doc[k].node EXCEPT !.val = 1 - doc[k].node.val, !.ans = 1 - doc[k].node.ans]
           x == [doc[k] EXCEPT !.node = n]
           d == [doc EXCEPT ![k] = x]
<1>1. doc[k] \in Element /\ doc[k].node \in NodeOf(Keys, Keys)
  BY DocFacts
<1>2. Edit(d)
  BY <1>1 DEF Change
<1>3. 1 - doc[k].node.val \in Vals /\ 1 - doc[k].node.ans \in Vals
  <2>1. doc[k].node.val \in {0, 1} /\ doc[k].node.ans \in {0, 1}
    BY <1>1 DEF NodeOf, Vals
  <2> QED
    BY <2>1 DEF Vals
<1>4. n \in NodeOf(Keys, Keys) /\ n.kind = doc[k].node.kind /\ n.parent = doc[k].node.parent
      /\ n.ends = doc[k].node.ends
  BY <1>1, <1>3 DEF NodeOf
<1> HIDE DEF n
<1>5. x \in Element /\ x.node = n /\ x.peers = doc[k].peers
  BY <1>1, <1>4 DEF Element
<1> HIDE DEF x
<1>6. d = [doc EXCEPT ![k] = x]
  OBVIOUS
<1> HIDE DEF d
<1>7. /\ x.node.kind = doc[k].node.kind /\ x.node.parent = doc[k].node.parent
      /\ x.node.ends = doc[k].node.ends
  BY <1>4, <1>5
<1>8. doc[k].node.kind = "flow" => \A e \in {1, 2} : EndOK(doc, x.node.ends[e])
  BY <1>7, DocFacts DEF EndsOK
<1> QED
  BY <1>2, <1>5, <1>6, <1>7, <1>8, DocFacts, EditedInv

LEMMA RetargetInv == ASSUME Inv, NEW k \in DOMAIN doc, NEW c \in DOMAIN doc, Retarget(k, c) PROVE Inv'
<1> DEFINE x == [doc[k] EXCEPT !.node.ends[1] = c]
           d == [doc EXCEPT ![k].node.ends[1] = c]
<1>1. Edit(d) /\ d = [doc EXCEPT ![k] = x] /\ doc[k].node.kind = "flow" /\ doc[c].node.kind = "component"
  BY DEF Retarget, KindOf
<1>2. doc[k] \in Element /\ doc[k].node \in NodeOf(Keys, Keys) /\ doc[k].node.ends \in Keys \X Keys /\ c \in Keys
  BY <1>1, DocFacts
<1>3. \A t \in Keys \X Keys : [t EXCEPT ![1] = c] \in Keys \X Keys
  BY <1>2
<1>4. x.node = [doc[k].node EXCEPT !.ends = [doc[k].node.ends EXCEPT ![1] = c]] /\ x.peers = doc[k].peers
      /\ x = [doc[k] EXCEPT !.node = [doc[k].node EXCEPT !.ends = [doc[k].node.ends EXCEPT ![1] = c]]]
  BY <1>2 DEF Element
<1> DEFINE t == [doc[k].node.ends EXCEPT ![1] = c]
<1>5. t \in Keys \X Keys
  BY <1>2, <1>3
<1>6. t[1] = c /\ t[2] = doc[k].node.ends[2]
  BY <1>2
<1> HIDE DEF t, x, d
<1>7. \A e \in {1, 2} : EndOK(doc, t[e])
  <2>1. EndOK(doc, doc[k].node.ends[2])
    BY <1>1, DocFacts DEF EndsOK
  <2>2. EndOK(doc, c)
    BY <1>1 DEF EndOK
  <2> QED
    BY <1>6, <2>1, <2>2
<1>8. [doc[k].node EXCEPT !.ends = t] \in NodeOf(Keys, Keys)
      /\ [doc[k].node EXCEPT !.ends = t].kind = doc[k].node.kind
      /\ [doc[k].node EXCEPT !.ends = t].parent = doc[k].node.parent
      /\ [doc[k].node EXCEPT !.ends = t].ends = t
  BY <1>2, <1>5 DEF NodeOf
<1>9. x \in Element /\ x.node.kind = doc[k].node.kind /\ x.node.parent = doc[k].node.parent
      /\ x.node.ends = t /\ x.peers = doc[k].peers
  <2> DEFINE n == [doc[k].node EXCEPT !.ends = t]
  <2>1. x = [doc[k] EXCEPT !.node = n] /\ n \in NodeOf(Keys, Keys)
    BY <1>4, <1>8 DEF t
  <2>2. x.node = n /\ x.peers = doc[k].peers
    BY <1>4 DEF t
  <2> HIDE DEF n
  <2>3. x \in Element
    BY <1>2, <2>1 DEF Element
  <2> QED
    BY <1>8, <2>2, <2>3 DEF n
<1> QED
  BY <1>1, <1>5, <1>7, <1>9, DocFacts, EditedInv

LEMMA ConnectInv == ASSUME Inv, NEW a \in DOMAIN doc, NEW b \in DOMAIN doc, Connect(a, b) PROVE Inv'
<1> DEFINE P == IF b \in doc[a].peers THEN doc[a].peers \ {b} ELSE doc[a].peers \union {b}
           x == [doc[a] EXCEPT !.peers = P]
           d == [doc EXCEPT ![a].peers = IF b \in @ THEN @ \ {b} ELSE @ \union {b}]
<1>1. Edit(d) /\ d = [doc EXCEPT ![a] = x] /\ b \in Boundaries(NodesOf(doc)) /\ a # b
  BY DocFacts DEF Connect
<1>2. doc[a] \in Element /\ doc[a].peers \subseteq Boundaries(NodesOf(doc)) \ {a} /\ b \in Keys
  BY DocFacts
<1>3. P \subseteq Boundaries(NodesOf(doc)) \ {a}
  BY <1>1, <1>2
<1>4. P \subseteq Keys
  BY <1>2 DEF Element
<1> HIDE DEF P, d
<1>5. x \in Element /\ x.node = doc[a].node /\ x.peers = P
  BY <1>2, <1>4 DEF Element
<1> HIDE DEF x
<1>6. doc[a].node.kind = "flow" => \A e \in {1, 2} : EndOK(doc, x.node.ends[e])
  BY <1>5, DocFacts DEF EndsOK
<1> QED
  BY <1>1, <1>3, <1>5, <1>6, DocFacts, EditedInv

LEMMA EditsInv == ASSUME Inv, Edits PROVE Inv'
BY AddInv, RemoveInv, ChangeInv, MoveInv, RetargetInv, ConnectInv DEF Edits

-----------------------------------------------------------------------------
(* The beginning of a push, and its phases                                 *)

\* What the platform returns of a model, and what it does not.
LEMMA DataFacts ==
  ASSUME NEW N, WellFormed(N), DOMAIN N \subseteq Ids
  PROVE  /\ 0 \in ModelData(N) /\ ModelData(N) \subseteq DOMAIN N
         /\ \A i \in DOMAIN N : N[i].kind \in Tree \union {"root"} => (i \in ModelData(N) <=> i \in Under(N, 0))
         /\ \A i \in DOMAIN N \ ModelData(N) :
              /\ N[i].kind # "item"
              /\ N[i].kind \in Tree => N[i].parent \notin ModelData(N)
              /\ \A e \in DOMAIN N[i].ends : N[i].ends[e] \notin ModelData(N)
<1>1. 0 \in DOMAIN N /\ N[0].kind = "root" /\ \A i \in DOMAIN N : N[i].kind = "root" => i = 0
  BY DEF WellFormed
<1>2. 0 \in Under(N, 0) /\ Under(N, 0) \subseteq DOMAIN N
  BY <1>1, UnderSelf, UnderParent
<1>3. 0 \in ModelData(N) /\ ModelData(N) \subseteq DOMAIN N
  BY <1>2 DEF ModelData, Domain
<1>4. ASSUME NEW i \in DOMAIN N, N[i].kind \in Tree \union {"root"}
      PROVE  i \in ModelData(N) <=> i \in Under(N, 0)
  BY <1>4 DEF ModelData, Domain, Tree
<1>5. ASSUME NEW i \in DOMAIN N \ ModelData(N), N[i].kind \in Tree
      PROVE  N[i].parent \notin ModelData(N)
  <2>1. N[i].parent \in Boundaries(N) \union {Gone}
    BY <1>5 DEF WellFormed
  <2>2. SUFFICES ASSUME N[i].parent \in ModelData(N)
                 PROVE  FALSE
    OBVIOUS
  <2>3. N[i].parent \in Boundaries(N)
    BY <1>3, <2>1, <2>2, RefsAssumption
  <2>4. N[i].parent \in Under(N, 0)
    BY <1>4, <2>2, <2>3 DEF Boundaries, Domain, Tree
  <2>5. N[i].parent \in Domain("boundary", N) \union {0}
    BY <1>1, <2>3 DEF Boundaries, Domain
  <2>6. i \in Under(N, 0)
    BY <1>5, <2>4, <2>5, UnderClosed
  <2> QED
    BY <1>4, <1>5, <2>6 DEF Tree
<1>6. ASSUME NEW i \in DOMAIN N \ ModelData(N), NEW e \in DOMAIN N[i].ends
      PROVE  N[i].ends[e] \notin ModelData(N)
  <2>1. N[i].kind = "flow"
    BY <1>6, EmptyMap DEF WellFormed
  <2> DEFINE T == Domain("component", N)
  <2>2. N[i].ends \in T \X T
    BY <2>1 DEF WellFormed
  <2> HIDE DEF T
  <2>3. e \in {1, 2} /\ N[i].ends[e] \in T
    BY <2>2
  <2>4. i \in Domain("flow", N)
    BY <2>1 DEF Domain
  <2>5. N[i].ends[e] \notin Under(N, 0)
    BY <1>6, <2>3, <2>4 DEF ModelData, T
  <2>6. N[i].ends[e] \in DOMAIN N /\ N[N[i].ends[e]].kind \in Tree
    BY <2>3 DEF T, Domain, Tree
  <2> QED
    BY <1>4, <2>5, <2>6
<1>7. \A i \in DOMAIN N \ ModelData(N) : N[i].kind # "item"
  BY DEF ModelData, Domain
<1> QED
  BY <1>3, <1>4, <1>5, <1>6, <1>7

LEMMA StartInv == ASSUME Inv, Start PROVE Inv'
<1> DEFINE data == ModelData(nodes)
<1>1. /\ pc = "idle" /\ Valid /\ pc' = "tree" /\ existing' = data \ {0} /\ base' = BagToSet(conduits)
      /\ idMapping' = [i \in data |-> i] /\ processed' = {} /\ entered' = {0} /\ queue' = {} /\ errors' = FALSE
      /\ todo' = DocKeys(Tree \union {"item", "root"})
      /\ UNCHANGED <<doc, nodes, conduits, minted, faults, edits, blamed, spared>>
  BY DEF Start
<1>2. WellFormed(nodes) /\ DOMAIN nodes \subseteq Ids /\ DOMAIN nodes \subseteq 0..minted
  BY NodeFacts DEF Inv, NodeInv
<1>3. /\ 0 \in data /\ data \subseteq DOMAIN nodes
      /\ \A i \in DOMAIN nodes \ data :
           /\ nodes[i].kind # "item"
           /\ nodes[i].kind \in Tree => nodes[i].parent \notin data
           /\ \A e \in DOMAIN nodes[i].ends : nodes[i].ends[e] \notin data
  BY <1>2, DataFacts
<1> HIDE DEF data
<1>4. DOMAIN idMapping' = data /\ \A i \in data : idMapping'[i] = i
  BY <1>1
<1>5. 0 \in DOMAIN doc /\ doc[0].node.kind = "root" /\ DOMAIN doc \subseteq Keys
  BY DocFacts DEF DocOK
<1>6. DocInv' /\ NodeInv'
  BY <1>1 DEF Inv, DocInv, NodeInv
<1>7. MapInv'
  <2>1. Valid'
    BY <1>1 DEF Valid, DocKeys, KindOf
  <2>2. existing' \union {0} = data /\ 0 \notin existing' /\ existing' \subseteq 0..minted'
    BY <1>1, <1>2, <1>3
  <2>3. \A k \in data \intersect DOMAIN doc : nodes[k].kind = KindOf(k)
    <3>1. \A k \in data : k \in Ids /\ k \in DOMAIN nodes
      BY <1>2, <1>3
    <3> QED
      BY <3>1 DEF Inv, DocInv, KindOf
  <2>4. \A k \in DOMAIN idMapping' : idMapping'[k] \in 0..minted' /\ idMapping'[k] \in DOMAIN nodes'
    BY <1>1, <1>2, <1>3, <1>4
  <2>5. \A k \in DOMAIN idMapping' \intersect DOMAIN doc' :
          idMapping'[k] \in DOMAIN nodes' => nodes'[idMapping'[k]].kind = KindOf(k)'
    BY <1>1, <1>4, <2>3 DEF KindOf
  <2> QED
    BY <1>1, <1>3, <1>4, <1>5, <2>1, <2>2, <2>4, <2>5 DEF MapInv
<1>8. ParentInv'
  BY <1>1, <1>5 DEF ParentInv, KindOf, Tree
<1>9. WorkInv'
  <2>1. todo' = DocKeys(Tree \union {"item", "root"})' /\ entered' \intersect DocKeys({"flow"})' = {}
    BY <1>1, <1>5 DEF DocKeys, KindOf
  <2> QED
    BY <1>1, <2>1 DEF WorkInv
<1>10. SyncInv'
  <2>1. blamed' = {}
    BY <1>1 DEF Inv, IdleInv
  <2>2. Known' = data
    BY <1>1, <1>3 DEF Known
  <2> QED
    BY <1>1, <1>3, <2>1, <2>2 DEF SyncInv
<1>11. ConduitInv' /\ IdleInv'
  BY <1>1 DEF ConduitInv, IdleInv
<1>12. PushType'
  <2>1. data \subseteq Ids /\ data \subseteq Keys
    BY <1>2, <1>3 DEF Keys
  <2>2. BagToSet(conduits) \subseteq Ids \X Ids
    <3>1. Boundaries(nodes) \subseteq Ids
      BY <1>2 DEF Boundaries, Domain
    <3> QED
      BY <3>1 DEF Inv, NodeInv
  <2>3. DocKeys(Tree \union {"item", "root"}) \subseteq Keys
    BY <1>5 DEF DocKeys
  <2>4. faults' \in 0..MaxFaults /\ edits' \in 0..MaxEdits /\ blamed' \subseteq Keys /\ spared' \subseteq Ids
    BY <1>1 DEF Inv, PushType
  <2>5. pc' \in Phases /\ errors' \in BOOLEAN
    BY <1>1 DEF Phases
  <2>6. existing' \subseteq Ids /\ base' \subseteq Ids \X Ids /\ processed' \subseteq Ids
        /\ entered' \subseteq Keys /\ todo' \subseteq Keys /\ queue' \subseteq Ids \X Vals
    BY <1>1, <1>3, <2>1, <2>2, <2>3
  <2>7. DOMAIN idMapping' \subseteq Keys /\ \A k \in DOMAIN idMapping' : idMapping'[k] \in Ids
    BY <1>4, <2>1
  <2> QED
    BY <2>4, <2>5, <2>6, <2>7 DEF PushType
<1> QED
  BY <1>6, <1>7, <1>8, <1>9, <1>10, <1>11, <1>12 DEF Inv

\* The line of an element: its own, and that of the boundary it is in.
LEMMA LinesIntro ==
  ASSUME NEW N, NEW i, NEW n \in DOMAIN N, n # 0, i \in Under(N, n)
  PROVE  n \in Lines(N, i)
BY DEF Lines

LEMMA LinesUp ==
  ASSUME NEW N, NEW i \in DOMAIN N, N[i].kind \in Tree, NEW p \in Domain("boundary", N), N[i].parent = p,
         N[p].ends = Empty, NEW n \in Lines(N, p)
  PROVE  n \in Lines(N, i)
<1>1. n \in DOMAIN N /\ n # 0 /\ p \in Under(N, n)
  BY EmptyMap DEF Lines
<1>2. i \in Under(N, n)
  BY <1>1, UnderClosed
<1> QED
  BY <1>1, <1>2, LinesIntro

\* When nothing more is ready the tree is written, but for what failed and
\* what is in it.
LEMMA TreeDone ==
  ASSUME Inv, pc = "tree", ~ \E k \in todo : Ready(k)
  PROVE  /\ 0 \in processed /\ todo \intersect DocKeys({"item", "root"}) = {}
         /\ \A k \in DocKeys(Tree) : k \in entered \/ Lines(DocNodes, k) \intersect blamed # {}
         /\ \A k \in DocKeys({"item"}) : k \in entered \union blamed /\ (k \in existing => k \in entered)
<1> DEFINE N == NodesOf(doc)
<1>1. /\ DocOK(doc) /\ DocNodes = N /\ DOMAIN N = DOMAIN doc /\ \A k \in DOMAIN doc : N[k] = doc[k].node
      /\ 0 \in DOMAIN doc /\ doc[0].node.kind = "root" /\ \A k \in DOMAIN doc : doc[k].node.kind = "root" => k = 0
  BY DocFacts, NodesOfFacts DEF DocOK
<1>2. /\ todo \subseteq DocKeys(Tree \union {"item", "root"})
      /\ \A k \in DocKeys(Tree \union {"item", "root"}) \ todo :
           /\ k \in entered \union blamed /\ (k \in existing => k \in entered)
           /\ k = 0 => 0 \in processed
  BY DEF Inv, WorkInv
<1>3. todo \intersect DocKeys({"item"}) = {}
  BY DEF Ready, DocKeys
<1>4. 0 \notin todo
  BY <1>3 DEF Ready
<1>5. todo \intersect DocKeys({"item", "root"}) = {}
  BY <1>1, <1>3, <1>4 DEF DocKeys, KindOf
<1>6. 0 \in processed
  BY <1>1, <1>2, <1>4 DEF DocKeys, KindOf
<1>7. \A k \in DocKeys({"item"}) : k \in entered \union blamed /\ (k \in existing => k \in entered)
  BY <1>2, <1>3 DEF DocKeys
<1>8. \A k \in todo : KindOf(k) \in Tree => doc[k].node.parent \notin entered
  BY <1>5 DEF Ready
<1> DEFINE good(k) == k \in entered \/ Lines(N, k) \intersect blamed # {}
<1>9. ASSUME NEW k \in DocKeys(Tree), NEW p, p = doc[k].node.parent, p \in {0} \/ good(p)
      PROVE  good(k)
  <2>1. k \in DOMAIN doc /\ k # 0 /\ doc[k].node.kind \in Tree /\ p \in Boundaries(N) /\ p \in DOMAIN doc
    BY <1>1, <1>9, DocShape DEF DocKeys, KindOf, Tree
  <2>2. CASE p \in entered
    <3>1. k \notin todo
      BY <1>8, <1>9, <2>1, <2>2 DEF KindOf
    <3>2. k \in entered \union blamed
      BY <1>2, <3>1 DEF DocKeys
    <3>3. k \in Lines(N, k)
      BY <1>1, <2>1, UnderSelf, LinesIntro
    <3> QED
      BY <3>2, <3>3
  <2>3. CASE p \notin entered
    <3>1. 0 \in entered
      BY DEF Inv, MapInv
    <3>2. p # 0 /\ Lines(N, p) \intersect blamed # {}
      BY <1>9, <2>3, <3>1
    <3>3. p \in Domain("boundary", N) /\ doc[p].node.ends = Empty
      BY <1>1, <2>1, <3>2 DEF Boundaries, Domain, DocOK
    <3>4. PICK n \in Lines(N, p) : n \in blamed
      BY <3>2
    <3>5. n \in Lines(N, k)
      BY <1>1, <1>9, <2>1, <3>3, <3>4, LinesUp
    <3> QED
      BY <3>4, <3>5
  <2> QED
    BY <2>2, <2>3
<1>10. \A b \in Inside(N, 0) : good(b)
  <2> DEFINE S == {b \in Inside(N, 0) : good(b)}
  <2>1. ASSUME NEW j \in Domain("boundary", N), N[j].parent \in S \union {0}
        PROVE  j \in S
    <3>1. j \in Inside(N, 0) /\ j \in DocKeys(Tree) /\ N[j].parent = doc[j].node.parent
      BY <1>1, <2>1, InsideClosed DEF Domain, DocKeys, KindOf, Tree
    <3>2. N[j].parent = 0 \/ good(N[j].parent)
      BY <2>1
    <3>3. good(j)
      <4> HIDE DEF good
      <4> QED
        BY <1>9, <3>1, <3>2
    <3> QED
      BY <3>1, <3>3
  <2> HIDE DEF S
  <2>2. Inside(N, 0) \subseteq S
    BY <2>1, InsideLeast
  <2> QED
    BY <2>2 DEF S
<1>11. ASSUME NEW k \in DocKeys(Tree)
       PROVE  good(k)
  <2>1. doc[k].node.parent \in Inside(N, 0) \union {0}
    BY <1>1, DocShape DEF DocKeys, KindOf
  <2> HIDE DEF good
  <2> QED
    BY <1>9, <1>10, <2>1
<1> QED
  BY <1>1, <1>5, <1>6, <1>7, <1>11

LEMMA SameDoc ==
  ASSUME doc' = doc
  PROVE  /\ Valid' = Valid /\ DocNodes' = DocNodes
         /\ DocKeys({"flow"})' = DocKeys({"flow"}) /\ DocKeys(Tree)' = DocKeys(Tree)
         /\ DocKeys({"item"})' = DocKeys({"item"}) /\ DocKeys({"root", "boundary"})' = DocKeys({"root", "boundary"})
         /\ DocKeys(Tree \union {"item", "root"})' = DocKeys(Tree \union {"item", "root"})
         /\ \A k : KindOf(k)' = KindOf(k)
         /\ \A k : Lines(DocNodes, k)' = Lines(DocNodes, k)
<1>1. DocNodes' = DocNodes
  BY DEF DocNodes
<1>2. Valid' = Valid
  BY DEF Valid, DocKeys, KindOf
<1>3. \A k : Lines(DocNodes, k)' = Lines(DocNodes, k)
  BY <1>1
<1> QED
  BY <1>1, <1>2, <1>3 DEF DocKeys, KindOf

\* What a change of phase cannot disturb.
LEMMA GotoRest ==
  ASSUME Inv, NEW phase \in Phases \ {"idle"}, NEW work \in SUBSET Keys, Goto(phase, work), pc # "idle",
         phase \in Writing => pc \in Writing
  PROVE  DocInv' /\ NodeInv' /\ IdleInv' /\ MapInv' /\ ParentInv' /\ PushType'
<1>1. /\ pc' = phase /\ todo' = work /\ doc' = doc
      /\ UNCHANGED <<doc, nodes, conduits, minted, existing, base, idMapping, processed,
                     entered, queue, errors, faults, edits, blamed, spared>>
  BY DEF Goto
<1>2. DocInv' /\ NodeInv' /\ IdleInv'
  BY <1>1 DEF Inv, DocInv, NodeInv, IdleInv
<1>3. MapInv'
  BY <1>1, SameDoc DEF Inv, MapInv
<1>4. ParentInv'
  BY <1>1, SameDoc DEF Inv, ParentInv
<1>5. PushType'
  BY <1>1 DEF Inv, PushType
<1> QED
  BY <1>2, <1>3, <1>4, <1>5

LEMMA ToConduits ==
  ASSUME Inv, pc = "tree", ~ \E k \in todo : Ready(k),
         Goto("conduits", DocKeys({"root", "boundary"}) \intersect DOMAIN idMapping)
  PROVE  Inv'
<1> DEFINE work == DocKeys({"root", "boundary"}) \intersect DOMAIN idMapping
<1>1. /\ pc' = "conduits" /\ todo' = work /\ doc' = doc
      /\ UNCHANGED <<doc, nodes, conduits, minted, existing, base, idMapping, processed,
                     entered, queue, errors, faults, edits, blamed, spared>>
  BY DEF Goto
<1>2. work \in SUBSET Keys
  BY DocFacts DEF DocKeys
<1>3. DocInv' /\ NodeInv' /\ IdleInv' /\ MapInv' /\ ParentInv' /\ PushType'
  BY <1>2, GotoRest DEF Phases, Writing
<1>4. WorkInv'
  BY <1>1, SameDoc, TreeDone DEF Inv, WorkInv
<1>5. SyncInv'
  BY <1>1, SameDoc DEF Inv, SyncInv, Known
<1>6. ConduitInv'
  <2>1. base' = BagToSet(conduits')
    BY <1>1 DEF Inv, ConduitInv
  <2>2. ASSUME ~errors
        PROVE  DocKeys({"root", "boundary"}) \subseteq DOMAIN idMapping
    <3>1. blamed = {} /\ entered \subseteq DOMAIN idMapping /\ 0 \in entered
      BY <2>2 DEF Inv, SyncInv, MapInv
    <3>2. \A k \in DocKeys(Tree) : k \in entered
      BY <3>1, TreeDone
    <3>3. \A k \in DocKeys({"root", "boundary"}) : k = 0 \/ k \in DocKeys(Tree)
      BY DocFacts DEF DocOK, DocKeys, KindOf, Tree
    <3> QED
      BY <3>1, <3>2, <3>3
  <2> QED
    BY <1>1, <2>1, <2>2, SameDoc DEF ConduitInv
<1> QED
  BY <1>3, <1>4, <1>5, <1>6 DEF Inv

LEMMA ToFlows ==
  ASSUME Inv, pc = "conduits", todo = {}, Goto("flows", DocKeys({"flow"}))
  PROVE  Inv'
<1>1. /\ pc' = "flows" /\ todo' = DocKeys({"flow"}) /\ doc' = doc
      /\ UNCHANGED <<doc, nodes, conduits, minted, existing, base, idMapping, processed,
                     entered, queue, errors, faults, edits, blamed, spared>>
  BY DEF Goto
<1>2. DocKeys({"flow"}) \in SUBSET Keys
  BY DocFacts DEF DocKeys
<1>3. DocInv' /\ NodeInv' /\ IdleInv' /\ MapInv' /\ ParentInv' /\ PushType'
  BY <1>2, GotoRest DEF Phases, Writing
<1>4. WorkInv'
  BY <1>1, SameDoc DEF Inv, WorkInv
<1>5. SyncInv'
  BY <1>1, SameDoc DEF Inv, SyncInv, Known
<1>6. ConduitInv'
  BY <1>1, SameDoc DEF Inv, ConduitInv
<1> QED
  BY <1>3, <1>4, <1>5, <1>6 DEF Inv

LEMMA ToAnswers ==
  ASSUME Inv, pc = "flows", todo = {}, Goto("answers", {})
  PROVE  Inv'
<1>1. /\ pc' = "answers" /\ todo' = {} /\ doc' = doc
      /\ UNCHANGED <<doc, nodes, conduits, minted, existing, base, idMapping, processed,
                     entered, queue, errors, faults, edits, blamed, spared>>
  BY DEF Goto
<1>3. DocInv' /\ NodeInv' /\ IdleInv' /\ MapInv' /\ ParentInv' /\ PushType'
  BY GotoRest DEF Phases, Writing
<1>4. WorkInv'
  BY <1>1, SameDoc DEF Inv, WorkInv
<1>5. SyncInv'
  BY <1>1, SameDoc DEF Inv, SyncInv, Known
<1>6. ConduitInv'
  BY <1>1, SameDoc DEF Inv, ConduitInv
<1> QED
  BY <1>3, <1>4, <1>5, <1>6 DEF Inv

LEMMA ToOrphans ==
  ASSUME Inv, pc = "answers", queue = {}, Goto("orphans", existing \ processed)
  PROVE  Inv'
<1>1. /\ pc' = "orphans" /\ todo' = existing \ processed /\ doc' = doc
      /\ UNCHANGED <<doc, nodes, conduits, minted, existing, base, idMapping, processed,
                     entered, queue, errors, faults, edits, blamed, spared>>
  BY DEF Goto
<1>2. existing \ processed \in SUBSET Keys
  BY DEF Inv, PushType, Keys
<1>3. DocInv' /\ NodeInv' /\ IdleInv' /\ MapInv' /\ ParentInv' /\ PushType'
  BY <1>2, GotoRest DEF Phases, Writing
<1>4. WorkInv'
  BY <1>1, SameDoc DEF Inv, WorkInv
<1>5. SyncInv'
  BY <1>1, SameDoc DEF Inv, SyncInv, Known
<1>6. ConduitInv'
  BY <1>1, SameDoc DEF Inv, ConduitInv
<1> QED
  BY <1>3, <1>4, <1>5, <1>6 DEF Inv

LEMMA ToExport ==
  ASSUME Inv, pc = "orphans", todo = {}, ~errors, Goto("export", {})
  PROVE  Inv'
<1>1. /\ pc' = "export" /\ todo' = {} /\ doc' = doc
      /\ UNCHANGED <<doc, nodes, conduits, minted, existing, base, idMapping, processed,
                     entered, queue, errors, faults, edits, blamed, spared>>
  BY DEF Goto
<1>3. DocInv' /\ NodeInv' /\ IdleInv' /\ MapInv' /\ ParentInv' /\ PushType'
  BY GotoRest DEF Phases, Writing
<1>4. WorkInv'
  BY <1>1, SameDoc DEF Inv, WorkInv
<1>5. SyncInv'
  BY <1>1, SameDoc DEF Inv, SyncInv, Known
<1>6. ConduitInv'
  BY <1>1, SameDoc DEF Inv, ConduitInv
<1> QED
  BY <1>3, <1>4, <1>5, <1>6 DEF Inv

LEMMA NextPhaseInv == ASSUME Inv, NextPhase PROVE Inv'
BY ToConduits, ToFlows, ToAnswers, ToOrphans, ToExport DEF NextPhase

-----------------------------------------------------------------------------
(* Writing an element                                                      *)

MappedEnds(k) == <<idMapping[doc[k].node.ends[1]], idMapping[doc[k].node.ends[2]]>>

\* An element that is ready is sent with references the platform knows.
LEMMA ReadyFacts ==
  ASSUME Inv, NEW k \in todo, Ready(k)
  PROVE  /\ k \in DOMAIN doc /\ pc \in {"tree", "flows"} /\ (k \in entered => k = 0)
         /\ (KindOf(k) = "flow" <=> pc = "flows") /\ (KindOf(k) = "root" <=> k = 0)
         /\ Sent(k) \in Node /\ Sent(k).kind = KindOf(k) /\ Sent(k).val = doc[k].node.val
         /\ KindOf(k) \in Tree =>
              /\ doc[k].node.parent \in entered /\ Sent(k).parent = idMapping[doc[k].node.parent]
              /\ Sent(k).parent \in Boundaries(nodes)
         /\ KindOf(k) \notin Tree => Sent(k).parent = 0
         /\ KindOf(k) = "flow" =>
              /\ doc[k].node.ends[1] \in DocKeys(Tree) /\ doc[k].node.ends[2] \in DocKeys(Tree)
              /\ Sent(k).ends = MappedEnds(k)
              /\ Sent(k).ends \in Domain("component", nodes) \X Domain("component", nodes)
         /\ KindOf(k) # "flow" => Sent(k).ends = Empty
<1> DEFINE node == doc[k].node
           T == Domain("component", nodes)
<1>1. pc \in {"tree", "flows"} /\ (k \in entered => k = 0)
  BY DEF Ready, Inv, WorkInv
<1>2. k \in DOMAIN doc /\ (KindOf(k) = "flow" <=> pc = "flows")
  BY <1>1 DEF Inv, WorkInv, DocKeys, Tree
<1>3. DocOK(doc) /\ doc[k] \in Element /\ node \in NodeOf(Keys, Keys)
  BY <1>2, DocFacts
<1>4. KindOf(k) = node.kind /\ (node.kind = "root" <=> k = 0) /\ (node.kind \notin Tree => node.parent = 0)
      /\ IF node.kind = "flow" THEN node.ends \in Keys \X Keys ELSE node.ends = Empty
  BY <1>2, <1>3 DEF DocOK, KindOf
<1>5. /\ Valid /\ entered \subseteq DOMAIN idMapping \intersect DOMAIN doc
      /\ \A j \in DOMAIN idMapping : idMapping[j] \in DOMAIN nodes
      /\ \A j \in DOMAIN idMapping \intersect DOMAIN doc : nodes[idMapping[j]].kind = KindOf(j)
  BY <1>1 DEF Inv, MapInv, Writing
<1>6. CASE node.kind \in Tree
  <2>1. node.parent \in entered
    BY <1>1, <1>2, <1>4, <1>6 DEF Ready, Tree
  <2>2. node.parent \in Boundaries(NodesOf(doc)) /\ node.parent \in DOMAIN doc
    BY <1>2, <1>3, <1>6, DocShape
  <2>3. KindOf(node.parent) \in {"root", "boundary"}
    BY <2>2, NodesOfFacts DEF Boundaries, Domain, KindOf
  <2>4. idMapping[node.parent] \in Boundaries(nodes)
    BY <1>5, <2>1, <2>3 DEF Boundaries, Domain
  <2>5. node.ends = Empty /\ node.kind # "flow"
    BY <1>4, <1>6 DEF Tree
  <2>6. Sent(k) = [node EXCEPT !.parent = idMapping[node.parent], !.ends = Empty]
    BY <1>3, <1>6, <2>5 DEF Sent
  <2>7. idMapping[node.parent] \in Ids
    BY <2>4, NodeFacts DEF Boundaries, Domain
  <2>8. /\ Sent(k) \in Node /\ Sent(k).kind = node.kind /\ Sent(k).val = node.val
        /\ Sent(k).parent = idMapping[node.parent] /\ Sent(k).ends = Empty
    BY <1>3, <2>6, <2>7 DEF Node, NodeOf
  <2> QED
    BY <1>1, <1>2, <1>4, <1>6, <2>1, <2>4, <2>5, <2>8
<1>7. CASE node.kind = "flow"
  <2>1. node.kind \notin Tree /\ k \in DocKeys({"flow"})
    BY <1>2, <1>7 DEF Tree, DocKeys, KindOf
  <2>2. node.ends[1] \in DocKeys(Tree) /\ node.ends[2] \in DocKeys(Tree)
    BY <1>5, <2>1 DEF Valid
  <2>3. node.ends[1] \in DOMAIN idMapping /\ node.ends[2] \in DOMAIN idMapping
    BY <1>2, <1>4, <1>7 DEF Ready
  <2>4. idMapping[node.ends[1]] \in T /\ idMapping[node.ends[2]] \in T
    <3>1. EndOK(doc, node.ends[1]) /\ EndOK(doc, node.ends[2])
      BY <1>2, <1>7, DocFacts DEF EndsOK
    <3>2. /\ node.ends[1] \in DOMAIN doc /\ KindOf(node.ends[1]) = "component"
          /\ node.ends[2] \in DOMAIN doc /\ KindOf(node.ends[2]) = "component"
      BY <2>2, <3>1 DEF EndOK, DocKeys, KindOf
    <3> QED
      BY <1>5, <2>3, <3>2 DEF Domain
  <2>5. Sent(k) = [node EXCEPT !.parent = node.parent, !.ends = MappedEnds(k)]
    BY <1>3, <1>7, <2>1 DEF Sent, MappedEnds
  <2>6. MappedEnds(k) \in T \X T /\ MappedEnds(k) \in Ids \X Ids /\ node.parent = 0 /\ 0 \in Ids
    BY <1>4, <2>1, <2>4, NodeFacts DEF MappedEnds, Domain
  <2> HIDE DEF T
  <2>7. /\ Sent(k) \in Node /\ Sent(k).kind = node.kind /\ Sent(k).val = node.val
        /\ Sent(k).parent = 0 /\ Sent(k).ends = MappedEnds(k)
    BY <1>3, <2>5, <2>6 DEF Node, NodeOf
  <2> QED
    BY <1>1, <1>2, <1>4, <1>7, <2>1, <2>2, <2>6, <2>7 DEF T
<1>8. CASE node.kind \notin Tree /\ node.kind # "flow"
  <2>1. node.parent = 0 /\ node.ends = Empty /\ 0 \in Ids
    BY <1>4, <1>8, NodeFacts
  <2>2. Sent(k) = [node EXCEPT !.parent = node.parent, !.ends = node.ends]
    BY <1>3, <1>8 DEF Sent
  <2>3. /\ Sent(k) \in Node /\ Sent(k).kind = node.kind /\ Sent(k).val = node.val
        /\ Sent(k).parent = 0 /\ Sent(k).ends = Empty
    BY <1>3, <2>1, <2>2 DEF Node, NodeOf
  <2> QED
    BY <1>1, <1>2, <1>4, <1>8, <2>3
<1> QED
  BY <1>6, <1>7, <1>8

\* The platform stays well-formed.
LEMMA WroteWell ==
  ASSUME NEW N, WellFormed(N), NEW id, NEW n \in Node, n.kind = "root" <=> id = 0,
         id \in DOMAIN N => N[id].kind = n.kind,
         IF n.kind \in Tree THEN n.parent \in Boundaries(N) ELSE n.parent = 0,
         IF n.kind = "flow"
           THEN n.ends \in Domain("component", N) \X Domain("component", N)
           ELSE n.ends = Empty,
         NEW M, DOMAIN M = DOMAIN N \union {id}, M[id] = n, \A i \in DOMAIN N \ {id} : M[i] = N[i]
  PROVE  WellFormed(M) /\ Boundaries(N) \subseteq Boundaries(M)
<1> DEFINE T == Domain("component", N)
           U == Domain("component", M)
<1>1. \A i \in DOMAIN N : i \in DOMAIN M /\ M[i].kind = N[i].kind
  OBVIOUS
<1>2. Boundaries(N) \subseteq Boundaries(M)
  BY <1>1 DEF Boundaries, Domain
<1>3. T \subseteq U
  BY <1>1 DEF Domain
<1>4. n.kind = "flow" => n.ends \in T \X T
  OBVIOUS
<1>5. \A i \in DOMAIN N : N[i].kind = "flow" => N[i].ends \in T \X T
  BY DEF WellFormed
<1> HIDE DEF T
<1>6. n.kind = "flow" => n.ends \in U \X U
  <2> HIDE DEF U
  <2> QED
    BY <1>3, <1>4
<1>7. \A i \in DOMAIN N : N[i].kind = "flow" => N[i].ends \in U \X U
  <2> HIDE DEF U
  <2> QED
    BY <1>3, <1>5
<1>8. 0 \in DOMAIN M
  BY DEF WellFormed
<1>9. ASSUME NEW i \in DOMAIN M
      PROVE  /\ M[i] \in Node /\ (M[i].kind = "root" <=> i = 0)
             /\ IF M[i].kind \in Tree THEN M[i].parent \in Boundaries(M) \union {Gone} ELSE M[i].parent = 0
             /\ IF M[i].kind = "flow" THEN M[i].ends \in U \X U ELSE M[i].ends = Empty
  <2> HIDE DEF U
  <2>1. CASE i = id
    BY <1>2, <1>6, <2>1
  <2>2. CASE i # id
    <3>1. i \in DOMAIN N /\ M[i] = N[i]
      BY <2>2
    <3>2. /\ N[i] \in Node /\ (N[i].kind = "root" <=> i = 0)
          /\ IF N[i].kind \in Tree THEN N[i].parent \in Boundaries(N) \union {Gone} ELSE N[i].parent = 0
          /\ N[i].kind # "flow" => N[i].ends = Empty
      BY <3>1 DEF WellFormed
    <3> QED
      BY <1>2, <1>7, <3>1, <3>2
  <2> QED
    BY <2>1, <2>2
<1> QED
  BY <1>2, <1>8, <1>9 DEF WellFormed

LEMMA SentAns ==
  ASSUME NEW s \in Node, NEW a \in Vals
  PROVE  LET n == [s EXCEPT !.ans = a]
         IN  /\ n \in Node /\ n.kind = s.kind /\ n.parent = s.parent /\ n.ends = s.ends
             /\ n.val = s.val /\ n.ans = a
BY DEF Node, NodeOf

\* What an update does to the platform.
LEMMA UpdateEffect ==
  ASSUME Inv, NEW k \in todo, NEW o, Update(k, o)
  PROVE  /\ k \in DOMAIN nodes /\ idMapping[k] = k /\ k \in DOMAIN idMapping /\ DOMAIN nodes' = DOMAIN nodes
         /\ \A i \in DOMAIN nodes : nodes'[i].kind = nodes[i].kind
         /\ \A i \in DOMAIN nodes \ {k} : nodes'[i] = nodes[i]
         /\ o # "refused" => /\ nodes'[k].parent = Sent(k).parent /\ nodes'[k].ends = Sent(k).ends
                             /\ nodes'[k].val = Sent(k).val /\ nodes'[k].ans = nodes[k].ans
         /\ o = "refused" => nodes' = nodes
         /\ WellFormed(nodes') /\ Boundaries(nodes) \subseteq Boundaries(nodes')
         /\ (o # "refused" => nodes'[k].kind = KindOf(k))
<1>1. /\ Ready(k) /\ k \in existing \union {0}
      /\ nodes' = IF o = "refused" THEN nodes ELSE [nodes EXCEPT ![k] = [Sent(k) EXCEPT !.ans = nodes[k].ans]]
  BY DEF Update
<1>2. pc \in {"tree", "flows"} /\ k \in DOMAIN doc /\ Sent(k) \in Node /\ Sent(k).kind = KindOf(k)
  BY <1>1, ReadyFacts
<1>3. idMapping[k] = k /\ k \in DOMAIN idMapping /\ k \in DOMAIN nodes /\ nodes[k].kind = KindOf(k)
  BY <1>1, <1>2 DEF Inv, MapInv, Writing
<1>4. WellFormed(nodes) /\ nodes[k].ans \in Vals
  BY <1>3 DEF Inv, NodeInv, WellFormed, Node, NodeOf
<1>5. CASE o = "refused"
  BY <1>1, <1>3, <1>4, <1>5
<1>6. CASE o # "refused"
  <2> DEFINE n == [Sent(k) EXCEPT !.ans = nodes[k].ans]
  <2>1. /\ n \in Node /\ n.kind = Sent(k).kind /\ n.parent = Sent(k).parent /\ n.ends = Sent(k).ends
        /\ n.val = Sent(k).val /\ n.ans = nodes[k].ans
    BY <1>2, <1>4, SentAns
  <2>2. nodes' = [nodes EXCEPT ![k] = n]
    BY <1>1, <1>6
  <2> HIDE DEF n
  <2>3. DOMAIN nodes' = DOMAIN nodes /\ nodes'[k] = n /\ \A i \in DOMAIN nodes \ {k} : nodes'[i] = nodes[i]
    BY <1>3, <2>2
  <2>4. WellFormed(nodes') /\ Boundaries(nodes) \subseteq Boundaries(nodes')
    <3>1. /\ n.kind = "root" <=> k = 0
          /\ (k \in DOMAIN nodes => nodes[k].kind = n.kind)
          /\ IF n.kind \in Tree THEN n.parent \in Boundaries(nodes) ELSE n.parent = 0
      BY <1>1, <1>2, <1>3, <2>1, ReadyFacts
    <3>2. IF n.kind = "flow"
           THEN n.ends \in Domain("component", nodes) \X Domain("component", nodes)
           ELSE n.ends = Empty
      BY <1>1, <1>2, <2>1, ReadyFacts
    <3>3. DOMAIN nodes' = DOMAIN nodes \union {k}
      BY <1>3, <2>3
    <3> QED
      BY <1>4, <2>1, <2>3, <3>1, <3>2, <3>3, WroteWell
  <2> QED
    BY <1>2, <1>3, <1>6, <2>1, <2>3, <2>4
<1> QED
  BY <1>5, <1>6

LEMMA UpdateInv ==
  ASSUME Inv, NEW k \in todo, NEW o \in {"ok", "lost", "refused"}, Update(k, o)
  PROVE  Inv'
<1>1. /\ Ready(k) /\ k \in existing \union {0} /\ Outcome(o)
      /\ queue' = (IF o = "ok" /\ k # 0 THEN queue \union {<<k, doc[k].node.ans>>} ELSE queue)
      /\ errors' = (errors \/ o # "ok")
      /\ blamed' = (IF o = "refused" THEN blamed \union {k} ELSE blamed)
      /\ processed' = processed \union {k} /\ entered' = entered \union {k} /\ todo' = todo \ {k} /\ doc' = doc
      /\ UNCHANGED <<doc, conduits, minted, pc, existing, base, idMapping, edits, spared>>
  BY DEF Update
<1>2. /\ k \in DOMAIN doc /\ pc \in {"tree", "flows"} /\ (k \in entered => k = 0)
      /\ (KindOf(k) = "flow" <=> pc = "flows") /\ (KindOf(k) = "root" <=> k = 0)
      /\ Sent(k).val = doc[k].node.val
  BY <1>1, ReadyFacts
<1>3. /\ k \in DOMAIN nodes /\ idMapping[k] = k /\ k \in DOMAIN idMapping /\ DOMAIN nodes' = DOMAIN nodes
      /\ \A i \in DOMAIN nodes : nodes'[i].kind = nodes[i].kind
      /\ \A i \in DOMAIN nodes \ {k} : nodes'[i] = nodes[i]
      /\ o # "refused" => /\ nodes'[k].parent = Sent(k).parent /\ nodes'[k].ends = Sent(k).ends
                          /\ nodes'[k].val = Sent(k).val /\ nodes'[k].ans = nodes[k].ans
      /\ WellFormed(nodes') /\ Boundaries(nodes) \subseteq Boundaries(nodes')
  BY UpdateEffect
<1>4. MapInv /\ pc # "idle" /\ pc \in Writing
  BY <1>2 DEF Inv, Writing
<1>5. \A j \in DOMAIN idMapping : j # k => idMapping[j] # k /\ idMapping[j] \in DOMAIN nodes
  BY <1>3, <1>4 DEF MapInv
<1>6. DocInv'
  BY <1>1, <1>3 DEF Inv, DocInv
<1>7. NodeInv'
  BY <1>1, <1>3 DEF Inv, NodeInv
<1>8. IdleInv'
  BY <1>1, <1>4 DEF IdleInv
<1>9. MapInv'
  <2>1. /\ Valid' /\ existing' \subseteq 0..minted' /\ 0 \notin existing'
        /\ existing' \union {0} \subseteq DOMAIN idMapping'
        /\ \A i \in existing' \union {0} : idMapping'[i] = i
        /\ DOMAIN idMapping' \subseteq existing' \union {0} \union entered'
        /\ \A j \in DOMAIN idMapping' : idMapping'[j] \in 0..minted'
        /\ \A j, i \in DOMAIN idMapping' : idMapping'[j] = idMapping'[i] => j = i
    BY <1>1, <1>4, SameDoc DEF MapInv
  <2>2. 0 \in entered' /\ entered' \subseteq DOMAIN idMapping' \intersect DOMAIN doc'
    BY <1>1, <1>2, <1>3, <1>4 DEF MapInv
  <2>3. \A j \in entered' \ {0} : idMapping'[j] \in processed'
    BY <1>1, <1>3, <1>4 DEF MapInv
  <2>4. \A i \in processed' : \E j \in entered' : idMapping'[j] = i
    BY <1>1, <1>3, <1>4 DEF MapInv
  <2>5. \A j \in DOMAIN idMapping' : idMapping'[j] \in DOMAIN nodes'
    BY <1>1, <1>3, <1>5
  <2>6. \A j \in DOMAIN idMapping' \intersect DOMAIN doc' : nodes'[idMapping'[j]].kind = KindOf(j)'
    <3>1. \A j \in DOMAIN idMapping \intersect DOMAIN doc : nodes[idMapping[j]].kind = KindOf(j) /\ idMapping[j] \in DOMAIN nodes
      BY <1>4 DEF MapInv
    <3> QED
      BY <1>1, <1>3, <3>1, SameDoc
  <2> QED
    BY <2>1, <2>2, <2>3, <2>4, <2>5, <2>6 DEF MapInv
<1>10. ParentInv'
  <2>1. ASSUME NEW j \in entered', KindOf(j) \in Tree
        PROVE  /\ doc[j].node.parent \in entered'
               /\ j \notin blamed' => nodes'[idMapping[j]].parent = idMapping[doc[j].node.parent]
    <3>1. CASE j = k
      BY <1>1, <1>3, <2>1, <3>1, ReadyFacts
    <3>2. CASE j # k
      <4>1. j \in entered /\ j \in DOMAIN idMapping
        BY <1>1, <1>4, <3>2 DEF MapInv
      <4>2. /\ doc[j].node.parent \in entered
            /\ j \notin blamed => nodes[idMapping[j]].parent = idMapping[doc[j].node.parent]
        BY <1>4, <2>1, <4>1 DEF Inv, ParentInv
      <4>3. nodes'[idMapping[j]] = nodes[idMapping[j]]
        BY <1>3, <1>5, <3>2, <4>1
      <4> QED
        BY <1>1, <4>2, <4>3
    <3> QED
      BY <3>1, <3>2
  <2> QED
    BY <1>1, <2>1, SameDoc DEF ParentInv
<1>11. WorkInv'
  <2>1. CASE pc = "tree"
    BY <1>1, <1>2, <2>1, SameDoc DEF Inv, WorkInv, DocKeys
  <2>2. CASE pc = "flows"
    <3>1. ASSUME NEW f \in DocKeys({"flow"})
          PROVE  doc[f].node.ends[1] # k /\ doc[f].node.ends[2] # k
      <4>1. doc[f].node.ends[1] \in DocKeys(Tree) /\ doc[f].node.ends[2] \in DocKeys(Tree)
        BY <1>4 DEF MapInv, Valid
      <4> QED
        BY <1>2, <2>2, <4>1 DEF DocKeys, Tree
    <3>2. /\ 0 \in processed'
          /\ \A j \in DocKeys(Tree) : j \in entered' \/ Lines(DocNodes, j) \intersect blamed' # {}
          /\ \A j \in DocKeys({"item"}) : j \in entered' \union blamed' /\ (j \in existing => j \in entered')
      BY <1>1, <2>2 DEF Inv, WorkInv
    <3>3. ASSUME NEW f \in DocKeys({"flow"})
          PROVE  \/ f \in todo' \/ f \in entered' \union blamed'
                 \/ errors' /\ \E e \in {1, 2} : doc[f].node.ends[e] \notin entered'
      BY <1>1, <2>2, <3>1 DEF Inv, WorkInv
    <3>4. todo' \intersect entered' \subseteq {0} /\ todo' \subseteq DocKeys({"flow"})
      BY <1>1, <2>2 DEF Inv, WorkInv
    <3> QED
      BY <1>1, <2>2, <3>2, <3>3, <3>4, SameDoc DEF WorkInv
  <2> QED
    BY <1>2, <2>1, <2>2
<1>12. SyncInv'
  <2>1. SUFFICES ASSUME ~errors, o = "ok"
                 PROVE  SyncInv'
    BY <1>1 DEF SyncInv
  <2>2. blamed = {} /\ blamed' = {} /\ SyncInv
    BY <1>1, <1>4, <2>1 DEF Inv, SyncInv
  <2>3. ASSUME NEW j \in entered' \ {0}
        PROVE  /\ idMapping[j] \in DOMAIN nodes'
               /\ KindOf(j) = "flow" =>
                    /\ {doc[j].node.ends[1], doc[j].node.ends[2]} \subseteq entered'
                    /\ nodes'[idMapping[j]].ends = <<idMapping[doc[j].node.ends[1]], idMapping[doc[j].node.ends[2]]>>
               /\ nodes'[idMapping[j]].val = doc[j].node.val
               /\ nodes'[idMapping[j]].ans = doc[j].node.ans \/ <<idMapping[j], doc[j].node.ans>> \in queue'
    <3>1. CASE j = k
      <4>1. KindOf(k) = "flow" =>
              /\ {doc[k].node.ends[1], doc[k].node.ends[2]} \subseteq entered'
              /\ nodes'[k].ends = MappedEnds(k)
        <5>1. ASSUME KindOf(k) = "flow"
              PROVE  doc[k].node.ends[1] \in DocKeys(Tree) /\ doc[k].node.ends[2] \in DocKeys(Tree)
                     /\ Sent(k).ends = MappedEnds(k) /\ pc = "flows"
          BY <1>1, <1>2, <5>1, ReadyFacts
        <5>2. pc = "flows" => DocKeys(Tree) \subseteq entered
          BY <2>2 DEF Inv, WorkInv
        <5> QED
          BY <1>1, <1>3, <2>1, <5>1, <5>2
      <4> QED
        BY <1>1, <1>2, <1>3, <2>1, <2>3, <3>1, <4>1 DEF MappedEnds
    <3>2. CASE j # k
      <4>1. j \in entered \ {0} /\ j \in DOMAIN idMapping
        BY <1>1, <1>4, <2>3, <3>2 DEF MapInv
      <4>2. nodes'[idMapping[j]] = nodes[idMapping[j]] /\ idMapping[j] \in DOMAIN nodes'
        BY <1>3, <1>5, <3>2, <4>1
      <4>3. /\ KindOf(j) = "flow" =>
                 /\ {doc[j].node.ends[1], doc[j].node.ends[2]} \subseteq entered
                 /\ nodes[idMapping[j]].ends = <<idMapping[doc[j].node.ends[1]], idMapping[doc[j].node.ends[2]]>>
            /\ nodes[idMapping[j]].val = doc[j].node.val
            /\ nodes[idMapping[j]].ans = doc[j].node.ans \/ <<idMapping[j], doc[j].node.ans>> \in queue
        BY <1>4, <2>1, <2>2, <4>1 DEF SyncInv
      <4>4. entered \subseteq entered' /\ queue \subseteq queue'
        BY <1>1
      <4> QED
        BY <4>2, <4>3, <4>4
    <3> QED
      BY <3>1, <3>2
  <2>4. 0 \in processed' => nodes'[0].val = doc[0].node.val
    <3>1. CASE k = 0
      BY <1>2, <1>3, <2>1, <3>1
    <3>2. CASE k # 0
      <4>1. 0 \in DOMAIN nodes
        BY DEF Inv, NodeInv, WellFormed
      <4> QED
        BY <1>1, <1>3, <1>4, <2>1, <2>2, <3>2, <4>1 DEF SyncInv
    <3> QED
      BY <3>1, <3>2
  <2>5. \A w \in queue' : \E j \in entered' : w = <<idMapping[j], doc[j].node.ans>>
    BY <1>1, <1>3, <1>4, <2>1, <2>2 DEF SyncInv
  <2>6. ASSUME NEW i \in DOMAIN nodes' \ Known'
        PROVE  /\ nodes'[i].kind # "item"
               /\ nodes'[i].kind \in Tree => nodes'[i].parent \notin Known'
               /\ \A e \in DOMAIN nodes'[i].ends : nodes'[i].ends[e] \notin Known'
    <3>1. Known' = Known
      BY <1>1 DEF Known
    <3>2. i \in DOMAIN nodes \ Known /\ i # k
      BY <1>1, <1>3, <3>1 DEF Known
    <3>3. nodes'[i] = nodes[i]
      BY <1>3, <3>2
    <3> QED
      BY <1>4, <2>1, <2>2, <3>1, <3>2, <3>3 DEF SyncInv
  <2>7. pc' \notin {"orphans", "export"}
    BY <1>1, <1>2
  <2> QED
    BY <1>1, <2>2, <2>3, <2>4, <2>5, <2>6, <2>7, SameDoc DEF SyncInv
<1>13. ConduitInv'
  BY <1>1, <1>2, SameDoc DEF Inv, ConduitInv
<1>14. PushType'
  <2>1. k \in Ids /\ k \in Keys /\ doc[k].node.ans \in Vals
    <3>1. k \in Ids
      BY <1>3, NodeFacts
    <3>2. doc[k].node.ans \in Vals
      BY <1>2, DocFacts DEF NodeOf
    <3> QED
      BY <3>1, <3>2 DEF Keys
  <2>2. faults' \in 0..MaxFaults
    BY <1>1, FaultCount DEF Inv, PushType
  <2>3. PushType
    BY DEF Inv
  <2>4. errors' \in BOOLEAN
    BY <1>1, <2>3 DEF PushType
  <2>5. queue' \subseteq Ids \X Vals /\ blamed' \subseteq Keys /\ processed' \subseteq Ids /\ entered' \subseteq Keys
        /\ todo' \subseteq Keys
    BY <1>1, <2>1, <2>3 DEF PushType
  <2> QED
    BY <1>1, <2>2, <2>3, <2>4, <2>5 DEF PushType
<1> QED
  BY <1>6, <1>7, <1>8, <1>9, <1>10, <1>11, <1>12, <1>13, <1>14 DEF Inv

\* What a create does to the platform: a new node, or nothing.
LEMMA CreateEffect ==
  ASSUME Inv, NEW k \in todo, NEW o \in {"ok", "lost", "refused"}, Create(k, o)
  PROVE  /\ minted + 1 \in Ids /\ minted + 1 \notin DOMAIN nodes /\ minted + 1 # 0
         /\ minted' \in {minted, minted + 1} /\ DOMAIN nodes' \subseteq DOMAIN nodes \union {minted + 1}
         /\ DOMAIN nodes \subseteq DOMAIN nodes' /\ DOMAIN nodes' \subseteq 0..minted' /\ minted' \in Ids
         /\ \A i \in DOMAIN nodes : nodes'[i] = nodes[i]
         /\ WellFormed(nodes') /\ Boundaries(nodes) \subseteq Boundaries(nodes')
         /\ o = "ok" =>
              /\ DOMAIN nodes' = DOMAIN nodes \union {minted + 1} /\ minted' = minted + 1
              /\ nodes'[minted + 1].kind = KindOf(k) /\ nodes'[minted + 1].parent = Sent(k).parent
              /\ nodes'[minted + 1].ends = Sent(k).ends /\ nodes'[minted + 1].val = doc[k].node.val
<1> DEFINE id == minted + 1
<1>1. minted \in Nat /\ minted < MaxIds /\ MaxIds \in Nat /\ DOMAIN nodes \subseteq 0..minted
  BY BoundsAssumption, NodeFacts DEF Create, Inv, NodeInv
<1>2. id \in Ids /\ id \notin DOMAIN nodes /\ id # 0 /\ 0..minted \subseteq 0..id /\ id \in 0..id /\ minted \in Ids
  BY <1>1 DEF Ids
<1>3. WellFormed(nodes)
  BY DEF Inv, NodeInv
<1>4. CASE UNCHANGED <<nodes, minted>> /\ o # "ok"
  BY <1>1, <1>2, <1>3, <1>4
<1>5. CASE nodes' = With(nodes, id, [Sent(k) EXCEPT !.ans = 0]) /\ minted' = id
  <2> DEFINE n == [Sent(k) EXCEPT !.ans = 0]
  <2>1. /\ k \in DOMAIN doc /\ (KindOf(k) = "root" <=> k = 0)
        /\ Sent(k) \in Node /\ Sent(k).kind = KindOf(k) /\ Sent(k).val = doc[k].node.val
        /\ KindOf(k) \in Tree => Sent(k).parent \in Boundaries(nodes)
        /\ KindOf(k) \notin Tree => Sent(k).parent = 0
    BY ReadyFacts DEF Create
  <2>2. /\ n \in Node /\ n.kind = Sent(k).kind /\ n.parent = Sent(k).parent /\ n.ends = Sent(k).ends
        /\ n.val = Sent(k).val
    BY <2>1, SentAns DEF Vals
  <2> HIDE DEF n
  <2>3. /\ DOMAIN nodes' = DOMAIN nodes \union {id} /\ nodes'[id] = n
        /\ \A i \in DOMAIN nodes \ {id} : nodes'[i] = nodes[i]
    <3>1. nodes' = With(nodes, id, n)
      BY <1>5 DEF n
    <3> HIDE DEF id
    <3>2. /\ DOMAIN With(nodes, id, n) = DOMAIN nodes \union {id} /\ With(nodes, id, n)[id] = n
          /\ \A i \in DOMAIN nodes \ {id} : With(nodes, id, n)[i] = nodes[i]
      BY DEF With
    <3> QED
      BY <3>1, <3>2
  <2>4. k # 0
    BY DEF Create
  <2>5. WellFormed(nodes') /\ Boundaries(nodes) \subseteq Boundaries(nodes')
    <3>1. /\ n.kind = "root" <=> id = 0
          /\ (id \in DOMAIN nodes => nodes[id].kind = n.kind)
          /\ IF n.kind \in Tree THEN n.parent \in Boundaries(nodes) ELSE n.parent = 0
      BY <1>2, <2>1, <2>2, <2>4
    <3>2. IF n.kind = "flow"
           THEN n.ends \in Domain("component", nodes) \X Domain("component", nodes)
           ELSE n.ends = Empty
      BY <2>1, <2>2, ReadyFacts DEF Create
    <3> HIDE DEF id
    <3> QED
      BY <1>3, <2>2, <2>3, <3>1, <3>2, WroteWell
  <2>6. DOMAIN nodes' \subseteq 0..minted'
    BY <1>1, <1>2, <1>5, <2>3
  <2> QED
    BY <1>2, <1>5, <2>1, <2>2, <2>3, <2>5, <2>6
<1> QED
  BY <1>4, <1>5 DEF Create

LEMMA CreateInv ==
  ASSUME Inv, NEW k \in todo, NEW o \in {"ok", "lost", "refused"}, Create(k, o)
  PROVE  Inv'
<1> DEFINE id == minted + 1
<1>1. /\ Ready(k) /\ k \notin existing \union {0} /\ Outcome(o)
      /\ errors' = (errors \/ o # "ok")
      /\ blamed' = (IF o = "ok" THEN blamed ELSE blamed \union {k})
      /\ todo' = todo \ {k} /\ doc' = doc
      /\ UNCHANGED <<doc, conduits, pc, existing, base, edits, spared>>
      /\ queue' \in {queue, queue \union {<<id, doc[k].node.ans>>}}
  BY DEF Create
<1>2. \/ o # "ok" /\ UNCHANGED <<idMapping, processed, entered>>
      \/ /\ o = "ok" /\ queue' = queue \union {<<id, doc[k].node.ans>>} /\ idMapping' = With(idMapping, k, id)
         /\ processed' = processed \union {id} /\ entered' = entered \union {k}
  BY DEF Create
<1>3. /\ k \in DOMAIN doc /\ pc \in {"tree", "flows"} /\ k \notin entered
      /\ (KindOf(k) = "flow" <=> pc = "flows") /\ (KindOf(k) = "root" <=> k = 0)
      /\ KindOf(k) \in Tree =>
           doc[k].node.parent \in entered /\ Sent(k).parent = idMapping[doc[k].node.parent]
  BY <1>1, ReadyFacts
<1>4. /\ id \in Ids /\ id \notin DOMAIN nodes /\ id # 0 /\ minted' \in {minted, id}
      /\ DOMAIN nodes' \subseteq DOMAIN nodes \union {id}
      /\ DOMAIN nodes \subseteq DOMAIN nodes' /\ DOMAIN nodes' \subseteq 0..minted' /\ minted' \in Ids
      /\ \A i \in DOMAIN nodes : nodes'[i] = nodes[i]
      /\ WellFormed(nodes') /\ Boundaries(nodes) \subseteq Boundaries(nodes')
      /\ o = "ok" =>
           /\ DOMAIN nodes' = DOMAIN nodes \union {id} /\ minted' = id
           /\ nodes'[id].kind = KindOf(k) /\ nodes'[id].parent = Sent(k).parent
           /\ nodes'[id].ends = Sent(k).ends /\ nodes'[id].val = doc[k].node.val
  BY CreateEffect
<1>5. MapInv /\ pc # "idle" /\ pc \in Writing
  BY <1>3 DEF Inv, Writing
<1>6. minted \in Nat /\ id \in Nat /\ 0..minted \subseteq 0..minted' /\ id \notin 0..minted
  BY <1>4, NodeFacts
<1>7. DocInv'
  <2>1. \A j \in DOMAIN doc \intersect Ids : j <= minted /\ j <= minted' /\ j # id
    <3>1. \A j \in Ids : j \in Nat
      BY DEF Ids
    <3>2. \A j \in DOMAIN doc \intersect Ids : j <= minted
      BY DEF Inv, DocInv
    <3>3. \A x \in Nat : x <= minted => x <= minted' /\ x # id
      <4>1. minted \in Nat /\ (minted' = minted \/ minted' = minted + 1)
        BY <1>4, <1>6
      <4> QED
        BY <4>1
    <3> QED
      BY <3>1, <3>2, <3>3
  <2>2. \A j \in DOMAIN doc \intersect Ids : j \in DOMAIN nodes' => j \in DOMAIN nodes /\ nodes'[j] = nodes[j]
    BY <1>4, <2>1
  <2> QED
    BY <1>1, <2>1, <2>2 DEF Inv, DocInv
<1>8. NodeInv'
  BY <1>1, <1>4 DEF Inv, NodeInv
<1>9. IdleInv'
  BY <1>1, <1>5 DEF IdleInv
<1> HIDE DEF id
<1>10. \A j \in DOMAIN idMapping : idMapping[j] \in DOMAIN nodes /\ idMapping[j] # id
  BY <1>4, <1>5 DEF MapInv
<1>11. k \notin DOMAIN idMapping
  BY <1>1, <1>3, <1>5 DEF MapInv
<1>120. /\ DOMAIN With(idMapping, k, id) = DOMAIN idMapping \union {k} /\ With(idMapping, k, id)[k] = id
        /\ \A j \in DOMAIN idMapping \ {k} : With(idMapping, k, id)[j] = idMapping[j]
  BY DEF With
<1>12. \A j \in DOMAIN idMapping : j \in DOMAIN idMapping' /\ idMapping'[j] = idMapping[j] /\ j # k
  BY <1>2, <1>11, <1>120
<1>13. o = "ok" => DOMAIN idMapping' = DOMAIN idMapping \union {k} /\ idMapping'[k] = id
  BY <1>2, <1>120
<1>14. MapInv'
  <2>1. CASE o # "ok"
    <3>1. Valid' /\ existing' \subseteq 0..minted'
      BY <1>1, <1>5, <1>6, SameDoc DEF MapInv
    <3>2. \A j \in DOMAIN idMapping' : idMapping'[j] \in 0..minted' /\ idMapping'[j] \in DOMAIN nodes'
      BY <1>2, <1>4, <1>10, <2>1
    <3>3. \A j \in DOMAIN idMapping' \intersect DOMAIN doc' : nodes'[idMapping'[j]].kind = KindOf(j)'
      BY <1>1, <1>2, <1>4, <1>5, <1>10, <2>1, SameDoc DEF MapInv
    <3> QED
      BY <1>1, <1>2, <1>5, <2>1, <3>1, <3>2, <3>3 DEF MapInv
  <2>2. CASE o = "ok"
    <3>1. Valid' /\ existing' \subseteq 0..minted' /\ 0 \notin existing'
      BY <1>1, <1>5, <1>6, SameDoc DEF MapInv
    <3>2. /\ existing' \union {0} \subseteq DOMAIN idMapping'
          /\ \A i \in existing' \union {0} : idMapping'[i] = i
          /\ DOMAIN idMapping' \subseteq existing' \union {0} \union entered'
      BY <1>1, <1>2, <1>5, <1>12, <1>13, <2>2 DEF MapInv
    <3>3. 0 \in entered' /\ entered' \subseteq DOMAIN idMapping' \intersect DOMAIN doc'
      BY <1>1, <1>2, <1>3, <1>5, <1>13, <2>2 DEF MapInv
    <3>4. \A j \in DOMAIN idMapping' : idMapping'[j] \in DOMAIN nodes' /\ idMapping'[j] \in 0..minted'
      BY <1>4, <1>10, <1>12, <1>13, <2>2
    <3>5. \A j, i \in DOMAIN idMapping' : idMapping'[j] = idMapping'[i] => j = i
      BY <1>5, <1>10, <1>12, <1>13, <2>2 DEF MapInv
    <3>6. \A j \in entered' \ {0} : idMapping'[j] \in processed'
      BY <1>2, <1>5, <1>12, <1>13, <2>2 DEF MapInv
    <3>7. ASSUME NEW i \in processed'
          PROVE  \E j \in entered' : idMapping'[j] = i
      <4>1. CASE i = id
        BY <1>2, <1>13, <2>2, <4>1
      <4>2. CASE i \in processed
        <5>1. PICK j \in entered : idMapping[j] = i
          BY <1>5, <4>2 DEF MapInv
        <5>2. j \in DOMAIN idMapping
          BY <1>5 DEF MapInv
        <5> QED
          BY <1>2, <1>12, <2>2, <5>1, <5>2
      <4> QED
        BY <1>2, <2>2, <4>1, <4>2
    <3>8. \A j \in DOMAIN idMapping' \intersect DOMAIN doc' : nodes'[idMapping'[j]].kind = KindOf(j)'
      <4>1. \A j \in DOMAIN idMapping \intersect DOMAIN doc : nodes[idMapping[j]].kind = KindOf(j)
        BY <1>5, <1>10 DEF MapInv
      <4> QED
        BY <1>1, <1>4, <1>10, <1>12, <1>13, <2>2, <4>1, SameDoc
    <3> QED
      BY <3>1, <3>2, <3>3, <3>4, <3>5, <3>6, <3>7, <3>8 DEF MapInv
  <2> QED
    BY <2>1, <2>2
<1>15. \A j \in entered : j \in DOMAIN idMapping
  BY <1>5 DEF MapInv
<1>16. ParentInv'
  <2>1. ASSUME NEW j \in entered', KindOf(j) \in Tree
        PROVE  /\ doc[j].node.parent \in entered'
               /\ j \notin blamed' => nodes'[idMapping'[j]].parent = idMapping'[doc[j].node.parent]
    <3>1. CASE j = k
      <4>1. o = "ok"
        BY <1>2, <1>3, <3>1
      <4>2. doc[k].node.parent \in entered /\ Sent(k).parent = idMapping[doc[k].node.parent]
        BY <1>3, <2>1, <3>1
      <4>3. idMapping'[doc[k].node.parent] = idMapping[doc[k].node.parent]
        BY <1>12, <1>15, <4>2
      <4> QED
        BY <1>2, <1>4, <1>13, <3>1, <4>1, <4>2, <4>3
    <3>2. CASE j # k
      <4>1. j \in entered /\ j \in DOMAIN idMapping
        BY <1>2, <1>15, <3>2
      <4>2. /\ doc[j].node.parent \in entered
            /\ j \notin blamed => nodes[idMapping[j]].parent = idMapping[doc[j].node.parent]
        BY <1>5, <2>1, <4>1 DEF Inv, ParentInv
      <4>3. nodes'[idMapping'[j]] = nodes[idMapping[j]] /\ idMapping'[doc[j].node.parent] = idMapping[doc[j].node.parent]
        BY <1>4, <1>10, <1>12, <1>15, <4>1, <4>2
      <4>4. entered \subseteq entered' /\ blamed \subseteq blamed'
        BY <1>1, <1>2
      <4> QED
        BY <4>2, <4>3, <4>4
    <3> QED
      BY <3>1, <3>2
  <2> QED
    BY <1>1, <2>1, SameDoc DEF ParentInv
<1>17. entered \subseteq entered' /\ entered' \subseteq entered \union {k} /\ blamed \subseteq blamed' /\ processed \subseteq processed'
       /\ k \in entered' \union blamed' /\ (errors => errors')
  BY <1>1, <1>2
<1>18. WorkInv'
  <2>1. CASE pc = "tree"
    <3>1. todo' \intersect entered' \subseteq {0} /\ entered' \intersect DocKeys({"flow"}) = {}
      BY <1>1, <1>3, <1>17, <2>1 DEF Inv, WorkInv, DocKeys
    <3>2. todo' \subseteq DocKeys(Tree \union {"item", "root"})
      BY <1>1, <2>1 DEF Inv, WorkInv
    <3>3. \A j \in DocKeys(Tree \union {"item", "root"}) \ todo' :
            /\ j \in entered' \union blamed' /\ (j \in existing => j \in entered')
            /\ j = 0 => 0 \in processed'
      BY <1>1, <1>17, <2>1 DEF Inv, WorkInv
    <3> QED
      BY <1>1, <2>1, <3>1, <3>2, <3>3, SameDoc DEF WorkInv
  <2>2. CASE pc = "flows"
    <3>1. ASSUME NEW f \in DocKeys({"flow"})
          PROVE  doc[f].node.ends[1] # k /\ doc[f].node.ends[2] # k
      <4>1. doc[f].node.ends[1] \in DocKeys(Tree) /\ doc[f].node.ends[2] \in DocKeys(Tree)
        BY <1>5 DEF MapInv, Valid
      <4> QED
        BY <1>3, <2>2, <4>1 DEF DocKeys, Tree
    <3>2. /\ 0 \in processed'
          /\ \A j \in DocKeys(Tree) : j \in entered' \/ Lines(DocNodes, j) \intersect blamed' # {}
          /\ \A j \in DocKeys({"item"}) : j \in entered' \union blamed' /\ (j \in existing => j \in entered')
      BY <1>17, <2>2 DEF Inv, WorkInv
    <3>3. ASSUME NEW f \in DocKeys({"flow"})
          PROVE  \/ f \in todo' \/ f \in entered' \union blamed'
                 \/ errors' /\ \E e \in {1, 2} : doc[f].node.ends[e] \notin entered'
      BY <1>1, <1>17, <2>2, <3>1 DEF Inv, WorkInv
    <3>4. todo' \intersect entered' \subseteq {0} /\ todo' \subseteq DocKeys({"flow"})
      BY <1>1, <1>17, <2>2 DEF Inv, WorkInv
    <3> QED
      BY <1>1, <2>2, <3>2, <3>3, <3>4, SameDoc DEF WorkInv
  <2> QED
    BY <1>3, <2>1, <2>2
<1>19. SyncInv'
  <2>1. SUFFICES ASSUME ~errors, o = "ok"
                 PROVE  SyncInv'
    BY <1>1 DEF SyncInv
  <2>2. blamed = {} /\ blamed' = {} /\ SyncInv
    BY <1>1, <1>5, <2>1 DEF Inv, SyncInv
  <2>3. ASSUME NEW j \in entered' \ {0}
        PROVE  /\ idMapping'[j] \in DOMAIN nodes'
               /\ KindOf(j) = "flow" =>
                    /\ {doc[j].node.ends[1], doc[j].node.ends[2]} \subseteq entered'
                    /\ nodes'[idMapping'[j]].ends = <<idMapping'[doc[j].node.ends[1]], idMapping'[doc[j].node.ends[2]]>>
               /\ nodes'[idMapping'[j]].val = doc[j].node.val
               /\ nodes'[idMapping'[j]].ans = doc[j].node.ans \/ <<idMapping'[j], doc[j].node.ans>> \in queue'
    <3>1. CASE j = k
      <4>1. KindOf(k) = "flow" =>
              /\ {doc[k].node.ends[1], doc[k].node.ends[2]} \subseteq entered'
              /\ nodes'[id].ends = <<idMapping'[doc[k].node.ends[1]], idMapping'[doc[k].node.ends[2]]>>
        <5>1. ASSUME KindOf(k) = "flow"
              PROVE  doc[k].node.ends[1] \in DocKeys(Tree) /\ doc[k].node.ends[2] \in DocKeys(Tree)
                     /\ Sent(k).ends = MappedEnds(k) /\ pc = "flows"
          BY <1>1, <1>3, <5>1, ReadyFacts
        <5>2. pc = "flows" => DocKeys(Tree) \subseteq entered
          BY <2>2 DEF Inv, WorkInv
        <5>3. KindOf(k) = "flow" => doc[k].node.ends[1] \in entered /\ doc[k].node.ends[2] \in entered
          BY <5>1, <5>2
        <5>4. KindOf(k) = "flow" =>
                MappedEnds(k) = <<idMapping'[doc[k].node.ends[1]], idMapping'[doc[k].node.ends[2]]>>
          BY <1>12, <1>15, <5>3 DEF MappedEnds
        <5> QED
          BY <1>4, <1>17, <2>1, <5>1, <5>3, <5>4
      <4>2. <<id, doc[k].node.ans>> \in queue'
        BY <1>2, <2>1
      <4> QED
        BY <1>4, <1>13, <2>1, <3>1, <4>1, <4>2
    <3>2. CASE j # k
      <4>1. j \in entered \ {0} /\ j \in DOMAIN idMapping
        BY <1>15, <1>17, <2>3, <3>2
      <4>2. nodes'[idMapping'[j]] = nodes[idMapping[j]] /\ idMapping'[j] \in DOMAIN nodes' /\ idMapping'[j] = idMapping[j]
        BY <1>4, <1>10, <1>12, <4>1
      <4>3. /\ KindOf(j) = "flow" =>
                 /\ {doc[j].node.ends[1], doc[j].node.ends[2]} \subseteq entered
                 /\ nodes[idMapping[j]].ends = <<idMapping[doc[j].node.ends[1]], idMapping[doc[j].node.ends[2]]>>
            /\ nodes[idMapping[j]].val = doc[j].node.val
            /\ nodes[idMapping[j]].ans = doc[j].node.ans \/ <<idMapping[j], doc[j].node.ans>> \in queue
        BY <1>5, <2>1, <2>2, <4>1 DEF SyncInv
      <4>4. KindOf(j) = "flow" =>
              /\ idMapping'[doc[j].node.ends[1]] = idMapping[doc[j].node.ends[1]]
              /\ idMapping'[doc[j].node.ends[2]] = idMapping[doc[j].node.ends[2]]
        BY <1>12, <1>15, <4>3
      <4>5. entered \subseteq entered' /\ queue \subseteq queue'
        BY <1>1, <1>17
      <4> QED
        BY <4>2, <4>3, <4>4, <4>5
    <3> QED
      BY <3>1, <3>2
  <2>4. 0 \in processed' => nodes'[0].val = doc[0].node.val
    <3>1. 0 \in DOMAIN nodes /\ nodes'[0] = nodes[0]
      BY <1>4 DEF Inv, NodeInv, WellFormed
    <3>2. 0 \in processed' => 0 \in processed
      BY <1>2, <1>4, <2>1
    <3> QED
      BY <1>5, <2>1, <2>2, <3>1, <3>2 DEF SyncInv
  <2>5. ASSUME NEW w \in queue'
        PROVE  \E j \in entered' : w = <<idMapping'[j], doc[j].node.ans>>
    <3>1. CASE w \in queue
      <4>1. PICK j \in entered : w = <<idMapping[j], doc[j].node.ans>>
        BY <1>5, <2>1, <2>2, <3>1 DEF SyncInv
      <4> QED
        BY <1>12, <1>15, <1>17, <4>1
    <3>2. CASE w = <<id, doc[k].node.ans>>
      BY <1>2, <1>13, <2>1, <3>2
    <3> QED
      BY <1>2, <2>1, <3>1, <3>2
  <2>6. ASSUME NEW i \in DOMAIN nodes' \ Known'
        PROVE  /\ nodes'[i].kind # "item"
               /\ nodes'[i].kind \in Tree => nodes'[i].parent \notin Known'
               /\ \A e \in DOMAIN nodes'[i].ends : nodes'[i].ends[e] \notin Known'
    <3>1. Known' = Known \union {id}
      BY <1>1, <1>2, <2>1 DEF Known
    <3>2. i \in DOMAIN nodes \ Known /\ nodes'[i] = nodes[i]
      BY <1>4, <2>1, <3>1
    <3>3. /\ nodes[i].kind # "item"
          /\ nodes[i].kind \in Tree => nodes[i].parent \notin Known
          /\ \A e \in DOMAIN nodes[i].ends : nodes[i].ends[e] \notin Known
      BY <1>5, <2>1, <2>2, <3>2 DEF SyncInv
    <3>4. nodes[i].kind \in Tree => nodes[i].parent # id
      <4>1. nodes[i].kind \in Tree => nodes[i].parent \in DOMAIN nodes \union {Gone}
        BY <3>2 DEF Inv, NodeInv, WellFormed, Boundaries, Domain
      <4> QED
        BY <1>4, <4>1, RefsAssumption
    <3>5. \A e \in DOMAIN nodes[i].ends : nodes[i].ends[e] # id
      <4> DEFINE T == Domain("component", nodes)
      <4>1. nodes[i].ends \in T \X T \/ nodes[i].ends = Empty
        BY <3>2 DEF Inv, NodeInv, WellFormed
      <4>2. \A e \in DOMAIN nodes[i].ends : nodes[i].ends[e] \in T
        BY <4>1, EmptyMap
      <4> QED
        BY <1>4, <4>2 DEF Domain
    <3> QED
      BY <3>1, <3>2, <3>3, <3>4, <3>5
  <2>7. pc' \notin {"orphans", "export"}
    BY <1>1, <1>3
  <2> QED
    BY <1>1, <2>2, <2>3, <2>4, <2>5, <2>6, <2>7, SameDoc DEF SyncInv
<1>20. ConduitInv'
  <2>1. CASE pc = "tree"
    BY <1>1, <2>1 DEF Inv, ConduitInv
  <2>2. CASE pc = "flows"
    <3>1. SUFFICES ASSUME ~errors, o = "ok"
                   PROVE  ConduitInv'
      BY <1>1, <2>2 DEF ConduitInv
    <3>2. \A a \in DocKeys({"root", "boundary"}) : a \in entered
      <4>1. blamed = {} /\ 0 \in entered
        BY <1>5, <3>1 DEF Inv, SyncInv, MapInv
      <4>2. \A a \in DocKeys({"root", "boundary"}) : a = 0 \/ a \in DocKeys(Tree)
        BY DocFacts DEF DocOK, DocKeys, KindOf, Tree
      <4> QED
        BY <2>2, <4>1, <4>2 DEF Inv, WorkInv
    <3>3. \A a \in DocKeys({"root", "boundary"}) : idMapping'[a] = idMapping[a]
      BY <1>12, <1>15, <3>2
    <3> QED
      BY <1>1, <2>2, <3>1, <3>3, SameDoc DEF Inv, ConduitInv
  <2> QED
    BY <1>3, <2>1, <2>2
<1>21. PushType'
  <2>1. k \in Keys /\ doc[k].node.ans \in Vals
    BY <1>3, DocFacts DEF NodeOf
  <2>2. faults' \in 0..MaxFaults
    BY <1>1, FaultCount DEF Inv, PushType
  <2>3. PushType
    BY DEF Inv
  <2>4. errors' \in BOOLEAN
    BY <1>1, <2>3 DEF PushType
  <2>5. queue' \subseteq Ids \X Vals /\ blamed' \subseteq Keys /\ processed' \subseteq Ids /\ entered' \subseteq Keys
        /\ todo' \subseteq Keys
    BY <1>1, <1>2, <1>4, <2>1, <2>3 DEF PushType
  <2>6. DOMAIN idMapping' \subseteq Keys /\ \A j \in DOMAIN idMapping' : idMapping'[j] \in Ids
    <3>1. CASE o = "ok"
      BY <1>4, <1>12, <1>13, <2>1, <2>3, <3>1 DEF PushType
    <3>2. CASE o # "ok"
      BY <1>2, <2>3, <3>2 DEF PushType
    <3> QED
      BY <3>1, <3>2
  <2> QED
    BY <1>1, <2>2, <2>3, <2>4, <2>5, <2>6 DEF PushType
<1> QED
  BY <1>7, <1>8, <1>9, <1>14, <1>16, <1>18, <1>19, <1>20, <1>21 DEF Inv

LEMMA SkipFlowInv == ASSUME Inv, NEW k \in todo, SkipFlow(k) PROVE Inv'
<1>1. /\ pc = "flows" /\ ~Ready(k) /\ todo' = todo \ {k} /\ errors' = TRUE /\ doc' = doc
      /\ UNCHANGED <<doc, nodes, conduits, minted, pc, existing, base, idMapping, processed,
                     entered, queue, faults, edits, blamed, spared>>
  BY DEF SkipFlow
<1>2. DocInv' /\ NodeInv' /\ IdleInv'
  BY <1>1 DEF Inv, DocInv, NodeInv, IdleInv
<1>3. MapInv' /\ ParentInv'
  BY <1>1, SameDoc DEF Inv, MapInv, ParentInv
<1>4. WorkInv'
  <2>1. \E e \in {1, 2} : doc[k].node.ends[e] \notin entered
    BY <1>1 DEF Ready, Inv, MapInv
  <2> QED
    BY <1>1, <2>1, SameDoc DEF Inv, WorkInv
<1>5. SyncInv' /\ ConduitInv'
  BY <1>1 DEF SyncInv, ConduitInv
<1>6. PushType'
  BY <1>1 DEF Inv, PushType
<1> QED
  BY <1>2, <1>3, <1>4, <1>5, <1>6 DEF Inv

-----------------------------------------------------------------------------
(* Conduits, answers and orphans                                           *)

LEMMA BagMerge ==
  ASSUME NEW C, C = SetToBag(BagToSet(C)), NEW kept, kept \subseteq BagToSet(C), NEW added,
         added \intersect kept = {}
  PROVE  /\ [c \in kept |-> C[c]] (+) SetToBag(added) = SetToBag(kept \union added)
         /\ [c \in kept |-> C[c]] = SetToBag(kept)
<1>1. \A c \in kept : C[c] = 1
  BY DEF SetToBag
<1>2. [c \in kept |-> C[c]] = SetToBag(kept)
  BY <1>1 DEF SetToBag
<1>3. SetToBag(kept) (+) SetToBag(added) = SetToBag(kept \union added)
  BY DEF (+), SetToBag
<1> QED
  BY <1>2, <1>3

LEMMA WriteConduitsInv ==
  ASSUME Inv, NEW k \in todo, NEW o \in {"ok", "lost", "refused"}, WriteConduits(k, o)
  PROVE  Inv'
<1> DEFINE host == idMapping[k]
           old == {b \in Ids : <<host, b>> \in base}
           kept == {c \in BagToSet(conduits) : c[1] # host \/ c[2] \notin old \ Peers(k)}
           added == {<<host, b>> : b \in Peers(k) \ old}
<1>1. /\ pc = "conduits" /\ Outcome(o) /\ errors' = (errors \/ o # "ok") /\ todo' = todo \ {k} /\ doc' = doc
      /\ UNCHANGED <<doc, nodes, minted, pc, existing, base, idMapping, processed, entered, queue, edits, blamed, spared>>
  BY DEF WriteConduits
<1>2. conduits' = IF o = "refused" THEN conduits ELSE [c \in kept |-> conduits[c]] (+) SetToBag(added)
  BY DEF WriteConduits
<1>3. /\ k \in DocKeys({"root", "boundary"}) /\ k \in DOMAIN idMapping
      /\ \A j \in todo, b \in Ids : <<idMapping[j], b>> \in base <=> <<idMapping[j], b>> \in BagToSet(conduits)
  BY <1>1 DEF Inv, ConduitInv
<1>4. MapInv /\ pc # "idle" /\ pc \in Writing
  BY <1>1 DEF Inv, Writing
<1>5. \A p \in DocKeys({"root", "boundary"}) \intersect DOMAIN idMapping : idMapping[p] \in Boundaries(nodes)
  BY <1>4 DEF MapInv, DocKeys, Boundaries, Domain
<1>6. host \in Boundaries(nodes) /\ Peers(k) \subseteq Boundaries(nodes) /\ host \notin Peers(k)
  <2>1. doc[k].peers \subseteq DocKeys({"root", "boundary"})
    BY <1>3, DocFacts DEF Places, DocKeys
  <2> QED
    BY <1>3, <1>5, <2>1 DEF Peers
<1>7. Boundaries(nodes) \subseteq Ids
  BY NodeFacts DEF Boundaries, Domain
<1>8. added \intersect BagToSet(conduits) = {} /\ kept \subseteq BagToSet(conduits)
  BY <1>3, <1>6, <1>7
<1>9. \A c \in added : c \in Boundaries(nodes) \X Boundaries(nodes) /\ c[1] # c[2]
  <2>1. ASSUME NEW b \in Peers(k)
        PROVE  <<host, b>> \in Boundaries(nodes) \X Boundaries(nodes) /\ <<host, b>>[1] # <<host, b>>[2]
    <3>1. host \in Boundaries(nodes) /\ b \in Boundaries(nodes) /\ host # b
      BY <1>6
    <3> HIDE DEF host
    <3> QED
      BY <3>1
  <2> QED
    BY <2>1
\* Each boundary has the conduits it should have, and the others theirs.
<1>10. ASSUME o # "refused"
       PROVE  /\ conduits' = SetToBag(kept \union added) /\ BagToSet(conduits') = kept \union added
              /\ \A b \in Ids : <<host, b>> \in BagToSet(conduits') <=> b \in Peers(k)
              /\ \A a, b : a # host => (<<a, b>> \in BagToSet(conduits') <=> <<a, b>> \in BagToSet(conduits))
  <2>1. conduits = SetToBag(BagToSet(conduits))
    BY DEF Inv, NodeInv
  <2>2. added \intersect kept = {}
    BY <1>8
  <2>3. conduits' = SetToBag(kept \union added)
    <3>1. conduits' = [c \in kept |-> conduits[c]] (+) SetToBag(added)
      BY <1>2, <1>10
    <3> HIDE DEF kept, added
    <3> QED
      BY <1>8, <2>1, <2>2, <3>1, BagMerge
  <2>4. BagToSet(conduits') = kept \union added
    BY <2>3 DEF BagToSet, SetToBag
  <2>5. ASSUME NEW b \in Ids
        PROVE  <<host, b>> \in BagToSet(conduits') <=> b \in Peers(k)
    <3>1. <<host, b>> \in kept <=> <<host, b>> \in BagToSet(conduits) /\ b \notin old \ Peers(k)
      OBVIOUS
    <3>2. <<host, b>> \in BagToSet(conduits) <=> b \in old
      BY <1>3
    <3>3. <<host, b>> \in added <=> b \in Peers(k) \ old
      OBVIOUS
    <3> QED
      BY <2>4, <3>1, <3>2, <3>3
  <2>6. ASSUME NEW a, NEW b, a # host
        PROVE  <<a, b>> \in BagToSet(conduits') <=> <<a, b>> \in BagToSet(conduits)
    <3>1. <<a, b>> \in kept <=> <<a, b>> \in BagToSet(conduits)
      BY <2>6
    <3>2. <<a, b>> \notin added
      BY <2>6
    <3> QED
      BY <2>4, <3>1, <3>2
  <2> QED
    BY <2>3, <2>4, <2>5, <2>6
<1> HIDE DEF kept, added, old
<1>11. DocInv' /\ IdleInv'
  BY <1>1 DEF Inv, DocInv, IdleInv
<1>12. NodeInv'
  <2>1. CASE o = "refused"
    BY <1>1, <1>2, <2>1 DEF Inv, NodeInv
  <2>2. CASE o # "refused"
    <3>1. conduits' = SetToBag(BagToSet(conduits'))
      BY <1>10, <2>2
    <3>2. \A c \in BagToSet(conduits') : c \in Boundaries(nodes) \X Boundaries(nodes) /\ c[1] # c[2]
      BY <1>8, <1>9, <1>10, <2>2 DEF Inv, NodeInv
    <3> QED
      BY <1>1, <3>1, <3>2 DEF Inv, NodeInv
  <2> QED
    BY <2>1, <2>2
<1>13. MapInv' /\ ParentInv'
  BY <1>1, SameDoc DEF Inv, MapInv, ParentInv
<1>14. WorkInv'
  BY <1>1, SameDoc DEF Inv, WorkInv
<1>15. SyncInv'
  <2>1. Known' = Known /\ (~errors' => ~errors)
    BY <1>1 DEF Known
  <2>2. SyncInv
    BY DEF Inv
  <2> HIDE DEF host
  <2> QED
    BY <1>1, <2>1, <2>2, SameDoc DEF SyncInv
<1>16. ConduitInv'
  <2>1. \A j \in DOMAIN idMapping : idMapping[j] = host => j = k
    BY <1>3, <1>4 DEF MapInv
  <2>2. todo' \subseteq DocKeys({"root", "boundary"}) \intersect DOMAIN idMapping
    BY <1>1 DEF Inv, ConduitInv
  <2>3. ASSUME NEW j \in todo', NEW b \in Ids
        PROVE  <<idMapping[j], b>> \in base <=> <<idMapping[j], b>> \in BagToSet(conduits')
    <3>1. j \in todo /\ idMapping[j] # host
      BY <1>1, <2>1, <2>2
    <3> QED
      BY <1>2, <1>3, <1>10, <3>1
  <2>4. ASSUME ~errors', NEW a \in DocKeys({"root", "boundary"}), NEW b \in DocKeys({"root", "boundary"}), a \notin todo'
        PROVE  <<idMapping[a], idMapping[b]>> \in BagToSet(conduits') <=> b \in doc[a].peers
    <3>1. ~errors /\ o = "ok"
      BY <1>1, <2>4
    <3>2. blamed = {} /\ 0 \in entered /\ entered \subseteq DOMAIN idMapping
      BY <1>4, <3>1 DEF Inv, SyncInv, MapInv
    <3>3. \A p \in DocKeys({"root", "boundary"}) : p = 0 \/ p \in DocKeys(Tree)
      BY DocFacts DEF DocOK, DocKeys, KindOf, Tree
    <3>4. \A p \in DocKeys({"root", "boundary"}) : p \in entered /\ p \in DOMAIN idMapping
      BY <1>1, <3>2, <3>3 DEF Inv, WorkInv
    <3>5. CASE a = k
      <4>1. idMapping[b] \in Ids
        BY <1>5, <1>7, <3>4
      <4>2. idMapping[b] \notin existing \ processed
        <5>1. 0 \notin existing /\ idMapping[0] = 0 /\ \A p \in entered \ {0} : idMapping[p] \in processed
          BY <1>4 DEF MapInv
        <5> QED
          BY <3>4, <5>1
      <4>3. \A p \in DOMAIN idMapping : idMapping[p] = idMapping[b] => p = b
        BY <1>4, <3>4 DEF MapInv
      <4>4. b \in doc[k].peers => b # k
        BY <1>3, DocFacts DEF DocKeys
      <4>5. idMapping[b] \in Peers(k) <=> b \in doc[k].peers
        BY <2>1, <3>4, <4>2, <4>3, <4>4 DEF Peers
      <4> QED
        BY <1>10, <3>1, <3>5, <4>1, <4>5
    <3>6. CASE a # k
      <4>1. a \notin todo /\ idMapping[a] # host
        BY <1>1, <2>1, <2>4, <3>4, <3>6
      <4>2. <<idMapping[a], idMapping[b]>> \in BagToSet(conduits) <=> b \in doc[a].peers
        BY <1>1, <3>1, <4>1 DEF Inv, ConduitInv
      <4> QED
        BY <1>10, <3>1, <4>1, <4>2
    <3> QED
      BY <3>5, <3>6
  <2> QED
    BY <1>1, <2>2, <2>3, <2>4, SameDoc DEF ConduitInv
<1>17. PushType'
  <2>1. faults' \in 0..MaxFaults
    BY <1>1, FaultCount DEF Inv, PushType
  <2>2. errors' \in BOOLEAN
    BY <1>1 DEF Inv, PushType
  <2> QED
    BY <1>1, <2>1, <2>2 DEF Inv, PushType
<1> QED
  BY <1>11, <1>12, <1>13, <1>14, <1>15, <1>16, <1>17 DEF Inv

LEMMA WriteAnswersInv ==
  ASSUME Inv, NEW w \in queue, NEW o \in {"ok", "refused"}, WriteAnswers(w, o)
  PROVE  Inv'
<1>1. /\ pc = "answers" /\ Outcome(o) /\ errors' = (errors \/ o # "ok") /\ queue' = queue \ {w} /\ doc' = doc
      /\ nodes' = (IF o = "refused" THEN nodes ELSE [nodes EXCEPT ![w[1]].ans = w[2]])
      /\ UNCHANGED <<doc, conduits, minted, pc, existing, base, idMapping, processed, entered, todo, edits, blamed, spared>>
  BY DEF WriteAnswers
<1>2. w[1] \in Ids /\ w[2] \in Vals /\ w = <<w[1], w[2]>>
  BY DEF Inv, PushType
<1>3. WellFormed(nodes) /\ \A i \in DOMAIN nodes : nodes[i] \in Node
  BY DEF Inv, NodeInv, WellFormed
<1>4. /\ DOMAIN nodes' = DOMAIN nodes
      /\ \A i \in DOMAIN nodes : /\ nodes'[i] \in Node /\ nodes'[i].kind = nodes[i].kind
                                 /\ nodes'[i].parent = nodes[i].parent /\ nodes'[i].ends = nodes[i].ends
                                 /\ nodes'[i].val = nodes[i].val
                                 /\ i # w[1] => nodes'[i] = nodes[i]
                                 /\ i = w[1] /\ o = "ok" => nodes'[i].ans = w[2]
  <2>1. CASE o = "refused"
    BY <1>1, <1>3, <2>1
  <2>2. CASE o # "refused"
    <3>1. nodes' = [nodes EXCEPT ![w[1]].ans = w[2]]
      BY <1>1, <2>2
    <3>2. DOMAIN nodes' = DOMAIN nodes
      BY <3>1
    <3>3. ASSUME NEW i \in DOMAIN nodes
          PROVE  nodes'[i] = IF i = w[1] THEN [nodes[i] EXCEPT !.ans = w[2]] ELSE nodes[i]
      BY <3>1
    <3>4. ASSUME NEW i \in DOMAIN nodes
          PROVE  LET n == [nodes[i] EXCEPT !.ans = w[2]]
                 IN  /\ n \in Node /\ n.kind = nodes[i].kind /\ n.parent = nodes[i].parent
                     /\ n.ends = nodes[i].ends /\ n.val = nodes[i].val /\ n.ans = w[2]
      BY <1>2, <1>3, SentAns
    <3> QED
      BY <1>3, <3>2, <3>3, <3>4
  <2> QED
    BY <2>1, <2>2
<1>5. Boundaries(nodes') = Boundaries(nodes)
  BY <1>4 DEF Boundaries, Domain
<1>6. WellFormed(nodes')
  <2> DEFINE T == Domain("component", nodes)
             U == Domain("component", nodes')
  <2>1. T = U
    BY <1>4 DEF Domain
  <2>2. \A i \in DOMAIN nodes :
          /\ nodes[i].kind = "root" <=> i = 0
          /\ IF nodes[i].kind \in Tree THEN nodes[i].parent \in Boundaries(nodes) \union {Gone} ELSE nodes[i].parent = 0
          /\ IF nodes[i].kind = "flow" THEN nodes[i].ends \in T \X T ELSE nodes[i].ends = Empty
    BY <1>3 DEF WellFormed
  <2>3. 0 \in DOMAIN nodes'
    BY <1>3, <1>4 DEF WellFormed
  <2> HIDE DEF T, U
  <2>4. \A i \in DOMAIN nodes' :
          /\ nodes'[i] \in Node /\ (nodes'[i].kind = "root" <=> i = 0)
          /\ IF nodes'[i].kind \in Tree THEN nodes'[i].parent \in Boundaries(nodes') \union {Gone} ELSE nodes'[i].parent = 0
          /\ IF nodes'[i].kind = "flow" THEN nodes'[i].ends \in U \X U ELSE nodes'[i].ends = Empty
    BY <1>4, <1>5, <2>1, <2>2
  <2> QED
    BY <2>3, <2>4 DEF WellFormed, U
<1>7. MapInv /\ pc # "idle" /\ pc \in Writing
  BY <1>1 DEF Inv, Writing
<1>8. DocInv' /\ IdleInv'
  BY <1>1, <1>4 DEF Inv, DocInv, IdleInv
<1>9. NodeInv'
  BY <1>1, <1>4, <1>5, <1>6 DEF Inv, NodeInv
<1>10. MapInv'
  BY <1>1, <1>4, <1>7, SameDoc DEF MapInv
<1>11. ParentInv'
  <2>1. \A k \in entered : idMapping[k] \in DOMAIN nodes
    BY <1>7 DEF MapInv
  <2> QED
    BY <1>1, <1>4, <2>1, SameDoc DEF Inv, ParentInv
<1>12. WorkInv'
  BY <1>1, SameDoc DEF Inv, WorkInv
<1>13. SyncInv'
  <2>1. SUFFICES ASSUME ~errors, o = "ok"
                 PROVE  SyncInv'
    BY <1>1 DEF SyncInv
  <2>2. SyncInv /\ blamed = {}
    BY <1>7, <2>1 DEF Inv, SyncInv
  <2>3. PICK q \in entered : w = <<idMapping[q], doc[q].node.ans>>
    BY <1>7, <2>1, <2>2 DEF SyncInv
  <2>4. w[1] = idMapping[q] /\ w[2] = doc[q].node.ans
    BY <2>3
  <2>5. ASSUME NEW j \in entered \ {0}
        PROVE  nodes'[idMapping[j]].ans = doc[j].node.ans \/ <<idMapping[j], doc[j].node.ans>> \in queue'
    <3>1. idMapping[j] \in DOMAIN nodes /\ q \in DOMAIN idMapping /\ j \in DOMAIN idMapping
      BY <1>7 DEF MapInv
    <3>2. CASE idMapping[j] = w[1]
      <4>1. j = q
        BY <1>7, <2>4, <3>1, <3>2 DEF MapInv
      <4> QED
        BY <1>4, <2>1, <2>4, <3>1, <3>2, <4>1
    <3>3. CASE idMapping[j] # w[1]
      <4>1. nodes'[idMapping[j]] = nodes[idMapping[j]]
        BY <1>4, <3>1, <3>3
      <4>2. <<idMapping[j], doc[j].node.ans>> # w
        BY <2>3, <2>4, <3>3
      <4>3. nodes[idMapping[j]].ans = doc[j].node.ans \/ <<idMapping[j], doc[j].node.ans>> \in queue
        BY <1>7, <2>1, <2>2 DEF SyncInv
      <4> QED
        BY <1>1, <4>1, <4>2, <4>3
    <3> QED
      BY <3>2, <3>3
  <2>6. ASSUME NEW j \in entered \ {0}
        PROVE  /\ idMapping[j] \in DOMAIN nodes'
               /\ KindOf(j) = "flow" =>
                    /\ {doc[j].node.ends[1], doc[j].node.ends[2]} \subseteq entered
                    /\ nodes'[idMapping[j]].ends = <<idMapping[doc[j].node.ends[1]], idMapping[doc[j].node.ends[2]]>>
               /\ nodes'[idMapping[j]].val = doc[j].node.val
    BY <1>4, <1>7, <2>1, <2>2 DEF SyncInv
  <2>7. 0 \in processed => nodes'[0].val = doc[0].node.val
    <3>1. 0 \in DOMAIN nodes
      BY <1>3 DEF WellFormed
    <3> QED
      BY <1>4, <1>7, <2>1, <2>2, <3>1 DEF SyncInv
  <2>8. Known' = Known /\ pc' \notin {"orphans", "export"}
    BY <1>1 DEF Known
  <2>9. \A v \in queue' : \E k \in entered : v = <<idMapping[k], doc[k].node.ans>>
    BY <1>1, <1>7, <2>1, <2>2 DEF SyncInv
  <2>10. \A i \in DOMAIN nodes' \ Known :
           /\ nodes'[i].kind # "item"
           /\ nodes'[i].kind \in Tree => nodes'[i].parent \notin Known
           /\ \A e \in DOMAIN nodes'[i].ends : nodes'[i].ends[e] \notin Known
    BY <1>4, <1>7, <2>1, <2>2 DEF SyncInv
  <2> QED
    BY <1>1, <2>2, <2>5, <2>6, <2>7, <2>8, <2>9, <2>10, SameDoc DEF SyncInv
<1>14. ConduitInv'
  BY <1>1, SameDoc DEF Inv, ConduitInv
<1>15. PushType'
  <2>1. faults' \in 0..MaxFaults
    BY <1>1, FaultCount DEF Inv, PushType
  <2>2. errors' \in BOOLEAN /\ queue' \subseteq Ids \X Vals
    BY <1>1 DEF Inv, PushType
  <2> QED
    BY <1>1, <2>1, <2>2 DEF Inv, PushType
<1> QED
  BY <1>8, <1>9, <1>10, <1>11, <1>12, <1>13, <1>14, <1>15 DEF Inv

\* What a deletion leaves.
LEMMA DeletedFacts ==
  ASSUME Inv, NEW i \in DOMAIN nodes \union Ids, i # 0
  PROVE  /\ i \notin DOMAIN Deleted(i) /\ DOMAIN Deleted(i) \subseteq DOMAIN nodes
         /\ \A n \in DOMAIN nodes \ {i} : nodes[n].kind # "flow" => n \in DOMAIN Deleted(i)
         /\ \A n \in DOMAIN nodes \ {i} :
              nodes[n].kind = "flow" /\ nodes[n].ends[1] # i /\ nodes[n].ends[2] # i => n \in DOMAIN Deleted(i)
         /\ \A n \in DOMAIN Deleted(i) :
              /\ Deleted(i)[n].kind = nodes[n].kind /\ Deleted(i)[n].ends = nodes[n].ends
              /\ Deleted(i)[n].val = nodes[n].val /\ Deleted(i)[n].ans = nodes[n].ans
              /\ Deleted(i)[n].parent = IF nodes[n].parent = i THEN Gone ELSE nodes[n].parent
         /\ WellFormed(Deleted(i))
         /\ Boundaries(nodes) \ {i} \subseteq Boundaries(Deleted(i))
<1> DEFINE left == {n \in DOMAIN nodes \ {i} :
                      nodes[i].kind = "component" => ~ \E e \in DOMAIN nodes[n].ends : nodes[n].ends[e] = i}
           M == Deleted(i)
           T == Domain("component", nodes)
           U == Domain("component", M)
<1>1. WellFormed(nodes)
  BY DEF Inv, NodeInv
<1>2. DOMAIN M = left /\ \A n \in left : M[n] = [nodes[n] EXCEPT !.parent = IF nodes[n].parent = i THEN Gone ELSE nodes[n].parent]
  BY DEF Deleted
<1>3. \A n \in DOMAIN nodes :
        /\ nodes[n] \in Node /\ (nodes[n].kind = "root" <=> n = 0)
        /\ IF nodes[n].kind \in Tree THEN nodes[n].parent \in Boundaries(nodes) \union {Gone} ELSE nodes[n].parent = 0
        /\ IF nodes[n].kind = "flow" THEN nodes[n].ends \in T \X T ELSE nodes[n].ends = Empty
  BY <1>1 DEF WellFormed
<1>4. left \subseteq DOMAIN nodes /\ i \notin left
  OBVIOUS
<1>5. \A n \in DOMAIN nodes \ {i} : nodes[n].kind # "flow" => n \in left
  BY <1>3, EmptyMap
<1>6. \A n \in DOMAIN nodes \ {i} :
        nodes[n].kind = "flow" /\ nodes[n].ends[1] # i /\ nodes[n].ends[2] # i => n \in left
  <2>1. ASSUME NEW n \in DOMAIN nodes \ {i}, nodes[n].kind = "flow", nodes[n].ends[1] # i, nodes[n].ends[2] # i,
               NEW e \in DOMAIN nodes[n].ends
        PROVE  nodes[n].ends[e] # i
    <3>1. nodes[n].ends \in T \X T
      BY <1>3, <2>1
    <3>2. e = 1 \/ e = 2
      BY <3>1
    <3> QED
      BY <2>1, <3>2
  <2> QED
    BY <2>1
<1>7. \A n \in left : nodes[n].kind = "flow" => nodes[n].ends[1] # i /\ nodes[n].ends[2] # i
  <2>1. ASSUME NEW n \in left, nodes[n].kind = "flow"
        PROVE  nodes[n].ends[1] # i /\ nodes[n].ends[2] # i
    <3>1. nodes[n].ends \in T \X T
      BY <1>3, <1>4, <2>1
    <3>2. /\ 1 \in DOMAIN nodes[n].ends /\ 2 \in DOMAIN nodes[n].ends
          /\ nodes[n].ends[1] \in T /\ nodes[n].ends[2] \in T
      <4> HIDE DEF T
      <4> QED
        BY <3>1
    <3>3. i \in T => nodes[i].kind = "component"
      BY DEF Domain
    <3> QED
      BY <3>2, <3>3
  <2> QED
    BY <2>1
<1> HIDE DEF left, M, T, U
<1>8. ASSUME NEW n \in left
      PROVE  /\ M[n] \in Node /\ M[n].kind = nodes[n].kind /\ M[n].ends = nodes[n].ends
             /\ M[n].val = nodes[n].val /\ M[n].ans = nodes[n].ans
             /\ M[n].parent = IF nodes[n].parent = i THEN Gone ELSE nodes[n].parent
  <2> DEFINE p == IF nodes[n].parent = i THEN Gone ELSE nodes[n].parent
  <2>1. M[n] = [nodes[n] EXCEPT !.parent = p] /\ nodes[n] \in Node
    BY <1>2, <1>3, <1>4
  <2>2. p \in Ids \union {Gone}
    BY <2>1 DEF Node, NodeOf
  <2> HIDE DEF p
  <2>3. /\ M[n] \in Node /\ M[n].kind = nodes[n].kind /\ M[n].ends = nodes[n].ends
        /\ M[n].val = nodes[n].val /\ M[n].ans = nodes[n].ans /\ M[n].parent = p
    BY <2>1, <2>2 DEF Node, NodeOf
  <2> QED
    BY <2>3 DEF p
<1>9. Boundaries(nodes) \ {i} \subseteq Boundaries(M)
  BY <1>2, <1>5, <1>8 DEF Boundaries, Domain
<1>10. T \ {i} \subseteq U
  <2>1. \A n \in T \ {i} : n \in left
    BY <1>5 DEF T, Domain
  <2> QED
    BY <1>2, <1>8, <2>1 DEF T, U, Domain
<1>11. ASSUME NEW n \in DOMAIN M
       PROVE  /\ M[n] \in Node /\ (M[n].kind = "root" <=> n = 0)
              /\ IF M[n].kind \in Tree THEN M[n].parent \in Boundaries(M) \union {Gone} ELSE M[n].parent = 0
              /\ IF M[n].kind = "flow" THEN M[n].ends \in U \X U ELSE M[n].ends = Empty
  <2>1. n \in left /\ n \in DOMAIN nodes
    BY <1>2, <1>4
  <2>2. M[n] \in Node /\ (M[n].kind = "root" <=> n = 0)
    BY <1>3, <1>8, <2>1
  <2>3. IF M[n].kind \in Tree THEN M[n].parent \in Boundaries(M) \union {Gone} ELSE M[n].parent = 0
    BY <1>3, <1>8, <1>9, <2>1
  <2>4. nodes[n].kind = "flow" => nodes[n].ends \in U \X U
    <3>1. ASSUME nodes[n].kind = "flow"
          PROVE  nodes[n].ends \in U \X U
      <4>1. nodes[n].ends \in T \X T /\ nodes[n].ends[1] # i /\ nodes[n].ends[2] # i
        BY <1>3, <1>7, <2>1, <3>1
      <4> QED
        BY <1>10, <4>1
    <3> QED
      BY <3>1
  <2> QED
    BY <1>3, <1>8, <2>1, <2>2, <2>3, <2>4
<1>12. 0 \in DOMAIN M
  BY <1>1, <1>2, <1>3, <1>5 DEF WellFormed
<1>13. WellFormed(M)
  BY <1>11, <1>12 DEF WellFormed, U
<1> QED
  BY <1>2, <1>4, <1>5, <1>6, <1>8, <1>9, <1>13 DEF M


LEMMA DeleteOrphanInv ==
  ASSUME Inv, NEW i \in todo, NEW o \in {"ok", "refused"}, DeleteOrphan(i, o)
  PROVE  Inv'
<1>1. /\ pc = "orphans" /\ Outcome(o) /\ todo' = todo \ {i} /\ doc' = doc
      /\ UNCHANGED <<doc, minted, pc, existing, base, idMapping, processed, entered, queue, errors, edits, blamed>>
  BY DEF DeleteOrphan
<1>2. i \in existing \ processed /\ i \in Ids /\ i # 0
  BY <1>1 DEF Inv, WorkInv, MapInv, PushType
<1>3. MapInv /\ pc # "idle" /\ pc \notin Writing
  BY <1>1 DEF Inv, Writing
<1>4. PushType'
  <2>1. faults' \in 0..MaxFaults
    BY <1>1, FaultCount DEF Inv, PushType
  <2>2. spared' \subseteq Ids
    BY <1>2 DEF Inv, PushType, DeleteOrphan
  <2> QED
    BY <1>1, <2>1, <2>2 DEF Inv, PushType
<1>5. CASE o = "refused"
  <2>1. spared' = spared \union {i} /\ nodes' = nodes /\ conduits' = conduits
    BY <1>5 DEF DeleteOrphan
  <2>2. DocInv' /\ NodeInv' /\ IdleInv'
    BY <1>1, <2>1 DEF Inv, DocInv, NodeInv, IdleInv
  <2>3. MapInv' /\ ParentInv'
    BY <1>1, <2>1, SameDoc DEF Inv, MapInv, ParentInv
  <2>4. WorkInv'
    BY <1>1, <2>1, SameDoc DEF Inv, WorkInv
  <2>5. SyncInv' /\ ConduitInv'
    BY <1>1, <2>1, SameDoc DEF Inv, SyncInv, ConduitInv, Known
  <2> QED
    BY <1>4, <2>2, <2>3, <2>4, <2>5 DEF Inv
<1>6. CASE o = "ok"
  <2> DEFINE kept == {d \in BagToSet(conduits) : i \notin {d[1], d[2]}}
  <2>1. nodes' = Deleted(i) /\ conduits' = [c \in kept |-> conduits[c]] /\ spared' = spared
    BY <1>6 DEF DeleteOrphan
  <2>2. /\ i \notin DOMAIN nodes' /\ DOMAIN nodes' \subseteq DOMAIN nodes
        /\ \A n \in DOMAIN nodes \ {i} : nodes[n].kind # "flow" => n \in DOMAIN nodes'
        /\ \A n \in DOMAIN nodes \ {i} :
             nodes[n].kind = "flow" /\ nodes[n].ends[1] # i /\ nodes[n].ends[2] # i => n \in DOMAIN nodes'
        /\ WellFormed(nodes') /\ Boundaries(nodes) \ {i} \subseteq Boundaries(nodes')
    BY <1>2, <2>1, DeletedFacts
  <2>3. \A n \in DOMAIN nodes' :
          /\ nodes'[n].kind = nodes[n].kind /\ nodes'[n].ends = nodes[n].ends
          /\ nodes'[n].val = nodes[n].val /\ nodes'[n].ans = nodes[n].ans
          /\ nodes'[n].parent = IF nodes[n].parent = i THEN Gone ELSE nodes[n].parent
    BY <1>2, <2>1, DeletedFacts
  <2>4. BagToSet(conduits') = kept /\ conduits' = SetToBag(kept)
    <3>1. conduits = SetToBag(BagToSet(conduits)) /\ kept \subseteq BagToSet(conduits)
      BY DEF Inv, NodeInv
    <3>2. [c \in kept |-> conduits[c]] = SetToBag(kept)
      <4>1. \A c \in kept : conduits[c] = 1
        BY <3>1 DEF SetToBag
      <4> HIDE DEF kept
      <4> QED
        BY <4>1 DEF SetToBag
    <3> QED
      BY <2>1, <3>2, BagFacts
  <2>5. ASSUME NEW k \in entered
        PROVE  k \in DOMAIN idMapping /\ k \in DOMAIN doc /\ idMapping[k] # i
    BY <1>2, <1>3 DEF MapInv
  <2>6. DocInv'
    BY <1>1, <2>2, <2>3 DEF Inv, DocInv
  <2>7. NodeInv'
    <3>1. \A c \in kept : c \in Boundaries(nodes') \X Boundaries(nodes') /\ c[1] # c[2]
      <4>1. ASSUME NEW c \in kept
            PROVE  c \in Boundaries(nodes') \X Boundaries(nodes') /\ c[1] # c[2]
        <5>1. c \in Boundaries(nodes) \X Boundaries(nodes) /\ c[1] # c[2] /\ c[1] # i /\ c[2] # i
          BY DEF Inv, NodeInv
        <5> QED
          BY <2>2, <5>1
      <4> QED
        BY <4>1
    <3> QED
      BY <1>1, <2>2, <2>4, <3>1 DEF Inv, NodeInv
  <2>8. IdleInv'
    BY <1>1 DEF IdleInv
  <2>9. MapInv'
    <3>1. \A k \in DOMAIN idMapping \intersect DOMAIN doc :
            idMapping[k] \in DOMAIN nodes' => nodes'[idMapping[k]].kind = KindOf(k)
      BY <1>3, <2>2, <2>3 DEF MapInv
    <3>2. \A k \in entered : KindOf(k) # "flow" => idMapping[k] \in DOMAIN nodes'
      <4>1. ASSUME NEW k \in entered, KindOf(k) # "flow"
            PROVE  idMapping[k] \in DOMAIN nodes'
        <5>1. idMapping[k] \in DOMAIN nodes /\ nodes[idMapping[k]].kind # "flow"
          BY <1>3, <2>5, <4>1 DEF MapInv
        <5> QED
          BY <2>2, <2>5, <5>1
      <4> QED
        BY <4>1
    <3> QED
      BY <1>1, <1>3, <3>1, <3>2, SameDoc DEF MapInv
  <2>10. ParentInv'
    <3>1. ASSUME NEW k \in entered, KindOf(k) \in Tree
          PROVE  /\ doc[k].node.parent \in entered
                 /\ k \notin blamed => nodes'[idMapping[k]].parent = idMapping[doc[k].node.parent]
      <4>1. /\ doc[k].node.parent \in entered
            /\ k \notin blamed => nodes[idMapping[k]].parent = idMapping[doc[k].node.parent]
        BY <1>3, <3>1 DEF Inv, ParentInv
      <4>2. idMapping[doc[k].node.parent] # i
        BY <2>5, <4>1
      <4>3. idMapping[k] \in DOMAIN nodes'
        BY <1>1, <1>3, <2>9, <3>1, SameDoc DEF MapInv, Tree
      <4> QED
        BY <2>3, <4>1, <4>2, <4>3
    <3> QED
      BY <1>1, <3>1, SameDoc DEF ParentInv
  <2>11. WorkInv'
    BY <1>1, <2>1, <2>2, SameDoc DEF Inv, WorkInv
  <2>12. SyncInv'
    <3>1. SUFFICES ASSUME ~errors
                   PROVE  SyncInv'
      BY <1>1 DEF SyncInv
    <3>2. SyncInv
      BY DEF Inv
    <3>3. ASSUME NEW k \in entered \ {0}
          PROVE  /\ idMapping[k] \in DOMAIN nodes'
                 /\ KindOf(k) = "flow" =>
                      /\ {doc[k].node.ends[1], doc[k].node.ends[2]} \subseteq entered
                      /\ nodes'[idMapping[k]].ends = <<idMapping[doc[k].node.ends[1]], idMapping[doc[k].node.ends[2]]>>
                 /\ nodes'[idMapping[k]].val = doc[k].node.val
                 /\ nodes'[idMapping[k]].ans = doc[k].node.ans \/ <<idMapping[k], doc[k].node.ans>> \in queue
      <4> DEFINE n == idMapping[k]
                 a == doc[k].node.ends[1]
                 b == doc[k].node.ends[2]
      <4>1. /\ n \in DOMAIN nodes /\ (KindOf(k) = "flow" => {a, b} \subseteq entered /\ nodes[n].ends = <<idMapping[a], idMapping[b]>>)
            /\ nodes[n].val = doc[k].node.val
            /\ nodes[n].ans = doc[k].node.ans \/ <<idMapping[k], doc[k].node.ans>> \in queue
        BY <1>3, <3>1, <3>2 DEF SyncInv
      <4>2. n # i /\ nodes[n].kind = KindOf(k)
        BY <1>3, <2>5, <4>1 DEF MapInv
      <4>3. n \in DOMAIN nodes'
        <5>1. CASE KindOf(k) = "flow"
          <6>1. nodes[n].ends[1] = idMapping[a] /\ nodes[n].ends[2] = idMapping[b]
            BY <4>1, <5>1
          <6>2. idMapping[a] # i /\ idMapping[b] # i
            BY <2>5, <4>1, <5>1
          <6> QED
            BY <2>2, <4>1, <4>2, <5>1, <6>1, <6>2
        <5>2. CASE KindOf(k) # "flow"
          BY <2>2, <4>1, <4>2, <5>2
        <5> QED
          BY <5>1, <5>2
      <4> QED
        BY <2>3, <4>1, <4>3
    <3>4. 0 \in processed => nodes'[0].val = doc[0].node.val
      <4>1. 0 \in DOMAIN nodes'
        BY <2>2 DEF WellFormed
      <4> QED
        BY <1>3, <2>3, <3>1, <3>2, <4>1 DEF SyncInv
    <3>5. Known' = Known /\ Known \subseteq Ids /\ Gone \notin Known
      <4>1. Known \subseteq Ids
        BY NodeFacts DEF Inv, PushType, Known
      <4> QED
        BY <1>1, <4>1, RefsAssumption DEF Known
    <3>6. ASSUME NEW n \in DOMAIN nodes' \ Known
          PROVE  /\ nodes'[n].kind # "item"
                 /\ nodes'[n].kind \in Tree => nodes'[n].parent \notin Known
                 /\ \A e \in DOMAIN nodes'[n].ends : nodes'[n].ends[e] \notin Known
      <4>1. /\ nodes[n].kind # "item"
            /\ nodes[n].kind \in Tree => nodes[n].parent \notin Known
            /\ \A e \in DOMAIN nodes[n].ends : nodes[n].ends[e] \notin Known
        BY <1>3, <2>2, <3>1, <3>2 DEF SyncInv
      <4> QED
        BY <2>3, <3>5, <4>1
    <3> QED
      BY <1>1, <1>3, <3>1, <3>2, <3>3, <3>4, <3>5, <3>6, SameDoc DEF SyncInv
  <2>13. ConduitInv'
    <3>1. ASSUME ~errors, NEW a \in DocKeys({"root", "boundary"}), NEW b \in DocKeys({"root", "boundary"})
          PROVE  <<idMapping[a], idMapping[b]>> \in BagToSet(conduits') <=> b \in doc[a].peers
      <4>1. blamed = {} /\ 0 \in entered
        BY <1>3, <3>1 DEF Inv, SyncInv, MapInv
      <4>2. \A k \in DocKeys(Tree) : k \in entered
        BY <1>1, <4>1 DEF Inv, WorkInv
      <4>3. \A k \in DocKeys({"root", "boundary"}) : k = 0 \/ k \in DocKeys(Tree)
        BY DocFacts DEF DocOK, DocKeys, KindOf, Tree
      <4>4. idMapping[a] # i /\ idMapping[b] # i
        BY <2>5, <4>1, <4>2, <4>3
      <4>5. <<idMapping[a], idMapping[b]>> \in BagToSet(conduits) <=> b \in doc[a].peers
        BY <1>1, <3>1 DEF Inv, ConduitInv
      <4>6. <<idMapping[a], idMapping[b]>> \in kept <=> <<idMapping[a], idMapping[b]>> \in BagToSet(conduits)
        BY <4>4
      <4> QED
        BY <2>4, <4>5, <4>6
    <3> QED
      BY <1>1, <3>1, SameDoc DEF ConduitInv
  <2> QED
    BY <1>4, <2>6, <2>7, <2>8, <2>9, <2>10, <2>11, <2>12, <2>13 DEF Inv
<1> QED
  BY <1>5, <1>6

-----------------------------------------------------------------------------
(* The invariant holds                                                     *)

LEMMA PushStepInv == ASSUME Inv, PushStep PROVE Inv'
<1>1. ASSUME NEW k \in todo, NEW o \in {"ok", "lost", "refused"},
             \/ UpdateDefaultBoundary(k, o) \/ UpdateDataItem(k, o) \/ UpdateBoundary(k, o)
             \/ UpdateComponent(k, o) \/ UpdateDataFlow(k, o)
      PROVE  Inv'
  <2>1. Update(k, o)
    BY <1>1 DEF UpdateDefaultBoundary, UpdateDataItem, UpdateBoundary, UpdateComponent, UpdateDataFlow
  <2> QED
    BY <2>1, UpdateInv
<1>2. ASSUME NEW k \in todo, NEW o \in {"ok", "lost", "refused"},
             \/ CreateDataItem(k, o) \/ CreateBoundary(k, o) \/ CreateComponent(k, o)
             \/ CreateDataFlow(k, o)
      PROVE  Inv'
  <2>1. Create(k, o)
    BY <1>2 DEF CreateDataItem, CreateBoundary, CreateComponent, CreateDataFlow
  <2> QED
    BY <2>1, CreateInv
<1>3. ASSUME NEW k \in todo, NEW o \in {"ok", "lost", "refused"}, WriteConduits(k, o)
      PROVE  Inv'
  BY <1>3, WriteConduitsInv
<1>4. ASSUME NEW k \in todo, SkipFlow(k)
      PROVE  Inv'
  BY <1>4, SkipFlowInv
<1>5. ASSUME NEW k \in todo, NEW o \in {"ok", "refused"}, DeleteOrphan(k, o)
      PROVE  Inv'
  BY <1>5, DeleteOrphanInv
<1>6. ASSUME NEW w \in queue, NEW o \in {"ok", "refused"}, WriteAnswers(w, o)
      PROVE  Inv'
  BY <1>6, WriteAnswersInv
<1>7. ASSUME NextPhase \/ Give
      PROVE  Inv'
  BY <1>7, NextPhaseInv, GiveInv
<1>8. ASSUME NEW o \in {"ok", "refused"}, WriteBack(o)
      PROVE  Inv'
  BY <1>8, WriteBackInv
<1> QED
  BY <1>1, <1>2, <1>3, <1>4, <1>5, <1>6, <1>7, <1>8 DEF PushStep

LEMMA StutterInv == ASSUME Inv, UNCHANGED vars PROVE Inv'
<1>1. /\ doc' = doc
      /\ UNCHANGED <<doc, nodes, conduits, minted, pc, existing, base, idMapping, processed, entered,
                     todo, queue, errors, faults, edits, blamed, spared>>
  BY DEF vars, push
<1>2. DocInv' /\ NodeInv' /\ IdleInv'
  BY <1>1 DEF Inv, DocInv, NodeInv, IdleInv
<1>3. MapInv' /\ ParentInv'
  BY <1>1, SameDoc DEF Inv, MapInv, ParentInv
<1>4. WorkInv'
  BY <1>1, SameDoc DEF Inv, WorkInv
<1>5. SyncInv' /\ ConduitInv'
  BY <1>1, SameDoc DEF Inv, SyncInv, ConduitInv, Known
<1>6. PushType'
  BY <1>1 DEF Inv, PushType
<1> QED
  BY <1>2, <1>3, <1>4, <1>5, <1>6 DEF Inv

\* The invariant holds in every state of every push, whatever fails.
THEOREM InvHolds == Spec => []Inv
<1>1. Init => Inv
  BY InitInv
<1>2. Inv /\ [Next]_vars => Inv'
  <2> SUFFICES ASSUME Inv, [Next]_vars
               PROVE  Inv'
    OBVIOUS
  <2>1. CASE Start
    BY <2>1, StartInv
  <2>2. CASE PushStep
    BY <2>2, PushStepInv
  <2>3. CASE Die
    BY <2>3, DieInv
  <2>4. CASE Edits
    BY <2>4, EditsInv
  <2>5. CASE UNCHANGED vars
    BY <2>5, StutterInv
  <2> QED
    BY <2>1, <2>2, <2>3, <2>4, <2>5 DEF Next
<1> QED
  BY <1>1, <1>2, PTL DEF Spec

\* Whatever calls fail and whenever the push dies, documents, platform and
\* the maps of DtUpdate.updateModel keep their types: every key resolves to a
\* server id and every conduit joins two nodes that exist.
THEOREM TypeCorrect == Spec => []TypeOK
BY InvHolds, InvType, PTL

-----------------------------------------------------------------------------
(* A push without errors                                                   *)

\* When a push has met no error and deletes no more, it wrote every element
\* of the documents.
LEMMA AllEntered ==
  ASSUME Inv, pc = "export"
  PROVE  /\ DOMAIN doc \subseteq entered /\ entered \subseteq DOMAIN idMapping /\ ~errors /\ blamed = {} /\ queue = {}
         /\ \A k \in DOMAIN doc : idMapping[k] \in DOMAIN nodes /\ nodes[idMapping[k]].kind = KindOf(k)
<1>1. ~errors
  BY DEF Inv, WorkInv
<1>2. blamed = {} /\ queue = {}
  BY <1>1 DEF Inv, SyncInv
<1>3. 0 \in entered /\ entered \subseteq DOMAIN idMapping /\ idMapping[0] = 0
  BY DEF Inv, MapInv
<1>4. ASSUME NEW k \in DOMAIN doc
      PROVE  k \in entered
  <2>1. KindOf(k) \in Kinds \union {"root"} /\ (KindOf(k) = "root" => k = 0)
    BY DocFacts DEF DocOK, KindOf, NodeOf
  <2>2. CASE k = 0
    BY <1>3, <2>2
  <2>3. CASE KindOf(k) \in Tree
    BY <1>2, <2>3 DEF Inv, WorkInv, DocKeys
  <2>4. CASE KindOf(k) = "item"
    BY <1>2, <2>4 DEF Inv, WorkInv, DocKeys
  <2>5. CASE KindOf(k) = "flow"
    BY <1>1, <1>2, <2>5 DEF Inv, WorkInv, DocKeys
  <2> QED
    BY <2>1, <2>2, <2>3, <2>4, <2>5 DEF Kinds, Tree
<1>5. ASSUME NEW k \in DOMAIN doc
      PROVE  idMapping[k] \in DOMAIN nodes /\ nodes[idMapping[k]].kind = KindOf(k)
  <2>1. idMapping[k] \in DOMAIN nodes
    <3>1. CASE k = 0
      BY <1>3, <3>1 DEF Inv, NodeInv, WellFormed
    <3>2. CASE k # 0
      BY <1>1, <1>4, <3>2 DEF Inv, SyncInv
    <3> QED
      BY <3>1, <3>2
  <2> QED
    BY <1>3, <1>4, <2>1 DEF Inv, MapInv
<1> QED
  BY <1>1, <1>2, <1>3, <1>4, <1>5

\* What it wrote is in the model, and what is in the model it knows of.
LEMMA SyncedData ==
  ASSUME Inv, pc = "export"
  PROVE  LET synced == {idMapping[k] : k \in DOMAIN doc}
         IN  synced \subseteq ModelData(nodes) /\ ModelData(nodes) \subseteq synced \union spared
<1> DEFINE N == NodesOf(doc)
           synced == {idMapping[k] : k \in DOMAIN doc}
<1>1. /\ DOMAIN doc \subseteq entered /\ ~errors /\ blamed = {}
      /\ \A k \in DOMAIN doc : idMapping[k] \in DOMAIN nodes /\ nodes[idMapping[k]].kind = KindOf(k)
  BY AllEntered
<1>2. /\ DocOK(doc) /\ 0 \in DOMAIN doc /\ DOMAIN N = DOMAIN doc /\ \A k \in DOMAIN doc : N[k] = doc[k].node /\ N[k].kind = KindOf(k)
  BY DocFacts, NodesOfFacts DEF DocOK, KindOf
<1>3. /\ \A k \in DOMAIN doc : KindOf(k) \in Tree => doc[k].node.parent \in DOMAIN doc /\ doc[k].node.parent \in Inside(N, 0) \union {0}
  BY <1>2, DocShape DEF KindOf
<1>4. \A k \in DOMAIN doc : KindOf(k) \in Tree => nodes[idMapping[k]].parent = idMapping[doc[k].node.parent]
  BY <1>1 DEF Inv, ParentInv
<1>5. idMapping[0] = 0 /\ Valid
  BY DEF Inv, MapInv
<1>6. WellFormed(nodes) /\ DOMAIN nodes \subseteq Ids
  BY NodeFacts DEF Inv, NodeInv
<1>7. \A k \in Inside(N, 0) : idMapping[k] \in Inside(nodes, 0)
  <2> DEFINE S == {k \in DOMAIN doc : idMapping[k] \in Inside(nodes, 0)}
  <2>1. ASSUME NEW j \in Domain("boundary", N), N[j].parent \in S \union {0}
        PROVE  j \in S
    <3>1. j \in DOMAIN doc /\ KindOf(j) = "boundary"
      BY <1>2 DEF Domain
    <3>2. /\ idMapping[j] \in Domain("boundary", nodes)
          /\ nodes[idMapping[j]].parent = idMapping[N[j].parent]
      BY <1>1, <1>2, <1>4, <3>1 DEF Domain, Tree
    <3>3. idMapping[N[j].parent] \in Inside(nodes, 0) \union {0}
      BY <1>5, <2>1
    <3>4. idMapping[j] \in Inside(nodes, 0)
      BY <3>2, <3>3, InsideClosed
    <3> QED
      BY <3>1, <3>4
  <2>2. Inside(N, 0) \subseteq S
    <3> HIDE DEF S, N
    <3> QED
      BY <2>1, InsideLeast
  <2> QED
    BY <2>2
<1>8. \A k \in DOMAIN doc : KindOf(k) \in Tree => idMapping[k] \in Under(nodes, 0)
  <2>1. ASSUME NEW k \in DOMAIN doc, KindOf(k) \in Tree
        PROVE  idMapping[k] \in Under(nodes, 0)
    <3>1. idMapping[doc[k].node.parent] \in Inside(nodes, 0) \union {0}
      BY <1>3, <1>5, <1>7, <2>1
    <3> QED
      BY <1>1, <1>4, <2>1, <3>1, UnderIntro
  <2> QED
    BY <2>1
<1> HIDE DEF N
<1>9. ASSUME NEW k \in DOMAIN doc
      PROVE  idMapping[k] \in ModelData(nodes)
  <2>1. KindOf(k) \in Kinds \union {"root"} /\ (KindOf(k) = "root" => k = 0)
    BY DocFacts DEF DocOK, KindOf, NodeOf
  <2>2. CASE k = 0
    BY <1>5, <1>6, <2>2, DataFacts
  <2>3. CASE KindOf(k) \in Tree
    BY <1>8, <2>3 DEF ModelData
  <2>4. CASE KindOf(k) = "item"
    BY <1>1, <2>4 DEF ModelData, Domain
  <2>5. CASE KindOf(k) = "flow"
    <3>1. k # 0
      BY <1>1, <1>5, <1>6, <2>5 DEF WellFormed
    <3>2. nodes[idMapping[k]].ends = <<idMapping[doc[k].node.ends[1]], idMapping[doc[k].node.ends[2]]>>
      BY <1>1, <2>5, <3>1 DEF Inv, SyncInv
    <3>3. doc[k].node.ends[1] \in DOMAIN doc /\ KindOf(doc[k].node.ends[1]) \in Tree
      BY <1>5, <2>5 DEF Valid, DocKeys
    <3>4. nodes[idMapping[k]].ends[1] \in Under(nodes, 0)
      BY <1>8, <3>2, <3>3
    <3>5. idMapping[k] \in DOMAIN nodes /\ nodes[idMapping[k]].kind = "flow"
      BY <1>1, <2>5
    <3>6. nodes[idMapping[k]].ends \in Domain("component", nodes) \X Domain("component", nodes)
      BY <1>6, <3>5 DEF WellFormed
    <3>7. nodes[idMapping[k]].ends[1] \in Domain("component", nodes)
      BY <3>6
    <3> QED
      BY <3>4, <3>5, <3>7 DEF ModelData, Domain
  <2> QED
    BY <2>1, <2>2, <2>3, <2>4, <2>5 DEF Kinds, Tree
<1>10. \A i \in DOMAIN nodes \ Known :
         /\ nodes[i].kind # "item"
         /\ nodes[i].kind \in Tree => nodes[i].parent \notin Known
         /\ \A e \in DOMAIN nodes[i].ends : nodes[i].ends[e] \notin Known
  BY <1>1 DEF Inv, SyncInv
<1>11. 0 \in Known
  BY DEF Known
<1>12. Inside(nodes, 0) \subseteq Known
  <2>1. \A j \in Domain("boundary", nodes) : nodes[j].parent \in Known \union {0} => j \in Known
    BY <1>10, <1>11 DEF Domain, Tree
  <2> QED
    BY <2>1, InsideLeast
<1>13. Under(nodes, 0) \subseteq Known
  BY <1>10, <1>11, <1>12 DEF Under
<1>14. ASSUME NEW i \in ModelData(nodes)
       PROVE  i \in Known /\ i \in DOMAIN nodes
  <2>1. i \in DOMAIN nodes
    BY <1>6, DataFacts
  <2>2. CASE i \in Under(nodes, 0)
    BY <1>13, <2>1, <2>2
  <2>3. CASE i \in Domain("item", nodes)
    BY <1>10, <2>1, <2>3 DEF Domain
  <2>4. CASE i \in Domain("flow", nodes) /\ \E e \in {1, 2} : nodes[i].ends[e] \in Under(nodes, 0)
    <3>1. nodes[i].ends \in (DOMAIN nodes) \X (DOMAIN nodes)
      BY <1>6, <2>4 DEF WellFormed, Domain
    <3>2. DOMAIN nodes[i].ends = {1, 2}
      <4>1. PICK a \in DOMAIN nodes, b \in DOMAIN nodes : nodes[i].ends = <<a, b>>
        BY <3>1
      <4> QED
        BY <4>1
    <3> QED
      BY <1>10, <1>13, <2>1, <2>4, <3>2
  <2> QED
    BY <2>1, <2>2, <2>3, <2>4 DEF ModelData
<1>15. ASSUME NEW i \in ModelData(nodes)
       PROVE  i \in synced \union spared
  <2>1. CASE i = 0
    BY <1>2, <1>5, <2>1
  <2>2. CASE i \in processed
    <3>1. PICK k \in entered : idMapping[k] = i
      BY <2>2 DEF Inv, MapInv
    <3>2. k \in DOMAIN doc
      BY DEF Inv, MapInv
    <3> QED
      BY <3>1, <3>2
  <2>3. CASE i \in existing \ processed
    BY <1>14, <2>3 DEF Inv, WorkInv
  <2> QED
    BY <1>14, <2>1, <2>2, <2>3 DEF Known
<1> QED
  BY <1>9, <1>15

LEMMA SyncedNodes ==
  ASSUME Inv, pc = "export", NEW k \in DOMAIN doc \ {0}
  PROVE  nodes[idMapping[k]] = Sent(k)
<1> DEFINE n == nodes[idMapping[k]]
           s == doc[k].node
           p == IF s.kind \in Tree THEN idMapping[s.parent] ELSE s.parent
           e == IF s.kind = "flow" THEN <<idMapping[s.ends[1]], idMapping[s.ends[2]]>> ELSE s.ends
<1>1. /\ k \in entered /\ ~errors /\ blamed = {} /\ queue = {}
      /\ idMapping[k] \in DOMAIN nodes /\ n.kind = s.kind
  BY AllEntered DEF KindOf
<1>2. n \in Node /\ (n.kind \notin Tree => n.parent = 0) /\ (n.kind # "flow" => n.ends = Empty)
  BY <1>1 DEF Inv, NodeInv, WellFormed
<1>3. s \in NodeOf(Keys, Keys) /\ (s.kind \notin Tree => s.parent = 0) /\ (s.kind # "flow" => s.ends = Empty)
  BY DocFacts DEF DocOK
<1>4. n.val = s.val /\ n.ans = s.ans
  BY <1>1 DEF Inv, SyncInv
<1>5. n.parent = p
  <2>1. s.kind \in Tree => n.parent = idMapping[s.parent]
    BY <1>1 DEF Inv, ParentInv, KindOf
  <2> QED
    BY <1>1, <1>2, <1>3, <2>1
<1>6. n.ends = e
  <2>1. s.kind = "flow" => n.ends = <<idMapping[s.ends[1]], idMapping[s.ends[2]]>>
    BY <1>1 DEF Inv, SyncInv, KindOf
  <2> QED
    BY <1>1, <1>2, <1>3, <2>1
<1>7. Sent(k) = [s EXCEPT !.parent = p, !.ends = e]
  BY DEF Sent
<1> HIDE DEF n, s, p, e
<1>8. n = [s EXCEPT !.parent = p, !.ends = e]
  BY <1>1, <1>2, <1>3, <1>4, <1>5, <1>6 DEF Node, NodeOf
<1> QED
  BY <1>7, <1>8 DEF n

LEMMA InvSynced == Inv => SuccessMeansSynced
<1> SUFFICES ASSUME Inv, pc = "export"
             PROVE  SuccessMeansSynced
  BY DEF SuccessMeansSynced
<1>1. DOMAIN doc \subseteq DOMAIN idMapping
  BY AllEntered
<1>2. LET synced == {idMapping[k] : k \in DOMAIN doc}
      IN  synced \subseteq ModelData(nodes) /\ ModelData(nodes) \subseteq synced \union spared
  BY SyncedData
<1>3. \A k \in DOMAIN doc \ {0} : nodes[idMapping[k]] = Sent(k)
  BY SyncedNodes
<1>4. nodes[0].val = doc[0].node.val
  BY AllEntered DEF Inv, SyncInv, WorkInv
<1>5. ASSUME NEW a \in DocKeys({"root", "boundary"}), NEW b \in DocKeys({"root", "boundary"})
      PROVE  LET c == <<idMapping[a], idMapping[b]>>
             IN  IF b \in doc[a].peers THEN c \in BagToSet(conduits) /\ conduits[c] = 1
                                       ELSE c \notin BagToSet(conduits)
  <2>1. <<idMapping[a], idMapping[b]>> \in BagToSet(conduits) <=> b \in doc[a].peers
    BY AllEntered DEF Inv, ConduitInv
  <2>2. \A c \in BagToSet(conduits) : conduits[c] = 1
    BY BagFacts DEF Inv, NodeInv
  <2> QED
    BY <2>1, <2>2
<1> QED
  BY <1>1, <1>2, <1>3, <1>4, <1>5 DEF SuccessMeansSynced

\* A push that reports no error has written every element, reference and
\* conduit of the documents, and what the model holds besides are orphans
\* whose deletion failed: updateModel never answers success over a platform
\* that differs from the files.
THEOREM SuccessIsSynced == Spec => []SuccessMeansSynced
BY InvHolds, InvSynced, PTL

-----------------------------------------------------------------------------
(* What failed, and what that costs                                        *)

\* A key fails once: what is blamed is not tried again, and it has a server
\* id only if it had one before.  A flow that did not fail has the ends of
\* the documents.
BlameInv ==
  pc # "idle" =>
    /\ pc \in {"tree", "conduits"} => blamed \intersect DocKeys({"flow"}) = {}
    /\ pc \in {"tree", "flows"} => todo \intersect blamed = {}
    /\ entered \intersect blamed \subseteq existing \union {0}
    /\ \A k \in entered \ blamed : KindOf(k) = "flow" =>
         /\ doc[k].node.ends[1] \in DOMAIN idMapping /\ doc[k].node.ends[2] \in DOMAIN idMapping
         /\ idMapping[k] \in DOMAIN nodes => nodes[idMapping[k]].ends = MappedEnds(k)

LEMMA SameEnds ==
  ASSUME doc' = doc, NEW k, idMapping'[doc[k].node.ends[1]] = idMapping[doc[k].node.ends[1]],
         idMapping'[doc[k].node.ends[2]] = idMapping[doc[k].node.ends[2]]
  PROVE  MappedEnds(k)' = MappedEnds(k)
BY DEF MappedEnds

\* A step that leaves documents and ids alone, blames nothing and changes
\* the ends of no flow.
LEMMA BlameKept ==
  ASSUME BlameInv, doc' = doc, UNCHANGED <<existing, idMapping, entered, blamed>>, pc # "idle",
         pc' \in {"tree", "conduits"} => pc \in {"tree", "conduits"},
         pc' \in {"tree", "flows"} => todo' \intersect blamed = {},
         DOMAIN nodes' \subseteq DOMAIN nodes, \A i \in DOMAIN nodes' : nodes'[i].ends = nodes[i].ends
  PROVE  BlameInv'
<1>1. \A k : MappedEnds(k)' = MappedEnds(k)
  BY SameEnds
<1>2. \A k \in entered \ blamed : KindOf(k) = "flow" =>
        /\ doc[k].node.ends[1] \in DOMAIN idMapping /\ doc[k].node.ends[2] \in DOMAIN idMapping
        /\ idMapping[k] \in DOMAIN nodes' => nodes'[idMapping[k]].ends = MappedEnds(k)
  BY DEF BlameInv
<1> QED
  BY <1>1, <1>2, SameDoc DEF BlameInv

LEMMA UpdateBlame ==
  ASSUME Inv, BlameInv, NEW k \in todo, NEW o \in {"ok", "lost", "refused"}, Update(k, o)
  PROVE  BlameInv'
<1>1. /\ Ready(k) /\ k \in existing \union {0}
      /\ blamed' = (IF o = "refused" THEN blamed \union {k} ELSE blamed)
      /\ entered' = entered \union {k} /\ todo' = todo \ {k} /\ doc' = doc
      /\ UNCHANGED <<doc, pc, existing, idMapping>>
  BY DEF Update
<1>2. pc \in {"tree", "flows"} /\ pc # "idle" /\ (KindOf(k) = "flow" <=> pc = "flows") /\ k \in DOMAIN doc
  BY <1>1, ReadyFacts
<1>3. \A j : MappedEnds(j)' = MappedEnds(j)
  BY <1>1, SameEnds
<1>4. blamed' \subseteq blamed \union {k} /\ blamed \subseteq blamed'
  BY <1>1
<1>5. pc = "tree" => blamed' \intersect DocKeys({"flow"}) = {}
  BY <1>2, <1>4 DEF BlameInv, DocKeys
<1>6. todo' \intersect blamed' = {}
  BY <1>1, <1>2, <1>4 DEF BlameInv
<1>7. entered' \intersect blamed' \subseteq existing \union {0}
  <2>1. entered \intersect blamed \subseteq existing \union {0}
    BY <1>2 DEF BlameInv
  <2> QED
    BY <1>1, <1>4, <2>1
<1>8. ASSUME NEW j \in entered' \ blamed', KindOf(j) = "flow"
      PROVE  doc[j].node.ends[1] \in DOMAIN idMapping /\ doc[j].node.ends[2] \in DOMAIN idMapping
  <2>1. CASE j = k
    BY <1>1, <1>2, <1>8, <2>1 DEF Ready, Tree
  <2>2. CASE j # k
    BY <1>1, <1>2, <1>4, <1>8, <2>2 DEF BlameInv
  <2> QED
    BY <2>1, <2>2
<1>9. ASSUME NEW j \in entered' \ blamed', KindOf(j) = "flow", idMapping[j] \in DOMAIN nodes'
      PROVE  nodes'[idMapping[j]].ends = MappedEnds(j)
  <2>1. CASE j = k
    <3>1. o # "refused"
      BY <1>1, <1>9, <2>1
    <3> QED
      BY <1>1, <1>9, <2>1, <3>1, ReadyFacts, UpdateEffect
  <2>2. CASE j # k
    <3>1. j \in entered \ blamed /\ j \in DOMAIN idMapping
      BY <1>1, <1>2, <1>4, <1>9, <2>2 DEF Inv, MapInv
    <3>2. idMapping[j] # k /\ idMapping[j] \in DOMAIN nodes
      BY <1>2, <1>9, <2>2, <3>1, UpdateEffect DEF Inv, MapInv
    <3>3. nodes'[idMapping[j]] = nodes[idMapping[j]]
      BY <3>2, UpdateEffect
    <3> QED
      BY <1>2, <1>9, <3>1, <3>2, <3>3 DEF BlameInv
  <2> QED
    BY <2>1, <2>2
<1> QED
  BY <1>1, <1>2, <1>3, <1>5, <1>6, <1>7, <1>8, <1>9, SameDoc DEF BlameInv

LEMMA CreateBlame ==
  ASSUME Inv, BlameInv, NEW k \in todo, NEW o \in {"ok", "lost", "refused"}, Create(k, o)
  PROVE  BlameInv'
<1> DEFINE id == minted + 1
<1>1. /\ Ready(k) /\ k \notin existing \union {0}
      /\ blamed' = (IF o = "ok" THEN blamed ELSE blamed \union {k})
      /\ todo' = todo \ {k} /\ doc' = doc /\ UNCHANGED <<doc, pc, existing>>
  BY DEF Create
<1>2. pc \in {"tree", "flows"} /\ pc # "idle" /\ (KindOf(k) = "flow" <=> pc = "flows") /\ k \in DOMAIN doc /\ k \notin entered
  BY <1>1, ReadyFacts
<1>3. k \notin DOMAIN idMapping /\ entered \subseteq DOMAIN idMapping
  BY <1>1, <1>2 DEF Inv, MapInv
<1>4. \/ o # "ok" /\ UNCHANGED <<idMapping, entered>>
      \/ o = "ok" /\ idMapping' = With(idMapping, k, id) /\ entered' = entered \union {k}
  BY DEF Create
<1>5. \A j \in DOMAIN idMapping : idMapping'[j] = idMapping[j]
  <2>1. CASE idMapping' = idMapping
    BY <2>1
  <2>2. CASE idMapping' = With(idMapping, k, id)
    <3> HIDE DEF id
    <3> QED
      BY <1>3, <2>2 DEF With
  <2> QED
    BY <1>4, <2>1, <2>2
<1>6. k \notin blamed
  BY <1>2 DEF BlameInv
<1>7. pc = "tree" => blamed' \intersect DocKeys({"flow"}) = {}
  BY <1>1, <1>2 DEF BlameInv, DocKeys
<1>8. todo' \intersect blamed' = {}
  BY <1>1, <1>2 DEF BlameInv
<1>9. entered' \intersect blamed' \subseteq existing \union {0}
  <2>1. entered \intersect blamed \subseteq existing \union {0}
    BY <1>2 DEF BlameInv
  <2> QED
    BY <1>1, <1>2, <1>4, <1>6, <2>1
<1>10. DOMAIN idMapping \subseteq DOMAIN idMapping'
  BY <1>4 DEF With
<1>11. ASSUME NEW j \in entered' \ blamed', KindOf(j) = "flow"
       PROVE  doc[j].node.ends[1] \in DOMAIN idMapping /\ doc[j].node.ends[2] \in DOMAIN idMapping
  <2>1. CASE j = k
    BY <1>1, <1>2, <1>11, <2>1 DEF Ready, Tree
  <2>2. CASE j # k
    <3>1. j \in entered \ blamed
      BY <1>1, <1>4, <1>11, <2>2
    <3> QED
      BY <1>2, <1>11, <3>1 DEF BlameInv
  <2> QED
    BY <2>1, <2>2
<1>12. ASSUME NEW j \in entered' \ blamed', KindOf(j) = "flow", idMapping'[j] \in DOMAIN nodes'
       PROVE  nodes'[idMapping'[j]].ends = MappedEnds(j)'
  <2>1. CASE j = k
    <3>1. o = "ok" /\ idMapping' = With(idMapping, k, id)
      BY <1>2, <1>4, <1>12, <2>1
    <3>2. idMapping'[k] = id
      <4> HIDE DEF id
      <4> QED
        BY <3>1 DEF With
    <3>3. nodes'[id].ends = MappedEnds(k)
      BY <1>1, <1>12, <2>1, <3>1, CreateEffect, ReadyFacts
    <3>4. doc[k].node.ends[1] \in DOMAIN idMapping /\ doc[k].node.ends[2] \in DOMAIN idMapping
      BY <1>11, <1>12, <2>1
    <3>5. MappedEnds(k)' = MappedEnds(k)
      BY <1>1, <1>5, <3>4, SameEnds
    <3> QED
      BY <2>1, <3>2, <3>3, <3>5
  <2>2. CASE j # k
    <3>1. j \in entered \ blamed /\ j \in DOMAIN idMapping
      BY <1>1, <1>3, <1>4, <1>12, <2>2
    <3>2. idMapping[j] \in DOMAIN nodes
      BY <1>2, <3>1 DEF Inv, MapInv, Writing
    <3>3. nodes'[idMapping[j]] = nodes[idMapping[j]] /\ idMapping'[j] = idMapping[j]
      BY <1>5, <3>1, <3>2, CreateEffect
    <3>4. nodes[idMapping[j]].ends = MappedEnds(j)
      BY <1>2, <1>12, <3>1, <3>2 DEF BlameInv
    <3>5. MappedEnds(j)' = MappedEnds(j)
      BY <1>1, <1>5, <1>11, <1>12, SameEnds
    <3> QED
      BY <3>3, <3>4, <3>5
  <2> QED
    BY <2>1, <2>2
<1> QED
  BY <1>1, <1>2, <1>7, <1>8, <1>9, <1>10, <1>11, <1>12, SameDoc DEF BlameInv

LEMMA StartBlame == ASSUME Inv, Start PROVE BlameInv'
<1>1. /\ pc = "idle" /\ pc' = "tree" /\ entered' = {0} /\ doc' = doc /\ blamed' = blamed
  BY DEF Start
<1>2. blamed' = {}
  BY <1>1 DEF Inv, IdleInv
<1>3. doc[0].node.kind = "root"
  BY DocFacts DEF DocOK
<1>4. \A k \in entered' : KindOf(k)' # "flow"
  BY <1>1, <1>3 DEF KindOf
<1> QED
  BY <1>1, <1>2, <1>4 DEF BlameInv

LEMMA NextPhaseBlame == ASSUME Inv, BlameInv, NextPhase PROVE BlameInv'
<1>1. CASE pc = "tree" /\ Goto("conduits", DocKeys({"root", "boundary"}) \intersect DOMAIN idMapping)
  BY <1>1, BlameKept DEF Goto
<1>2. CASE pc = "conduits" /\ Goto("flows", DocKeys({"flow"}))
  <2>1. blamed \intersect DocKeys({"flow"}) = {}
    BY <1>2 DEF BlameInv
  <2> QED
    BY <1>2, <2>1, BlameKept DEF Goto
<1>3. CASE pc = "flows" /\ Goto("answers", {})
  BY <1>3, BlameKept DEF Goto
<1>4. CASE pc = "answers" /\ Goto("orphans", existing \ processed)
  BY <1>4, BlameKept DEF Goto
<1>5. CASE pc = "orphans" /\ Goto("export", {})
  BY <1>5, BlameKept DEF Goto
<1> QED
  BY <1>1, <1>2, <1>3, <1>4, <1>5 DEF NextPhase

LEMMA WorkBlame ==
  ASSUME Inv, BlameInv, NEW k \in todo,
         SkipFlow(k) \/ \E o \in {"ok", "lost", "refused"} : WriteConduits(k, o)
  PROVE  BlameInv'
<1>1. /\ doc' = doc /\ nodes' = nodes /\ pc' = pc /\ pc \in {"flows", "conduits"} /\ todo' = todo \ {k}
      /\ UNCHANGED <<existing, idMapping, entered, blamed>>
  BY DEF SkipFlow, WriteConduits
<1>2. pc' \in {"tree", "flows"} => todo' \intersect blamed = {}
  BY <1>1 DEF BlameInv
<1> QED
  BY <1>1, <1>2, BlameKept

\* What the writes of answers and the deletions do to the platform.
LEMMA AnswersEffect ==
  ASSUME Inv, NEW w \in queue, NEW o \in {"ok", "refused"}, WriteAnswers(w, o)
  PROVE  /\ DOMAIN nodes' = DOMAIN nodes
         /\ \A i \in DOMAIN nodes : /\ nodes'[i].kind = nodes[i].kind /\ nodes'[i].parent = nodes[i].parent
                                    /\ nodes'[i].ends = nodes[i].ends
<1>1. CASE nodes' = nodes
  BY <1>1
<1>2. CASE nodes' = [nodes EXCEPT ![w[1]].ans = w[2]]
  <2>1. \A i \in DOMAIN nodes : nodes[i] \in Node
    BY DEF Inv, NodeInv, WellFormed
  <2> QED
    BY <1>2, <2>1 DEF Node, NodeOf
<1> QED
  BY <1>1, <1>2 DEF WriteAnswers

LEMMA DeleteEffect ==
  ASSUME Inv, NEW i \in todo, NEW o \in {"ok", "refused"}, DeleteOrphan(i, o)
  PROVE  /\ pc = "orphans" /\ i \in existing \ processed /\ i # 0 /\ i \in Ids
         /\ UNCHANGED <<doc, pc, existing, idMapping, processed, entered, blamed>> /\ doc' = doc
         /\ nodes' = nodes \/ nodes' = Deleted(i)
<1>1. pc = "orphans"
  BY DEF DeleteOrphan
<1>2. todo \subseteq existing \ processed
  BY <1>1 DEF Inv, WorkInv
<1>3. existing \subseteq Ids /\ 0 \notin existing
  BY <1>1 DEF Inv, MapInv, PushType
<1> QED
  BY <1>1, <1>2, <1>3 DEF DeleteOrphan

LEMMA PlatformBlame ==
  ASSUME Inv, BlameInv,
         \/ \E i \in todo, o \in {"ok", "refused"} : DeleteOrphan(i, o)
         \/ \E w \in queue, o \in {"ok", "refused"} : WriteAnswers(w, o)
  PROVE  BlameInv'
<1>1. CASE \E i \in todo, o \in {"ok", "refused"} : DeleteOrphan(i, o)
  <2>1. PICK i \in todo, o \in {"ok", "refused"} : DeleteOrphan(i, o)
    BY <1>1
  <2>2. /\ pc = "orphans" /\ i # 0 /\ i \in Ids /\ doc' = doc
        /\ UNCHANGED <<pc, existing, idMapping, entered, blamed>> /\ (nodes' = nodes \/ nodes' = Deleted(i))
    BY <2>1, DeleteEffect
  <2>3. DOMAIN nodes' \subseteq DOMAIN nodes /\ \A n \in DOMAIN nodes' : nodes'[n].ends = nodes[n].ends
    <3>1. CASE nodes' = nodes
      BY <3>1
    <3>2. CASE nodes' = Deleted(i)
      <4>1. DOMAIN Deleted(i) \subseteq DOMAIN nodes /\ \A n \in DOMAIN Deleted(i) : Deleted(i)[n].ends = nodes[n].ends
        BY <2>2, DeletedFacts
      <4> QED
        BY <3>2, <4>1
    <3> QED
      BY <2>2, <3>1, <3>2
  <2> QED
    BY <2>2, <2>3, BlameKept
<1>2. CASE \E w \in queue, o \in {"ok", "refused"} : WriteAnswers(w, o)
  <2>1. PICK w \in queue, o \in {"ok", "refused"} : WriteAnswers(w, o)
    BY <1>2
  <2>2. pc = "answers" /\ doc' = doc /\ UNCHANGED <<pc, existing, idMapping, entered, blamed>>
    BY <2>1 DEF WriteAnswers
  <2>3. DOMAIN nodes' \subseteq DOMAIN nodes /\ \A n \in DOMAIN nodes' : nodes'[n].ends = nodes[n].ends
    BY <2>1, AnswersEffect
  <2> QED
    BY <2>2, <2>3, BlameKept
<1> QED
  BY <1>1, <1>2

LEMMA BlameNext == ASSUME Inv, BlameInv, [Next]_vars PROVE BlameInv'
<1>1. CASE Start
  BY <1>1, StartBlame
<1>2. CASE PushStep
  <2>1. ASSUME NEW k \in todo, NEW o \in {"ok", "lost", "refused"},
               \/ UpdateDefaultBoundary(k, o) \/ UpdateDataItem(k, o) \/ UpdateBoundary(k, o)
               \/ UpdateComponent(k, o) \/ UpdateDataFlow(k, o)
        PROVE  BlameInv'
    <3>1. Update(k, o)
      BY <2>1 DEF UpdateDefaultBoundary, UpdateDataItem, UpdateBoundary, UpdateComponent, UpdateDataFlow
    <3> QED
      BY <3>1, UpdateBlame
  <2>2. ASSUME NEW k \in todo, NEW o \in {"ok", "lost", "refused"},
               \/ CreateDataItem(k, o) \/ CreateBoundary(k, o) \/ CreateComponent(k, o) \/ CreateDataFlow(k, o)
        PROVE  BlameInv'
    <3>1. Create(k, o)
      BY <2>2 DEF CreateDataItem, CreateBoundary, CreateComponent, CreateDataFlow
    <3> QED
      BY <3>1, CreateBlame
  <2>3. ASSUME NEW k \in todo, SkipFlow(k) \/ \E o \in {"ok", "lost", "refused"} : WriteConduits(k, o)
        PROVE  BlameInv'
    BY <2>3, WorkBlame
  <2>4. ASSUME \/ \E k \in todo, o \in {"ok", "refused"} : DeleteOrphan(k, o)
               \/ \E w \in queue, o \in {"ok", "refused"} : WriteAnswers(w, o)
        PROVE  BlameInv'
    BY <2>4, PlatformBlame
  <2>5. CASE NextPhase
    BY <2>5, NextPhaseBlame
  <2>6. CASE Give \/ \E o \in {"ok", "refused"} : WriteBack(o)
    BY <2>6 DEF Give, WriteBack, Return, BlameInv
  <2> QED
    BY <1>2, <2>1, <2>2, <2>3, <2>4, <2>5, <2>6 DEF PushStep
<1>3. CASE Die
  BY <1>3 DEF Die, Return, BlameInv
<1>4. CASE Edits
  <2>1. PICK d : Edit(d)
    BY <1>4 DEF Edits, Add, Remove, Change, Move, Retarget, Connect
  <2>2. pc' = "idle"
    BY <2>1 DEF Edit, push
  <2> QED
    BY <2>2 DEF BlameInv
<1>5. CASE UNCHANGED vars
  <2>1. CASE pc = "idle"
    BY <1>5, <2>1 DEF vars, push, BlameInv
  <2>2. CASE pc # "idle"
    <3>1. /\ doc' = doc /\ nodes' = nodes /\ pc' = pc /\ todo' = todo
          /\ UNCHANGED <<existing, idMapping, entered, blamed>>
      BY <1>5 DEF vars, push
    <3>2. pc' \in {"tree", "flows"} => todo' \intersect blamed = {}
      BY <2>2, <3>1 DEF BlameInv
    <3> QED
      BY <2>2, <3>1, <3>2, BlameKept
  <2> QED
    BY <2>1, <2>2
<1> QED
  BY <1>1, <1>2, <1>3, <1>4, <1>5 DEF Next

LEMMA BlameHolds == Spec => []BlameInv
<1>1. Init => BlameInv
  BY DEF Init, BlameInv
<1>2. Inv /\ BlameInv /\ [Next]_vars => BlameInv'
  BY BlameNext
<1> QED
  BY <1>1, <1>2, InvHolds, PTL DEF Spec

-----------------------------------------------------------------------------
(* Where damage comes from                                                 *)

\* An element that was written is in the model, or on the platform it lies
\* in something that failed.
Reached ==
  pc # "idle" =>
    \A k \in entered : KindOf(k) \in Tree =>
      idMapping[k] \in Under(nodes, 0) \/ Lines(nodes, idMapping[k]) \intersect blamed # {}

LEMMA PlaceFacts ==
  ASSUME Inv, pc # "idle", NEW k \in entered, KindOf(k) \in Tree \union {"root"}
  PROVE  /\ k \in DOMAIN doc /\ k \in DOMAIN idMapping /\ idMapping[k] \in DOMAIN nodes /\ nodes[idMapping[k]].kind = KindOf(k)
         /\ nodes[idMapping[k]].ends = Empty /\ (KindOf(k) = "root" <=> k = 0) /\ idMapping[0] = 0
<1>1. k \in DOMAIN idMapping \intersect DOMAIN doc /\ KindOf(k) # "flow" /\ idMapping[0] = 0
  BY DEF Inv, MapInv, Tree
<1>2. idMapping[k] \in DOMAIN nodes
  BY <1>1 DEF Inv, MapInv
<1>3. nodes[idMapping[k]].kind = KindOf(k)
  BY <1>1, <1>2 DEF Inv, MapInv
<1>4. nodes[idMapping[k]].ends = Empty
  BY <1>1, <1>2, <1>3 DEF Inv, NodeInv, WellFormed
<1>5. KindOf(k) = "root" <=> k = 0
  BY <1>1, DocFacts DEF DocOK, KindOf
<1> QED
  BY <1>1, <1>2, <1>3, <1>4, <1>5

LEMMA ReachedStep ==
  ASSUME Inv, BlameInv, pc # "idle", NEW k \in entered, KindOf(k) \in Tree, NEW p, p = doc[k].node.parent,
         idMapping[p] \in Inside(nodes, 0) \union {0} \/ (p # 0 /\ Lines(nodes, idMapping[p]) \intersect blamed # {})
  PROVE  \/ nodes[idMapping[k]].parent \in Inside(nodes, 0) \union {0}
         \/ Lines(nodes, idMapping[k]) \intersect blamed # {}
<1>1. /\ k \in DOMAIN doc /\ idMapping[k] \in DOMAIN nodes /\ nodes[idMapping[k]].kind = KindOf(k)
      /\ nodes[idMapping[k]].ends = Empty /\ k # 0
  BY PlaceFacts DEF Tree
<1>2. CASE k \in blamed
  <2>1. k \in existing
    BY <1>1, <1>2 DEF BlameInv
  <2>2. idMapping[k] = k
    BY <2>1 DEF Inv, MapInv
  <2>3. k \in Lines(nodes, k)
    BY <1>1, <2>2, UnderSelf, LinesIntro
  <2> QED
    BY <1>2, <2>2, <2>3
<1>3. CASE k \notin blamed
  <2>1. p \in entered /\ nodes[idMapping[k]].parent = idMapping[p]
    BY <1>3 DEF Inv, ParentInv
  <2>2. CASE idMapping[p] \in Inside(nodes, 0) \union {0}
    BY <2>1, <2>2
  <2>3. CASE p # 0 /\ Lines(nodes, idMapping[p]) \intersect blamed # {}
    <3>1. p \in Boundaries(NodesOf(doc)) /\ p \in DOMAIN doc
      BY <1>1, DocFacts, DocShape DEF KindOf
    <3>2. KindOf(p) \in {"root", "boundary"}
      BY <3>1, NodesOfFacts DEF Boundaries, Domain, KindOf
    <3>3. /\ idMapping[p] \in DOMAIN nodes /\ nodes[idMapping[p]].kind = "boundary"
          /\ nodes[idMapping[p]].ends = Empty
      BY <2>1, <2>3, <3>2, PlaceFacts DEF Tree
    <3>4. idMapping[p] \in Domain("boundary", nodes)
      BY <3>3 DEF Domain
    <3>5. PICK n \in Lines(nodes, idMapping[p]) : n \in blamed
      BY <2>3
    <3>6. n \in Lines(nodes, idMapping[k])
      BY <1>1, <2>1, <3>3, <3>4, <3>5, LinesUp
    <3> QED
      BY <3>5, <3>6
  <2> QED
    BY <2>2, <2>3
<1> QED
  BY <1>2, <1>3

LEMMA InvReached == Inv /\ BlameInv => Reached
<1> SUFFICES ASSUME Inv, BlameInv, pc # "idle"
             PROVE  \A k \in entered : KindOf(k) \in Tree =>
                      idMapping[k] \in Under(nodes, 0) \/ Lines(nodes, idMapping[k]) \intersect blamed # {}
  BY DEF Reached
<1> DEFINE D == NodesOf(doc)
           good(b) == idMapping[b] \in Inside(nodes, 0) \/ Lines(nodes, idMapping[b]) \intersect blamed # {}
           S == {b \in DOMAIN doc \ {0} : b \in entered => good(b)}
<1>1. /\ DOMAIN D = DOMAIN doc /\ \A k \in DOMAIN doc : D[k] = doc[k].node
      /\ idMapping[0] = 0 /\ 0 \in entered
  BY NodesOfFacts DEF Inv, MapInv
<1>2. ASSUME NEW j \in Domain("boundary", D), D[j].parent \in S \union {0}
      PROVE  j \in S
  <2>1. j \in DOMAIN doc /\ KindOf(j) = "boundary" /\ D[j].parent = doc[j].node.parent
    BY <1>1, <1>2 DEF Domain, KindOf
  <2>2. j # 0
    BY <2>1, DocFacts DEF DocOK, KindOf
  <2>3. ASSUME j \in entered
        PROVE  good(j)
    <3> DEFINE p == doc[j].node.parent
    <3>1. p \in entered
      BY <2>1, <2>3 DEF Inv, ParentInv, Tree
    <3>2. idMapping[p] \in Inside(nodes, 0) \union {0} \/ (p # 0 /\ Lines(nodes, idMapping[p]) \intersect blamed # {})
      <4>1. CASE p = 0
        BY <1>1, <4>1
      <4>2. CASE p # 0
        BY <1>2, <2>1, <3>1, <4>2
      <4> QED
        BY <4>1, <4>2
    <3>3. \/ nodes[idMapping[j]].parent \in Inside(nodes, 0) \union {0}
          \/ Lines(nodes, idMapping[j]) \intersect blamed # {}
      BY <2>1, <2>3, <3>2, ReachedStep DEF Tree
    <3>4. idMapping[j] \in Domain("boundary", nodes)
      BY <2>1, <2>3, PlaceFacts DEF Tree, Domain
    <3> QED
      BY <3>3, <3>4, InsideClosed
  <2> QED
    BY <2>1, <2>2, <2>3
<1>3. Inside(D, 0) \subseteq S
  <2> HIDE DEF S, D
  <2> QED
    BY <1>2, InsideLeast
<1>4. ASSUME NEW k \in entered, KindOf(k) \in Tree
      PROVE  idMapping[k] \in Under(nodes, 0) \/ Lines(nodes, idMapping[k]) \intersect blamed # {}
  <2> DEFINE p == doc[k].node.parent
  <2>1. k \in DOMAIN doc /\ idMapping[k] \in DOMAIN nodes /\ nodes[idMapping[k]].kind = KindOf(k)
    BY <1>4, PlaceFacts
  <2>2. p \in Inside(D, 0) \union {0}
    BY <1>4, <2>1, DocFacts, DocShape DEF KindOf
  <2>3. p \in entered
    BY <1>4 DEF Inv, ParentInv
  <2>4. idMapping[p] \in Inside(nodes, 0) \union {0} \/ (p # 0 /\ Lines(nodes, idMapping[p]) \intersect blamed # {})
    <3>1. CASE p = 0
      BY <1>1, <3>1
    <3>2. CASE p # 0
      BY <1>3, <2>2, <2>3, <3>2
    <3> QED
      BY <3>1, <3>2
  <2>5. \/ nodes[idMapping[k]].parent \in Inside(nodes, 0) \union {0}
        \/ Lines(nodes, idMapping[k]) \intersect blamed # {}
    BY <1>4, <2>4, ReachedStep
  <2> QED
    BY <1>4, <2>1, <2>5, UnderIntro
<1> QED
  BY <1>4

\* A flow depends on what its ends depend on.
LEMMA FlowLines ==
  ASSUME NEW N, NEW f \in DOMAIN N, NEW t \in DOMAIN N, N[t].ends = Empty,
         NEW e \in DOMAIN N[f].ends, N[f].ends[e] = t, NEW n \in Lines(N, t)
  PROVE  n \in Lines(N, f)
<1>1. n \in DOMAIN N \ {0} /\ t \in Under(N, n)
  BY EmptyMap DEF Lines
<1> QED
  BY <1>1 DEF Lines

\* A platform that only grows keeps its model.
LEMMA DataGrows ==
  ASSUME NEW N, WellFormed(N), DOMAIN N \subseteq Ids, NEW M, DOMAIN N \subseteq DOMAIN M,
         \A i \in DOMAIN N : M[i].kind = N[i].kind /\ M[i].parent = N[i].parent /\ M[i].ends = N[i].ends
  PROVE  ModelData(N) \subseteq ModelData(M)
<1>1. \A j \in Domain("boundary", N) : N[j].parent \in Inside(M, 0) \union {0} => j \in Inside(M, 0)
  BY InsideClosed DEF Domain
<1>2. Inside(N, 0) \subseteq Inside(M, 0)
  BY <1>1, InsideLeast
<1>3. Under(N, 0) \subseteq Under(M, 0)
  BY <1>2 DEF Under
<1>4. Domain("item", N) \subseteq Domain("item", M) /\ Domain("flow", N) \subseteq Domain("flow", M)
  BY DEF Domain
<1>5. \A f \in Domain("flow", N) : M[f].ends = N[f].ends
  BY DEF Domain
<1>6. Domain("component", N) \subseteq Domain("component", M)
  BY DEF Domain
<1> QED
  BY <1>3, <1>4, <1>5, <1>6 DEF ModelData

\* When one element is moved, what leaves the tree under the default boundary
\* lies under that element.
LEMMA MovedUnder ==
  ASSUME NEW N, NEW M, DOMAIN M = DOMAIN N, NEW x,
         \A i \in DOMAIN N : M[i].kind = N[i].kind, \A i \in DOMAIN N \ {x} : M[i].parent = N[i].parent,
         NEW i \in Under(N, 0), i \notin Under(M, 0)
  PROVE  i \in Under(M, x)
<1> DEFINE S == Inside(M, 0) \union Inside(M, x) \union {x}
<1>1. ASSUME NEW j \in Domain("boundary", N), N[j].parent \in S \union {0}
      PROVE  j \in S
  <2>1. j \in Domain("boundary", M) /\ (j # x => M[j].parent = N[j].parent)
    BY DEF Domain
  <2>2. CASE j = x
    BY <2>2
  <2>3. CASE j # x
    BY <1>1, <2>1, <2>3, InsideClosed
  <2> QED
    BY <2>2, <2>3
<1>2. Inside(N, 0) \subseteq S
  <2> HIDE DEF S
  <2> QED
    BY <1>1, InsideLeast
<1>3. i # 0
  BY UnderSelf
<1>4. i \in DOMAIN N /\ N[i].kind \in Tree /\ N[i].parent \in Inside(N, 0) \union {0}
  BY <1>3 DEF Under
<1>5. CASE i = x
  BY <1>5, UnderSelf
<1>6. CASE i # x
  <2>1. M[i].parent \in S \union {0} /\ i \in DOMAIN M /\ M[i].kind \in Tree
    BY <1>2, <1>4, <1>6
  <2> QED
    BY <2>1, UnderIntro
<1> QED
  BY <1>5, <1>6

\* An element of the documents that leaves the model.
LEMMA StruckFacts ==
  ASSUME Inv, WellFormed(nodes'), DOMAIN nodes' \subseteq Ids, pc # "idle", NEW k \in Struck
  PROVE  LET i == idMapping[k]
         IN  /\ k \in DOMAIN doc /\ k \in DOMAIN idMapping /\ i \in DOMAIN nodes /\ nodes[i].kind = KindOf(k)
             /\ i \in ModelData(nodes) /\ i \notin ModelData(nodes') /\ i # 0 /\ k # 0
             /\ KindOf(k) \in Kinds
<1> DEFINE i == idMapping[k]
<1>1. k \in DOMAIN doc \intersect DOMAIN idMapping /\ i \in ModelData(nodes) /\ i \notin ModelData(nodes')
  BY DEF Struck
<1>2. WellFormed(nodes) /\ DOMAIN nodes \subseteq Ids
  BY NodeFacts DEF Inv, NodeInv
<1>3. i \in DOMAIN nodes
  BY <1>1, <1>2, DataFacts
<1>4. nodes[i].kind = KindOf(k)
  BY <1>1, <1>3 DEF Inv, MapInv
<1>5. 0 \in ModelData(nodes')
  BY DataFacts
<1>6. i # 0
  BY <1>1, <1>5
<1>7. k # 0
  BY <1>6 DEF Inv, MapInv
<1>8. KindOf(k) \in Kinds \union {"root"} /\ (KindOf(k) = "root" => k = 0)
  BY <1>1, DocFacts DEF DocOK, KindOf, NodeOf
<1> QED
  BY <1>1, <1>3, <1>4, <1>6, <1>7, <1>8

\* What data is, said of one node.
LEMMA DataCases ==
  ASSUME NEW N, WellFormed(N), NEW i \in DOMAIN N
  PROVE  /\ N[i].kind = "item" => i \in ModelData(N)
         /\ N[i].kind \in Tree => (i \in ModelData(N) <=> i \in Under(N, 0))
         /\ N[i].kind = "flow" => (i \in ModelData(N) <=> \E e \in {1, 2} : N[i].ends[e] \in Under(N, 0))
         /\ N[i].kind = "flow" =>
              /\ DOMAIN N[i].ends = {1, 2}
              /\ \A e \in {1, 2} : /\ N[i].ends[e] \in DOMAIN N /\ N[N[i].ends[e]].kind \in Tree
                                   /\ N[N[i].ends[e]].ends = Empty
<1>1. N[i].kind = "item" => i \in ModelData(N)
  BY DEF ModelData, Domain
<1>2. \A j \in Under(N, 0) : j = 0 \/ N[j].kind \in Tree
  BY DEF Under
<1>3. N[0].kind = "root"
  BY DEF WellFormed
<1>4. N[i].kind \in Tree => (i \in ModelData(N) <=> i \in Under(N, 0))
  BY DEF ModelData, Domain, Tree
<1>5. ASSUME N[i].kind = "flow"
      PROVE  DOMAIN N[i].ends = {1, 2} /\ \A e \in {1, 2} : N[i].ends[e] \in Domain("component", N)
  <2>1. N[i].ends \in Domain("component", N) \X Domain("component", N)
    BY <1>5 DEF WellFormed
  <2>2. PICK a \in Domain("component", N), b \in Domain("component", N) : N[i].ends = <<a, b>>
    BY <2>1
  <2> QED
    BY <2>2
<1>6. N[i].kind = "flow" => (i \in ModelData(N) <=> \E e \in {1, 2} : N[i].ends[e] \in Under(N, 0))
  <2>1. SUFFICES ASSUME N[i].kind = "flow"
                 PROVE  i \in ModelData(N) <=> \E e \in {1, 2} : N[i].ends[e] \in Under(N, 0)
    OBVIOUS
  <2>2. i \in Domain("flow", N) /\ i \notin Domain("item", N) /\ i \notin Under(N, 0)
    BY <1>2, <1>3, <2>1 DEF Domain, Tree
  <2> QED
    BY <1>5, <2>1, <2>2 DEF ModelData
<1>7. \A t \in Domain("component", N) : t \in DOMAIN N /\ N[t].kind \in Tree /\ N[t].ends = Empty
  BY DEF WellFormed, Domain, Tree
<1> QED
  BY <1>1, <1>4, <1>5, <1>6, <1>7

Excused(k) == (Lines(DocNodes, k) \union Lines(nodes', idMapping[k])) \intersect blamed' # {}

LEMMA ExcusedIntro ==
  ASSUME NEW k, NEW n, n \in Lines(DocNodes, k) \union Lines(nodes', idMapping[k]), n \in blamed'
  PROVE  Excused(k)
BY DEF Excused

\* A flow one of whose ends was not written is excused.
LEMMA EndMissing ==
  ASSUME Inv, pc \notin {"idle", "tree"}, NEW k \in DocKeys({"flow"}), NEW e \in {1, 2},
         doc[k].node.ends[e] \notin entered, blamed \subseteq blamed'
  PROVE  Excused(k)
<1> DEFINE t == doc[k].node.ends[e]
<1>1. t \in DocKeys(Tree)
  BY DEF Inv, MapInv, Valid
<1>2. Lines(DocNodes, t) \intersect blamed # {}
  BY <1>1 DEF Inv, WorkInv
<1>3. PICK n \in Lines(DocNodes, t) : n \in blamed
  BY <1>2
<1>4. /\ DOMAIN DocNodes = DOMAIN doc /\ \A j \in DOMAIN doc : DocNodes[j] = doc[j].node
  BY DEF DocNodes
<1>5. t \in DOMAIN doc /\ k \in DOMAIN doc /\ doc[t].node.kind \in Tree /\ doc[k].node.kind = "flow"
  BY <1>1 DEF DocKeys, KindOf
<1>6. doc[t].node.ends = Empty /\ doc[k].node.ends \in Keys \X Keys
  BY <1>5, DocFacts DEF Tree
<1>7. e \in DOMAIN doc[k].node.ends
  <2>1. PICK a \in Keys, b \in Keys : doc[k].node.ends = <<a, b>>
    BY <1>6
  <2> QED
    BY <2>1
<1>8. n \in Lines(DocNodes, k)
  <2> DEFINE N == DocNodes
  <2>1. k \in DOMAIN N /\ t \in DOMAIN N /\ N[t].ends = Empty /\ e \in DOMAIN N[k].ends /\ N[k].ends[e] = t
    BY <1>4, <1>5, <1>6, <1>7
  <2> HIDE DEF N, t
  <2>2. n \in Lines(N, t)
    BY <1>3 DEF N
  <2>3. n \in Lines(N, k)
    BY <2>1, <2>2, FlowLines
  <2> QED
    BY <2>3 DEF N
<1> QED
  BY <1>3, <1>8, ExcusedIntro

\* A flow whose end is the image of an element that was written is excused
\* when that image is not in the model.
LEMMA EndLost ==
  ASSUME Inv, Inv', Reached', pc' # "idle", doc' = doc, idMapping' = idMapping, NEW k, idMapping[k] \in DOMAIN nodes',
         NEW t \in entered', KindOf(t) \in Tree, idMapping[t] \notin Under(nodes', 0),
         NEW e \in DOMAIN nodes'[idMapping[k]].ends, nodes'[idMapping[k]].ends[e] = idMapping[t]
  PROVE  Excused(k)
<1>1. KindOf(t)' \in Tree
  BY SameDoc
<1>2. Lines(nodes', idMapping[t]) \intersect blamed' # {}
  BY <1>1 DEF Reached
<1>3. PICK n \in Lines(nodes', idMapping[t]) : n \in blamed'
  BY <1>2
<1>4. idMapping[t] \in DOMAIN nodes' /\ nodes'[idMapping[t]].ends = Empty
  <2>1. KindOf(t) # "flow" /\ t \in DOMAIN idMapping' /\ t \in DOMAIN doc' /\ KindOf(t)' # "flow"
    BY SameDoc DEF Inv, MapInv, Tree
  <2>2. idMapping'[t] \in DOMAIN nodes'
    BY <2>1 DEF Inv, MapInv
  <2>3. nodes'[idMapping'[t]].kind = KindOf(t)'
    BY <2>1, <2>2 DEF Inv, MapInv
  <2>4. nodes'[idMapping'[t]].ends = Empty
    BY <2>1, <2>2, <2>3 DEF Inv, NodeInv, WellFormed
  <2> QED
    BY <2>2, <2>4
<1>5. n \in Lines(nodes', idMapping[k])
  BY <1>3, <1>4, FlowLines
<1> QED
  BY <1>3, <1>5, ExcusedIntro

\* An update that moves an element of the tree.
LEMMA MoveDamage ==
  ASSUME Inv, Inv', BlameInv', Reached', NEW x \in todo, NEW o \in {"ok", "lost", "refused"}, Update(x, o),
         KindOf(x) \in Tree, NEW k \in Struck
  PROVE  Excused(k)
<1> DEFINE i == idMapping[k]
<1>1. /\ Ready(x) /\ entered' = entered \union {x} /\ doc' = doc /\ pc' = pc /\ idMapping' = idMapping
  BY DEF Update
<1>2. pc # "idle" /\ x \in DOMAIN doc /\ x # 0
  BY <1>1, ReadyFacts DEF Tree
<1>3. /\ x \in DOMAIN nodes /\ idMapping[x] = x /\ DOMAIN nodes' = DOMAIN nodes
      /\ \A j \in DOMAIN nodes : nodes'[j].kind = nodes[j].kind
      /\ \A j \in DOMAIN nodes \ {x} : nodes'[j] = nodes[j]
      /\ WellFormed(nodes')
  BY UpdateEffect
<1>4. WellFormed(nodes) /\ DOMAIN nodes \subseteq Ids /\ DOMAIN nodes' \subseteq Ids
  BY <1>3, NodeFacts DEF Inv, NodeInv
<1>5. /\ i \in DOMAIN nodes /\ nodes[i].kind = KindOf(k) /\ i \in ModelData(nodes) /\ i \notin ModelData(nodes')
      /\ i # 0 /\ KindOf(k) \in Kinds
  BY <1>2, <1>3, <1>4, StruckFacts
<1>6. x \in DOMAIN idMapping \intersect DOMAIN doc
  BY <1>2, UpdateEffect
<1>7. nodes'[x].ends = Empty /\ nodes'[x].kind \in Tree
  <2>1. nodes[x].kind = KindOf(x)
    BY <1>2, <1>3, <1>6 DEF Inv, MapInv
  <2> QED
    BY <1>3, <2>1 DEF WellFormed, Tree
<1>8. TreeShape(nodes') /\ \A n \in DOMAIN nodes' : nodes'[n].kind = "root" => n = 0
  BY <1>3, <1>4, RefsAssumption DEF TreeShape, WellFormed
<1>9. ASSUME NEW t \in DOMAIN nodes, t \in Under(nodes, 0), t \notin Under(nodes', 0)
      PROVE  \E n \in blamed' : n \in Lines(nodes', t)
  <2>1. t \in Under(nodes', x)
    BY <1>3, <1>9, MovedUnder
  <2>2. x \notin Under(nodes', 0)
    BY <1>2, <1>3, <1>8, <1>9, <2>1, UnderTransitive
  <2>3. x \in entered' /\ KindOf(x)' \in Tree
    BY <1>1, SameDoc
  <2>4. Lines(nodes', x) \intersect blamed' # {}
    BY <1>1, <1>2, <1>3, <2>2, <2>3 DEF Reached
  <2>5. PICK n \in Lines(nodes', x) : n \in blamed'
    BY <2>4
  <2>6. n \in DOMAIN nodes' /\ n # 0 /\ x \in Under(nodes', n)
    BY <1>7, <2>5, EmptyMap DEF Lines
  <2>7. t \in Under(nodes', n)
    BY <1>2, <1>3, <1>8, <2>1, <2>6, UnderTransitive
  <2>8. n \in Lines(nodes', t)
    BY <2>6, <2>7, LinesIntro
  <2> QED
    BY <2>5, <2>8
<1>10. CASE KindOf(k) \in Tree
  <2>1. i \in Under(nodes, 0) /\ i \notin Under(nodes', 0)
    BY <1>3, <1>4, <1>5, <1>10, DataCases
  <2> QED
    BY <1>5, <1>9, <2>1, ExcusedIntro
<1>11. CASE KindOf(k) = "flow"
  <2>1. nodes'[i] = nodes[i]
    <3>1. i # x
      BY <1>3, <1>5, <1>7, <1>11 DEF Tree
    <3> QED
      BY <1>3, <1>5, <3>1
  <2>2. PICK e \in {1, 2} : nodes[i].ends[e] \in Under(nodes, 0)
    BY <1>4, <1>5, <1>11, DataCases
  <2> DEFINE t == nodes[i].ends[e]
  <2>3. /\ DOMAIN nodes'[i].ends = {1, 2} /\ t \notin Under(nodes', 0) /\ t \in DOMAIN nodes' /\ nodes'[t].ends = Empty
    BY <1>3, <1>5, <1>11, <2>1, DataCases
  <2>4. PICK n \in blamed' : n \in Lines(nodes', t)
    BY <1>3, <1>9, <2>2, <2>3
  <2>5. n \in Lines(nodes', i)
    BY <1>3, <1>5, <2>1, <2>3, <2>4, FlowLines
  <2> QED
    BY <2>4, <2>5, ExcusedIntro
<1>12. CASE KindOf(k) = "item"
  BY <1>3, <1>5, <1>12, DataCases
<1> QED
  BY <1>5, <1>10, <1>11, <1>12 DEF Kinds, Tree

\* An update that gives a flow other ends.
LEMMA RewireDamage ==
  ASSUME Inv, Inv', Reached', NEW x \in todo, NEW o \in {"ok", "lost", "refused"}, Update(x, o),
         KindOf(x) = "flow", nodes' # nodes, NEW k \in Struck
  PROVE  Excused(k)
<1> DEFINE i == idMapping[k]
<1>1. /\ Ready(x) /\ entered \subseteq entered' /\ doc' = doc /\ pc' = pc /\ idMapping' = idMapping
      /\ blamed \subseteq blamed'
  BY DEF Update
<1>2. pc = "flows" /\ x \in DOMAIN doc /\ x \in DocKeys({"flow"}) /\ Sent(x).ends = MappedEnds(x)
  BY <1>1, ReadyFacts DEF DocKeys
<1>3. /\ x \in DOMAIN nodes /\ idMapping[x] = x /\ x \in DOMAIN idMapping /\ DOMAIN nodes' = DOMAIN nodes
      /\ \A j \in DOMAIN nodes : nodes'[j].kind = nodes[j].kind
      /\ \A j \in DOMAIN nodes \ {x} : nodes'[j] = nodes[j]
      /\ WellFormed(nodes') /\ o # "refused" /\ nodes'[x].ends = Sent(x).ends
  BY UpdateEffect
<1>4. WellFormed(nodes) /\ DOMAIN nodes \subseteq Ids /\ DOMAIN nodes' \subseteq Ids
  BY <1>3, NodeFacts DEF Inv, NodeInv
<1>5. /\ i \in DOMAIN nodes /\ nodes[i].kind = KindOf(k) /\ i \in ModelData(nodes) /\ i \notin ModelData(nodes')
      /\ k \in DOMAIN idMapping /\ KindOf(k) \in Kinds
  BY <1>2, <1>3, <1>4, StruckFacts
<1>6. nodes[x].kind = "flow"
  BY <1>2, <1>3 DEF Inv, MapInv, DocKeys
<1>7. Under(nodes', 0) = Under(nodes, 0)
  <2>1. SameTree(nodes, nodes')
    BY <1>3, <1>6 DEF SameTree, Tree
  <2> QED
    BY <2>1, SameUnder
<1>8. i = x
  <2> SUFFICES ASSUME i # x
               PROVE  FALSE
    OBVIOUS
  <2>1. nodes'[i] = nodes[i] /\ i \in DOMAIN nodes'
    BY <1>3, <1>5
  <2>2. CASE nodes[i].kind \in Tree \union {"item"}
    BY <1>3, <1>4, <1>5, <1>7, <2>1, <2>2, DataCases
  <2>3. CASE nodes[i].kind = "flow"
    <3>1. i \in ModelData(nodes) <=> \E e \in {1, 2} : nodes[i].ends[e] \in Under(nodes, 0)
      BY <1>4, <1>5, <2>3, DataCases
    <3>2. i \in ModelData(nodes') <=> \E e \in {1, 2} : nodes'[i].ends[e] \in Under(nodes', 0)
      BY <1>3, <2>1, <2>3, DataCases
    <3> QED
      BY <1>5, <1>7, <2>1, <3>1, <3>2
  <2> QED
    BY <1>5, <2>2, <2>3 DEF Kinds, Tree
<1>9. k = x
  BY <1>2, <1>3, <1>5, <1>8 DEF Inv, MapInv
<1> DEFINE a == doc[x].node.ends[1]
<1>10. CASE a \notin entered
  BY <1>1, <1>2, <1>9, <1>10, EndMissing
<1>11. CASE a \in entered
  <2>1. KindOf(a) \in Tree
    BY <1>1, <1>2, ReadyFacts DEF DocKeys
  <2>2. nodes'[x].ends[1] = idMapping[a] /\ 1 \in DOMAIN nodes'[x].ends
    BY <1>2, <1>3 DEF MappedEnds
  <2>3. idMapping[a] \notin Under(nodes', 0)
    BY <1>3, <1>5, <1>6, <1>8, <2>2, DataCases
  <2> HIDE DEF a
  <2> QED
    BY <1>1, <1>2, <1>3, <1>9, <1>11, <2>1, <2>2, <2>3, EndLost
<1> QED
  BY <1>10, <1>11

\* A deletion.
LEMMA DeleteDamage ==
  ASSUME Inv, Inv', BlameInv, Reached', NEW d \in todo, NEW o \in {"ok", "refused"}, DeleteOrphan(d, o),
         nodes' # nodes, NEW k \in Struck
  PROVE  Excused(k)
<1> DEFINE i == idMapping[k]
<1>1. /\ pc = "orphans" /\ d \in existing \ processed /\ d # 0 /\ d \in Ids /\ doc' = doc /\ pc' = pc
      /\ idMapping' = idMapping /\ entered' = entered /\ blamed' = blamed /\ nodes' = Deleted(d)
  BY DeleteEffect
<1>2. /\ d \notin DOMAIN nodes' /\ DOMAIN nodes' \subseteq DOMAIN nodes /\ WellFormed(nodes')
      /\ \A n \in DOMAIN nodes \ {d} :
           nodes[n].kind = "flow" /\ nodes[n].ends[1] # d /\ nodes[n].ends[2] # d => n \in DOMAIN nodes'
      /\ \A n \in DOMAIN nodes' : nodes'[n].kind = nodes[n].kind /\ nodes'[n].ends = nodes[n].ends
  BY <1>1, DeletedFacts
<1>3. WellFormed(nodes) /\ DOMAIN nodes \subseteq Ids /\ DOMAIN nodes' \subseteq Ids
  BY <1>2, NodeFacts DEF Inv, NodeInv
<1>4. /\ i \in DOMAIN nodes /\ nodes[i].kind = KindOf(k) /\ i \in ModelData(nodes) /\ i \notin ModelData(nodes')
      /\ k \in DOMAIN idMapping /\ k \in DOMAIN doc /\ k # 0 /\ KindOf(k) \in Kinds
  BY <1>1, <1>2, <1>3, StruckFacts
<1>5. ASSUME k \in blamed
      PROVE  Excused(k)
  <2>1. DOMAIN DocNodes = DOMAIN doc
    BY DEF DocNodes
  <2>2. k \in Lines(DocNodes, k)
    BY <1>4, <2>1, UnderSelf, LinesIntro
  <2> QED
    BY <1>1, <1>5, <2>2, ExcusedIntro
<1>6. ASSUME NEW t \in entered, KindOf(t) # "flow"
      PROVE  idMapping[t] \in DOMAIN nodes' /\ idMapping[t] # d
  <2>1. KindOf(t)' # "flow" /\ t \in entered'
    BY <1>1, <1>6, SameDoc
  <2>2. idMapping'[t] \in DOMAIN nodes'
    BY <1>1, <2>1 DEF Inv, MapInv
  <2> QED
    BY <1>1, <1>2, <2>2
<1>7. CASE KindOf(k) \in Tree
  <2>1. CASE k \in entered
    <3>1. i \in DOMAIN nodes' /\ nodes'[i].kind \in Tree
      BY <1>2, <1>4, <1>6, <1>7, <2>1 DEF Tree
    <3>2. i \notin Under(nodes', 0)
      BY <1>2, <1>4, <3>1, DataCases
    <3>3. KindOf(k)' \in Tree
      BY <1>1, <1>7, SameDoc
    <3>4. Lines(nodes', i) \intersect blamed' # {}
      BY <1>1, <2>1, <3>2, <3>3 DEF Reached
    <3> QED
      BY <3>4 DEF Excused
  <2>2. CASE k \notin entered
    <3>1. Lines(DocNodes, k) \intersect blamed # {}
      BY <1>1, <1>4, <1>7, <2>2 DEF Inv, WorkInv, DocKeys
    <3> QED
      BY <1>1, <3>1 DEF Excused
  <2> QED
    BY <2>1, <2>2
<1>8. CASE KindOf(k) = "item"
  <2>1. CASE k \in entered
    <3>1. i \in DOMAIN nodes' /\ nodes'[i].kind = "item"
      BY <1>2, <1>4, <1>6, <1>8, <2>1
    <3> QED
      BY <1>2, <1>4, <3>1, DataCases
  <2>2. CASE k \notin entered
    <3>1. k \in blamed
      BY <1>1, <1>4, <1>8, <2>2 DEF Inv, WorkInv, DocKeys
    <3> QED
      BY <1>5, <3>1
  <2> QED
    BY <2>1, <2>2
<1>9. CASE KindOf(k) = "flow" /\ k \notin blamed
  <2>1. k \in DocKeys({"flow"})
    BY <1>4, <1>9 DEF DocKeys
  <2>2. ASSUME NEW e \in {1, 2}, doc[k].node.ends[e] \notin entered
        PROVE  Excused(k)
    BY <1>1, <2>1, <2>2, EndMissing
  <2>3. CASE \A e \in {1, 2} : doc[k].node.ends[e] \in entered
    <3> DEFINE a == doc[k].node.ends[1]
               b == doc[k].node.ends[2]
    <3>1. k \in entered
      BY <1>1, <1>9, <2>1, <2>3 DEF Inv, WorkInv
    <3>2. nodes[i].ends = <<idMapping[a], idMapping[b]>>
      BY <1>1, <1>4, <1>9, <3>1 DEF BlameInv, MappedEnds
    <3>3. a \in entered /\ b \in entered /\ KindOf(a) \in Tree /\ KindOf(b) \in Tree
      BY <1>1, <2>1, <2>3 DEF Inv, MapInv, Valid, DocKeys
    <3>4. i # d
      BY <1>1, <1>4, <3>1 DEF Inv, MapInv
    <3>5. idMapping[a] # d /\ idMapping[b] # d
      BY <1>6, <3>3 DEF Tree
    <3> HIDE DEF a, b
    <3>6. nodes[i].ends[1] = idMapping[a] /\ nodes[i].ends[2] = idMapping[b]
      BY <3>2
    <3>7. i \in DOMAIN nodes' /\ nodes'[i].ends = nodes[i].ends /\ nodes'[i].kind = "flow"
      BY <1>2, <1>4, <1>9, <3>4, <3>5, <3>6
    <3>8. idMapping[a] \notin Under(nodes', 0) /\ 1 \in DOMAIN nodes'[i].ends
      BY <1>2, <1>4, <3>6, <3>7, DataCases
    <3> QED
      BY <1>1, <3>3, <3>6, <3>7, <3>8, EndLost
  <2> QED
    BY <2>2, <2>3
<1> QED
  BY <1>4, <1>5, <1>7, <1>8, <1>9 DEF Kinds, Tree

\* What changes no kind, parent or ends strikes nothing.
LEMMA NothingStruck ==
  ASSUME Inv, DOMAIN nodes \subseteq DOMAIN nodes',
         \A i \in DOMAIN nodes : /\ nodes'[i].kind = nodes[i].kind /\ nodes'[i].parent = nodes[i].parent
                                 /\ nodes'[i].ends = nodes[i].ends
  PROVE  Struck = {}
<1>1. WellFormed(nodes) /\ DOMAIN nodes \subseteq Ids
  BY NodeFacts DEF Inv, NodeInv
<1>2. ModelData(nodes) \subseteq ModelData(nodes')
  BY <1>1, DataGrows
<1> QED
  BY <1>2 DEF Struck

LEMMA UpdateDamage ==
  ASSUME Inv, Inv', BlameInv', Reached', NEW x \in todo, NEW o \in {"ok", "lost", "refused"}, Update(x, o),
         nodes' # nodes, NEW k \in Struck
  PROVE  Excused(k)
<1>1. x \in DOMAIN doc /\ Ready(x)
  BY ReadyFacts DEF Update
<1>2. KindOf(x) \in Kinds \union {"root"}
  BY <1>1, DocFacts DEF KindOf, NodeOf
<1>3. CASE KindOf(x) \in Tree
  BY <1>3, MoveDamage
<1>4. CASE KindOf(x) = "flow"
  BY <1>4, RewireDamage
<1>5. CASE KindOf(x) \in {"item", "root"}
  <2>1. /\ x \in DOMAIN nodes /\ idMapping[x] = x /\ DOMAIN nodes' = DOMAIN nodes
        /\ \A j \in DOMAIN nodes : nodes'[j].kind = nodes[j].kind
        /\ \A j \in DOMAIN nodes \ {x} : nodes'[j] = nodes[j]
        /\ nodes'[x].kind = KindOf(x) /\ WellFormed(nodes')
    BY UpdateEffect
  <2>2. WellFormed(nodes)
    BY DEF Inv, NodeInv
  <2>3. nodes'[x].parent = 0 /\ nodes[x].parent = 0 /\ nodes'[x].ends = Empty /\ nodes[x].ends = Empty
    BY <1>5, <2>1, <2>2 DEF WellFormed, Tree
  <2>4. Struck = {}
    BY <2>1, <2>3, NothingStruck
  <2> QED
    BY <2>4
<1> QED
  BY <1>2, <1>3, <1>4, <1>5 DEF Kinds, Tree

LEMMA StepDamage ==
  ASSUME Inv, Inv', BlameInv, BlameInv', Reached', Next, nodes' # nodes, NEW k \in Struck
  PROVE  Excused(k)
<1>1. PushStep
  <2>1. Start => nodes' = nodes
    BY DEF Start
  <2>2. Die => nodes' = nodes
    BY DEF Die
  <2>3. Edits => nodes' = nodes
    BY DEF Edits, Add, Remove, Change, Move, Retarget, Connect, Edit
  <2> QED
    BY <2>1, <2>2, <2>3 DEF Next
<1>2. NextPhase => nodes' = nodes
  BY DEF NextPhase, Goto
<1>3. Give \/ (\E o \in {"ok", "refused"} : WriteBack(o)) => nodes' = nodes
  BY DEF Give, WriteBack
<1>4. \A x \in todo : SkipFlow(x) \/ (\E o \in {"ok", "lost", "refused"} : WriteConduits(x, o)) => nodes' = nodes
  BY DEF SkipFlow, WriteConduits
<1>5. ASSUME NEW x \in todo, NEW o \in {"ok", "lost", "refused"},
             \/ UpdateDefaultBoundary(x, o) \/ UpdateDataItem(x, o) \/ UpdateBoundary(x, o)
             \/ UpdateComponent(x, o) \/ UpdateDataFlow(x, o)
      PROVE  Excused(k)
  <2>1. Update(x, o)
    BY <1>5 DEF UpdateDefaultBoundary, UpdateDataItem, UpdateBoundary, UpdateComponent, UpdateDataFlow
  <2> QED
    BY <2>1, UpdateDamage
<1>6. ASSUME NEW x \in todo, NEW o \in {"ok", "lost", "refused"},
             \/ CreateDataItem(x, o) \/ CreateBoundary(x, o) \/ CreateComponent(x, o) \/ CreateDataFlow(x, o)
      PROVE  Excused(k)
  <2>1. Create(x, o)
    BY <1>6 DEF CreateDataItem, CreateBoundary, CreateComponent, CreateDataFlow
  <2>2. DOMAIN nodes \subseteq DOMAIN nodes' /\ \A i \in DOMAIN nodes : nodes'[i] = nodes[i]
    BY <2>1, CreateEffect
  <2>3. Struck = {}
    BY <2>2, NothingStruck
  <2> QED
    BY <2>3
<1>7. ASSUME NEW d \in todo, NEW o \in {"ok", "refused"}, DeleteOrphan(d, o)
      PROVE  Excused(k)
  BY <1>7, DeleteDamage
<1>8. ASSUME NEW w \in queue, NEW o \in {"ok", "refused"}, WriteAnswers(w, o)
      PROVE  Excused(k)
  <2>1. Struck = {}
    BY <1>8, AnswersEffect, NothingStruck
  <2> QED
    BY <2>1
<1> QED
  BY <1>1, <1>2, <1>3, <1>4, <1>5, <1>6, <1>7, <1>8 DEF PushStep

\* Whatever fails, an element that the documents name leaves the model only
\* in a push in which it, something it lies in or an end of it could not be
\* created or updated: no failure elsewhere in DtUpdate.updateModel, and no
\* deletion of an orphan, costs it.
THEOREM DamageStaysLocal == Spec => DamageIsLocal
<1>1. Inv /\ Inv' /\ BlameInv /\ BlameInv' /\ Reached' /\ [Next]_vars =>
        [nodes' # nodes =>
           \A k \in Struck : (Lines(DocNodes, k) \union Lines(nodes', idMapping[k])) \intersect blamed' # {}]_vars
  <2> SUFFICES ASSUME Inv, Inv', BlameInv, BlameInv', Reached', [Next]_vars, nodes' # nodes, NEW k \in Struck
               PROVE  Excused(k)
    BY DEF Excused
  <2>1. Next
    BY DEF vars
  <2> QED
    BY <2>1, StepDamage
<1> QED
  BY <1>1, InvHolds, BlameHolds, InvReached, PTL DEF Spec, DamageIsLocal
=============================================================================
