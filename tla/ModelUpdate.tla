---------------------------- MODULE ModelUpdate ----------------------------
(***************************************************************************)
(* A push of a whole model directory to the platform: the update_model     *)
(* tool of apps/dethereal over DtUpdate.updateModel of                     *)
(* packages/dt-core/src/dt-update, with its default options (orphans are   *)
(* deleted, the directory is written back).  The push fetches the model,   *)
(* updates or creates every element of the documents, reconciles the       *)
(* conduits, writes the queued answers, deletes what the documents do not  *)
(* name and, when nothing failed, replaces the documents by an export.     *)
(*                                                                         *)
(* Every platform call is a step and may fail: refused, or carried out     *)
(* with the answer lost (no mutation is retried).  The process may die at  *)
(* any step.  Between two pushes the operator edits the documents; the     *)
(* directory is written back in one step.                                  *)
(*                                                                         *)
(* Elements of a document are written in any order that puts a parent      *)
(* before its children, of which the recursion over the JSON is one.  A    *)
(* key of a document is a server id or a local reference id.  Id 0 is the  *)
(* default boundary.                                                       *)
(***************************************************************************)
EXTENDS Naturals, FiniteSets, Bags

CONSTANTS
  Refs,          \* local reference ids
  RefKind,       \* what each of them names
  FirstNodes,    \* the model on the platform at the beginning
  FirstConduits, \* its conduits, pairs of boundaries
  Gone,          \* the parent of a child whose boundary was deleted
  MaxIds, MaxFaults, MaxEdits

Kinds == {"boundary", "component", "flow", "item"}
Ids == 0..MaxIds
Keys == Ids \union Refs
Vals == {0, 1}

Empty == [k \in {} |-> k]

\* Structural fields (val) and answers to the class (ans) only ever matter by
\* being equal.  A flow has two ends, other elements have a parent, and data
\* items belong to the model.
NodeOf(K, P) ==
  [kind : Kinds \union {"root"}, parent : P, ends : {Empty} \union (K \X K), val : Vals, ans : Vals]
Node == NodeOf(Ids, Ids \union {Gone})
Element == [node : NodeOf(Keys, Keys), peers : SUBSET Keys]

With(f, k, v) == [j \in DOMAIN f \union {k} |-> IF j = k THEN v ELSE f[j]]
Domain(kind, f) == {k \in DOMAIN f : f[k].kind = kind}
Tree == {"boundary", "component"}
Boundaries(N) == Domain("root", N) \union Domain("boundary", N)

\* What the schema says of the nodes of a model: id 0 is the root, elements are
\* in a boundary unless that was deleted, and flows run between components.
WellFormed(N) ==
  /\ 0 \in DOMAIN N
  /\ \A i \in DOMAIN N :
       /\ N[i] \in Node
       /\ N[i].kind = "root" <=> i = 0
       /\ IF N[i].kind \in Tree THEN N[i].parent \in Boundaries(N) \union {Gone} ELSE N[i].parent = 0
       /\ IF N[i].kind = "flow"
          THEN N[i].ends \in Domain("component", N) \X Domain("component", N)
          ELSE N[i].ends = Empty

ASSUME RefsAssumption == Refs \cap Ids = {} /\ Gone \notin Ids /\ RefKind \in [Refs -> Kinds]
ASSUME FirstAssumption ==
  /\ WellFormed(FirstNodes)
  /\ \E n \in Ids : DOMAIN FirstNodes = 0..n
  /\ \A c \in FirstConduits : c \in Boundaries(FirstNodes) \X Boundaries(FirstNodes) /\ c[1] # c[2]
ASSUME BoundsAssumption == MaxIds \in Nat /\ MaxFaults \in Nat /\ MaxEdits \in Nat

VARIABLES
  doc,        \* the model directory: the elements by key
  nodes,      \* the platform: the nodes by id
  conduits,   \* the CONDUIT edges, a bag of pairs
  minted      \* the last id the platform gave out

VARIABLES
  pc,         \* the phase of the push
  existing,   \* the ids fetched at its start
  base,       \* the conduits fetched at its start
  idMapping,  \* the server id of a key
  processed,  \* the ids this push updated or created
  entered,    \* the keys whose children are written
  todo,       \* keys, or ids, the phase has still to handle
  queue,      \* attribute writes: pairs of an id and answers
  errors      \* whether an error was recorded

push == <<pc, existing, base, idMapping, processed, entered, todo, queue, errors>>

VARIABLES
  faults, edits,   \* bounded counters of what the environment did
  blamed,     \* history: keys that were not created or not updated in this push
  spared      \* history: orphans of this push whose deletion failed

vars == <<doc, nodes, conduits, minted, push, faults, edits, blamed, spared>>

Phases == {"idle", "tree", "conduits", "flows", "answers", "orphans", "export"}

TypeOK ==
  /\ DOMAIN doc \subseteq Keys /\ \A k \in DOMAIN doc : doc[k] \in Element
  /\ DOMAIN nodes \subseteq Ids /\ \A i \in DOMAIN nodes : nodes[i] \in Node
  /\ IsABag(conduits) /\ BagToSet(conduits) \subseteq (DOMAIN nodes) \X (DOMAIN nodes)
  /\ minted \in Ids
  /\ pc \in Phases /\ errors \in BOOLEAN
  /\ existing \subseteq Ids /\ base \subseteq Ids \X Ids /\ processed \subseteq Ids
  /\ DOMAIN idMapping \subseteq Keys /\ \A k \in DOMAIN idMapping : idMapping[k] \in Ids
  /\ entered \subseteq Keys /\ todo \subseteq Keys /\ queue \subseteq Ids \X Vals
  /\ faults \in 0..MaxFaults /\ edits \in 0..MaxEdits
  /\ blamed \subseteq Keys /\ spared \subseteq Ids
-----------------------------------------------------------------------------
\* By BELONGS_TO: the boundaries inside an element, the least set that holds
\* the boundaries whose parent is the element or in the set, and with the
\* components in them and the element itself, all that lies under it.
Inside(N, r) ==
  LET all == Domain("boundary", N)
  IN  {b \in all : \A S \in SUBSET all :
         (\A j \in all : N[j].parent \in S \union {r} => j \in S) => b \in S}
Under(N, r) ==
  LET inside == Inside(N, r)
  IN  {r} \union {i \in DOMAIN N : N[i].kind \in Tree /\ N[i].parent \in inside \union {r}}
\* What getModelData returns: the descendants, the data flows that touch a
\* component among them and the data items of the model.
ModelData(N) ==
  LET tree == Under(N, 0)
  IN  tree \union Domain("item", N)
        \union {f \in Domain("flow", N) :
                  \E e \in {1, 2} : N[f].ends[e] \in tree \intersect Domain("component", N)}

\* The documents an export writes.
Export(N, C) ==
  LET data == ModelData(N)
  IN  [k \in data |-> [node |-> N[k], peers |-> {b \in data : <<k, b>> \in BagToSet(C)}]]

KindOf(k) == doc[k].node.kind
DocNodes == [k \in DOMAIN doc |-> doc[k].node]
DocKeys(kinds) == {k \in DOMAIN doc : KindOf(k) \in kinds}

Init ==
  /\ nodes = FirstNodes
  /\ conduits = SetToBag(FirstConduits)
  /\ doc = Export(nodes, conduits)
  /\ minted = Cardinality(DOMAIN FirstNodes) - 1
  /\ pc = "idle" /\ existing = {} /\ base = {} /\ idMapping = Empty
  /\ processed = {} /\ entered = {} /\ todo = {} /\ queue = {} /\ errors = FALSE
  /\ faults = 0 /\ edits = 0 /\ blamed = {} /\ spared = {}

Return ==
  /\ pc' = "idle" /\ existing' = {} /\ base' = {} /\ idMapping' = Empty
  /\ processed' = {} /\ entered' = {} /\ todo' = {} /\ queue' = {} /\ errors' = FALSE
  /\ blamed' = {} /\ spared' = {}

\* A step that goes wrong costs a fault.
Outcome(outcome) ==
  IF outcome = "ok" THEN faults' = faults
  ELSE faults < MaxFaults /\ faults' = faults + 1
-----------------------------------------------------------------------------
(* The push                                                                *)

\* validateSplitModel: a flow's ends are in the structure.  (It would take a
\* boundary, the schema does not, and the operator writes none.)
Valid == \A f \in DocKeys({"flow"}) : \A e \in {1, 2} : doc[f].node.ends[e] \in DocKeys(Tree)

\* fetchExistingModelStructure.
Start ==
  /\ pc = "idle" /\ Valid
  /\ existing' = ModelData(nodes) \ {0}
  /\ base' = BagToSet(conduits)
  /\ idMapping' = [i \in ModelData(nodes) |-> i]
  /\ processed' = {} /\ entered' = {0} /\ queue' = {} /\ errors' = FALSE
  /\ pc' = "tree" /\ todo' = DocKeys(Tree \union {"item", "root"})
  /\ UNCHANGED <<doc, nodes, conduits, minted, faults, edits, blamed, spared>>

\* Data items come first, then the default boundary, then the tree: an
\* element after the boundary it is in, if that was reached.
Ready(k) ==
  /\ k \in todo
  /\ \/ pc = "tree" /\ KindOf(k) = "item"
     \/ pc = "tree" /\ k = 0 /\ todo \intersect DocKeys({"item"}) = {}
     \/ /\ pc = "tree" /\ KindOf(k) \in Tree /\ doc[k].node.parent \in entered
        /\ todo \intersect DocKeys({"item", "root"}) = {}
     \/ /\ pc = "flows"
        /\ \A e \in {1, 2} : doc[k].node.ends[e] \in DOMAIN idMapping

\* Mutant: the parent is sent as the file has it.
SentRaw(k) ==
  LET node == doc[k].node
  IN  [node EXCEPT
         !.ends = IF node.kind = "flow" THEN <<idMapping[@[1]], idMapping[@[2]]>> ELSE @]
\* The element as it is sent, its references mapped.
Sent(k) ==
  LET node == doc[k].node
  IN  [node EXCEPT
         !.parent = IF node.kind \in Tree THEN idMapping[@] ELSE @,
         !.ends = IF node.kind = "flow" THEN <<idMapping[@[1]], idMapping[@[2]]>> ELSE @]

\* Mutant: an element whose update failed is not recorded as processed.
UpdateOrForget(k, outcome) ==
  /\ Ready(k) /\ k \in existing \union {0} /\ Outcome(outcome)
  /\ nodes' = IF outcome = "refused" THEN nodes
              ELSE [nodes EXCEPT ![k] = [Sent(k) EXCEPT !.ans = nodes[k].ans]]
  /\ queue' = IF outcome = "ok" /\ k # 0 THEN queue \union {<<k, doc[k].node.ans>>} ELSE queue
  /\ errors' = (errors \/ outcome # "ok")
  /\ blamed' = IF outcome = "refused" THEN blamed \union {k} ELSE blamed
  /\ processed' = IF outcome = "ok" THEN processed \union {k} ELSE processed
  /\ entered' = entered \union {k}
  /\ todo' = todo \ {k}
  /\ UNCHANGED <<doc, conduits, minted, pc, existing, base, idMapping, edits, spared>>

\* updateDefaultBoundary, updateDataItems, updateBoundary, updateComponent,
\* updateDataFlow: an element that exists counts as processed whatever
\* happens.  "lost": it is written, and its binding is refused or an answer
\* is lost, so its answers are not queued.  Those of the default boundary
\* never are.
Update(k, outcome) ==
  /\ Ready(k) /\ k \in existing \union {0} /\ Outcome(outcome)
  /\ nodes' = IF outcome = "refused" THEN nodes
              ELSE [nodes EXCEPT ![k] = [Sent(k) EXCEPT !.ans = nodes[k].ans]]
  /\ queue' = IF outcome = "ok" /\ k # 0 THEN queue \union {<<k, doc[k].node.ans>>} ELSE queue
  /\ errors' = (errors \/ outcome # "ok")
  /\ blamed' = IF outcome = "refused" THEN blamed \union {k} ELSE blamed
  /\ processed' = processed \union {k}
  /\ entered' = entered \union {k}
  /\ todo' = todo \ {k}
  /\ UNCHANGED <<doc, conduits, minted, pc, existing, base, idMapping, edits, spared>>

\* createDataItem, createBoundary, createComponent, createDataFlow.  A
\* create that was lost leaves a node that nobody knows of; its answers are
\* queued when only the follow-up update failed.
Create(k, outcome) ==
  /\ Ready(k) /\ k \notin existing \union {0} /\ Outcome(outcome)
  /\ minted < MaxIds
  /\ LET id == minted + 1
         answers == {<<id, doc[k].node.ans>>}
     IN  \/ /\ outcome = "refused"
            /\ UNCHANGED <<nodes, minted, queue, idMapping, processed, entered>>
         \/ /\ outcome = "lost"
            /\ nodes' = With(nodes, id, [Sent(k) EXCEPT !.ans = 0]) /\ minted' = id
            /\ queue' \in {queue, queue \union answers}
            /\ UNCHANGED <<idMapping, processed, entered>>
         \/ /\ outcome = "ok"
            /\ nodes' = With(nodes, id, [Sent(k) EXCEPT !.ans = 0]) /\ minted' = id
            /\ queue' = queue \union answers
            /\ idMapping' = With(idMapping, k, id)
            /\ processed' = processed \union {id} /\ entered' = entered \union {k}
  /\ errors' = (errors \/ outcome # "ok")
  /\ blamed' = IF outcome = "ok" THEN blamed ELSE blamed \union {k}
  /\ todo' = todo \ {k}
  /\ UNCHANGED <<doc, conduits, pc, existing, base, edits, spared>>

\* The handlers of the kinds.
UpdateDefaultBoundary(k, outcome) == k \in DocKeys({"root"}) /\ Update(k, outcome)
UpdateDataItem(k, outcome) == k \in DocKeys({"item"}) /\ Update(k, outcome)
UpdateBoundary(k, outcome) == k \in DocKeys({"boundary"}) /\ Update(k, outcome)
UpdateComponent(k, outcome) == k \in DocKeys({"component"}) /\ Update(k, outcome)
UpdateDataFlow(k, outcome) == k \in DocKeys({"flow"}) /\ Update(k, outcome)
CreateDataItem(k, outcome) == k \in DocKeys({"item"}) /\ Create(k, outcome)
CreateBoundary(k, outcome) == k \in DocKeys({"boundary"}) /\ Create(k, outcome)
CreateComponent(k, outcome) == k \in DocKeys({"component"}) /\ Create(k, outcome)
CreateDataFlow(k, outcome) == k \in DocKeys({"flow"}) /\ Create(k, outcome)

\* A flow with an end that has no server id is an error and is left out.
SkipFlow(k) ==
  /\ pc = "flows" /\ k \in todo /\ ~Ready(k)
  /\ todo' = todo \ {k} /\ errors' = TRUE
  /\ UNCHANGED <<doc, nodes, conduits, minted, pc, existing, base, idMapping, processed,
                 entered, queue, faults, edits, blamed, spared>>

\* The peers a boundary is to have: mapped, and not about to be deleted.
Peers(k) ==
  {idMapping[p] : p \in doc[k].peers \intersect DOMAIN idMapping}
    \ ((existing \ processed) \union {idMapping[k]})

\* Mutant: every peer is connected, those it has already too.
ConnectAll(k, outcome) ==
  LET host == idMapping[k]
      kept == {c \in BagToSet(conduits) : c[1] # host \/ c[2] \in Peers(k)}
  IN  /\ pc = "conduits" /\ k \in todo /\ Outcome(outcome)
      /\ conduits' = IF outcome = "refused" THEN conduits
                     ELSE [c \in kept |-> conduits[c]] (+) SetToBag({<<host, b>> : b \in Peers(k)})
      /\ errors' = (errors \/ outcome # "ok")
      /\ todo' = todo \ {k}
      /\ UNCHANGED <<doc, nodes, minted, pc, existing, base, idMapping, processed, entered,
                     queue, edits, blamed, spared>>
\* writeConduitsForBoundary: the difference to what was fetched is written
\* from the outbound end; connect is not idempotent.
WriteConduits(k, outcome) ==
  LET host == idMapping[k]
      old == {b \in Ids : <<host, b>> \in base}
      kept == {c \in BagToSet(conduits) : c[1] # host \/ c[2] \notin old \ Peers(k)}
      added == {<<host, b>> : b \in Peers(k) \ old}
  IN  /\ pc = "conduits" /\ k \in todo /\ Outcome(outcome)
      /\ outcome # "ok" => old \union Peers(k) # {}
      /\ conduits' = IF outcome = "refused" THEN conduits
                     ELSE [c \in kept |-> conduits[c]] (+) SetToBag(added)
      /\ errors' = (errors \/ outcome # "ok")
      /\ todo' = todo \ {k}
      /\ UNCHANGED <<doc, nodes, minted, pc, existing, base, idMapping, processed, entered,
                     queue, edits, blamed, spared>>

\* runWithConcurrency over the queue: each element is in it once, so the
\* order of the writes does not matter.
WriteAnswers(w, outcome) ==
  /\ pc = "answers" /\ w \in queue /\ Outcome(outcome)
  /\ nodes' = IF outcome = "refused" THEN nodes ELSE [nodes EXCEPT ![w[1]].ans = w[2]]
  /\ errors' = (errors \/ outcome # "ok")
  /\ queue' = queue \ {w}
  /\ UNCHANGED <<doc, conduits, minted, pc, existing, base, idMapping, processed, entered,
                 todo, edits, blamed, spared>>

\* deleteOrphanedElements goes by kind.
Earlier(kind) ==
  CASE kind = "item" -> {}
    [] kind = "flow" -> {"item"}
    [] kind = "component" -> {"item", "flow"}
    [] kind = "boundary" -> {"item", "flow", "component"}

\* DELETE_COMPONENT takes the data flows of the component with it, and
\* DELETE_BOUNDARY leaves the children without a parent.
Deleted(i) ==
  LET left == {n \in DOMAIN nodes \ {i} :
                 nodes[i].kind = "component" =>
                   ~ \E e \in DOMAIN nodes[n].ends : nodes[n].ends[e] = i}
  IN  [n \in left |-> [nodes[n] EXCEPT !.parent = IF @ = i THEN Gone ELSE @]]

\* A deletion that fails returns false and nobody looks.
DeleteOrphan(i, outcome) ==
  /\ pc = "orphans" /\ i \in todo /\ Outcome(outcome)
  /\ ~ \E j \in todo : nodes[j].kind \in Earlier(nodes[i].kind)
  /\ \/ /\ outcome = "ok"
        /\ nodes' = Deleted(i)
        /\ conduits' = [c \in {d \in BagToSet(conduits) : i \notin {d[1], d[2]}} |-> conduits[c]]
        /\ spared' = spared
     \/ /\ outcome = "refused"
        /\ spared' = spared \union {i} /\ UNCHANGED <<nodes, conduits>>
  /\ todo' = todo \ {i}
  /\ UNCHANGED <<doc, minted, pc, existing, base, idMapping, processed, entered, queue,
                 errors, edits, blamed>>

Goto(phase, work) ==
  /\ pc' = phase /\ todo' = work
  /\ UNCHANGED <<doc, nodes, conduits, minted, existing, base, idMapping, processed,
                 entered, queue, errors, faults, edits, blamed, spared>>

\* The end of each phase; what lies under a boundary that was not created
\* is never reached.
NextPhase ==
  \/ /\ pc = "tree" /\ ~ \E k \in todo : Ready(k)
     /\ Goto("conduits", DocKeys({"root", "boundary"}) \intersect DOMAIN idMapping)
  \/ /\ pc = "conduits" /\ todo = {} /\ Goto("flows", DocKeys({"flow"}))
  \/ /\ pc = "flows" /\ todo = {} /\ Goto("answers", {})
  \/ /\ pc = "answers" /\ queue = {} /\ Goto("orphans", existing \ processed)
  \/ /\ pc = "orphans" /\ todo = {} /\ ~errors /\ Goto("export", {})

\* With an error recorded the documents stay as they are.
Give ==
  /\ pc = "orphans" /\ todo = {} /\ errors
  /\ Return
  /\ UNCHANGED <<doc, nodes, conduits, minted, faults, edits>>

\* Mutant: the documents get the server ids and are not read back.
RekeyOnly(outcome) ==
  /\ pc = "export" /\ Outcome(outcome)
  /\ doc' = IF outcome = "ok"
            THEN [i \in {idMapping[k] : k \in DOMAIN doc} |->
                   LET k == CHOOSE j \in DOMAIN doc : idMapping[j] = i
                   IN  [node |-> Sent(k),
                        peers |-> {idMapping[p] : p \in doc[k].peers}]]
            ELSE doc
  /\ Return
  /\ UNCHANGED <<nodes, conduits, minted, edits>>
\* An export that fails is a warning.
WriteBack(outcome) ==
  /\ pc = "export" /\ Outcome(outcome)
  /\ doc' = IF outcome = "ok" THEN Export(nodes, conduits) ELSE doc
  /\ Return
  /\ UNCHANGED <<nodes, conduits, minted, edits>>

\* The process dies, or something throws out of updateModel.
Die ==
  /\ pc # "idle" /\ Outcome("died")
  /\ Return
  /\ UNCHANGED <<doc, nodes, conduits, minted, edits>>
-----------------------------------------------------------------------------
(* The operator                                                            *)

Edit(d) ==
  /\ pc = "idle" /\ edits < MaxEdits /\ edits' = edits + 1
  /\ doc' = d
  /\ UNCHANGED <<nodes, conduits, minted, push, faults, blamed, spared>>

Places == DocKeys({"root", "boundary"})
Add(r) ==
  /\ r \notin DOMAIN doc
  /\ \E p \in Places, ends \in DocKeys({"component"}) \X DocKeys({"component"}) :
       LET kind == RefKind[r]
           node == [kind |-> kind, val |-> 1, ans |-> 1,
                    parent |-> IF kind \in Tree THEN p ELSE 0,
                    ends |-> IF kind = "flow" THEN ends ELSE Empty]
       IN  Edit(With(doc, r, [node |-> node, peers |-> {}]))

\* An element goes with all that is in it and the flows that touch it.
Remove(k) ==
  /\ k # 0
  /\ LET gone == Under(DocNodes, k)
         left == {j \in DOMAIN doc \ gone :
                    \A e \in DOMAIN doc[j].node.ends : doc[j].node.ends[e] \notin gone}
     IN  Edit([j \in left |-> [doc[j] EXCEPT !.peers = @ \ gone]])

Move(k, p) ==
  /\ KindOf(k) \in Tree /\ p \in Places /\ p \notin Under(DocNodes, k) /\ doc[k].node.parent # p
  /\ Edit([doc EXCEPT ![k].node.parent = p])

Change(k) ==
  LET node == doc[k].node
  IN  Edit([doc EXCEPT ![k].node = [node EXCEPT !.val = 1 - @, !.ans = 1 - @]])

Retarget(k, c) ==
  /\ KindOf(k) = "flow" /\ KindOf(c) = "component" /\ doc[k].node.ends[1] # c
  /\ Edit([doc EXCEPT ![k].node.ends[1] = c])

Connect(a, b) ==
  /\ {a, b} \subseteq Places /\ a # b
  /\ Edit([doc EXCEPT ![a].peers = IF b \in @ THEN @ \ {b} ELSE @ \union {b}])

Edits ==
  \/ \E r \in Refs : Add(r)
  \/ \E k \in DOMAIN doc :
       \/ Remove(k) \/ Change(k)
       \/ \E j \in DOMAIN doc : Move(k, j) \/ Retarget(k, j) \/ Connect(k, j)

PushStep ==
  \/ \E k \in todo :
       \/ \E o \in {"ok", "lost", "refused"} :
            \/ UpdateDefaultBoundary(k, o) \/ UpdateDataItem(k, o) \/ UpdateBoundary(k, o)
            \/ UpdateComponent(k, o) \/ UpdateDataFlow(k, o)
            \/ CreateDataItem(k, o) \/ CreateBoundary(k, o) \/ CreateComponent(k, o)
            \/ CreateDataFlow(k, o)
            \/ WriteConduits(k, o)
       \/ SkipFlow(k)
       \/ \E o \in {"ok", "refused"} : DeleteOrphan(k, o)
  \/ \E w \in queue, o \in {"ok", "refused"} : WriteAnswers(w, o)
  \/ NextPhase \/ Give
  \/ \E o \in {"ok", "refused"} : WriteBack(o)

Next == Start \/ PushStep \/ Die \/ Edits

Spec == Init /\ [][Next]_vars

\* A push runs to its end, and the operator pushes again.
FairSpec == Spec /\ WF_vars(PushStep) /\ WF_vars(Start)
-----------------------------------------------------------------------------
(* Properties                                                              *)

\* A push without errors leaves the platform as the documents say, for every
\* kind of element, with each conduit once and nothing besides but orphans
\* whose deletion failed.  (The answers of the default boundary are not
\* written by updateDefaultBoundary and are left out.)
SuccessMeansSynced ==
  pc = "export" =>
    /\ DOMAIN doc \subseteq DOMAIN idMapping
    /\ LET synced == {idMapping[k] : k \in DOMAIN doc}
       IN  synced \subseteq ModelData(nodes) /\ ModelData(nodes) \subseteq synced \union spared
    /\ \A k \in DOMAIN doc \ {0} : nodes[idMapping[k]] = Sent(k)
    /\ nodes[0].val = doc[0].node.val
    /\ \A a \in DocKeys({"root", "boundary"}), b \in DocKeys({"root", "boundary"}) :
         LET c == <<idMapping[a], idMapping[b]>>
         IN  IF b \in doc[a].peers THEN c \in BagToSet(conduits) /\ conduits[c] = 1
                                   ELSE c \notin BagToSet(conduits)

\* The elements of the documents that a step of the push takes out of the
\* model on the platform.
Struck ==
  LET before == ModelData(nodes)
      after == ModelData(nodes')
  IN  {k \in DOMAIN doc \intersect DOMAIN idMapping : idMapping[k] \in before \ after}

\* No step of a push takes an element that the documents name out of the
\* model: "the item EXISTS, so it must not become an orphan-delete target even
\* if the update itself failed" (dt-update.ts, updateDataItems).
NamedElementsSurvive == [][nodes' # nodes => Struck = {}]_vars

\* What an element depends on to stay in the model: itself, the boundaries it
\* is in but for the default one and, of a flow, its ends with theirs.
Lines(N, i) ==
  {n \in DOMAIN N \ {0} : \E j \in Under(N, n) :
     \/ j = i
     \/ i \in DOMAIN N /\ \E e \in DOMAIN N[i].ends : N[i].ends[e] = j}

\* Deletion by absence and failure by element do not mix: an element that the
\* documents name leaves the model during a push only if in this push it, a
\* boundary it is in or an end of it, by the documents or on the platform,
\* could not be created or updated; failures of other elements, of conduits,
\* answers and deletions never cost it.
DamageIsLocal ==
  [][nodes' # nodes =>
       \A k \in Struck : (Lines(DocNodes, k) \union Lines(nodes', idMapping[k])) \intersect blamed' # {}]_vars

\* An operator who stops editing and keeps pushing ends up with documents and
\* platform that agree, whatever calls failed, answers got lost or pushes
\* died before: nothing is created again and again, and no leftover stays.
EventuallySynced ==
  <>[](pc = "idle" => Valid /\ doc = Export(nodes, conduits))
=============================================================================
