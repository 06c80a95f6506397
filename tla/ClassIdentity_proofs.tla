------------------------- MODULE ClassIdentity_proofs -------------------------
(*****************************************************************************)
(* Every safety property the runs check of ClassIdentity, for any number of  *)
(* modules, classes, elements, administrators and releases: types; what the  *)
(* clean-up and an install do to instances; that ids and names stay unique   *)
(* and duplicates do not return; that an authoritative install is exact; and *)
(* that a start skips only what is installed.                                *)
(*                                                                           *)
(* The argument has three layers.  OwnerInv: a node keeps its owner as long  *)
(* as anyone refers to it.  IdInv: ids are unique in the graph and in the    *)
(* open transaction's copy, and then applying a class comes down to putting  *)
(* one node in place (Placed), which neither undoes a class placed before    *)
(* nor touches another module's.  ExactInv: how far the transaction is       *)
(* through the declared list says what its copy holds; with it, the status   *)
(* and the hash on a Module node say what the graph holds (StatusInv).       *)
(*                                                                           *)
(* Conditions under which a property holds are definitions of their own, so  *)
(* that a theorem says what it needs: Snapshots, InitIdsDistinct,            *)
(* InitNamesDistinct, IdsGuarded and HashesStand.                            *)
(*****************************************************************************)
EXTENDS ClassIdentity, FiniteSetTheorems, TLAPS

----------------------------------------------------------------------------
(* Types *)

Graph == [Nodes -> NodeType]
Class == [owner : Modules, name : Names, id : Ids, live : BOOLEAN]

LEMMA NodeFacts ==
    ASSUME NEW w \in Graph, NEW n \in Nodes
    PROVE  /\ w[n] # NoNode => w[n] \in Class
           /\ w[n].live => w[n] # NoNode
           /\ w[n].owner \in Modules => w[n] # NoNode
           /\ w[n].name \in Names => w[n] # NoNode
           /\ w[n].live \in BOOLEAN
           /\ w[n] # NoNode <=> w[n].owner # NoModule
<1>1. NoModule \notin Modules /\ NoName \notin Names
  BY IdentityAssumption DEF IdentityAssumption
<1>2. w[n] = NoNode \/ w[n] \in Class
  BY DEF Graph, NodeType, Class
<1>3. NoNode.owner = NoModule /\ NoNode.name = NoName /\ NoNode.live = FALSE
  BY DEF NoNode
<1>4. CASE w[n] = NoNode
  BY <1>1, <1>3, <1>4
<1>5. CASE w[n] # NoNode
  <2>1. w[n] \in Class
    BY <1>2, <1>5
  <2>2. w[n].owner \in Modules /\ w[n].name \in Names /\ w[n].live \in BOOLEAN
    BY <2>1 DEF Class
  <2> QED
    BY <1>1, <1>5, <2>1, <2>2
<1> QED
  BY <1>4, <1>5

LEMMA SetLiveType ==
    ASSUME NEW w \in Graph, NEW m, NEW id, NEW live \in BOOLEAN
    PROVE  SetLive(w, m, id, live) \in Graph
<1>1. ASSUME NEW n \in Nodes
      PROVE  (IF n \in Owned(w, m, id) THEN [w[n] EXCEPT !.live = live] ELSE w[n]) \in NodeType
  <2>1. CASE n \in Owned(w, m, id)
    <3>1. w[n] \in Class
      BY <2>1, NodeFacts DEF Owned, ById
    <3>2. [w[n] EXCEPT !.live = live] \in Class
      BY <3>1 DEF Class
    <3> QED
      BY <2>1, <3>2 DEF NodeType, Class
  <2>2. CASE n \notin Owned(w, m, id)
    BY <2>2 DEF Graph
  <2> QED
    BY <2>1, <2>2
<1> QED
  BY <1>1 DEF SetLive, Graph

LEMMA SetPropertiesType ==
    ASSUME NEW w \in Graph, NEW cls \in Entries
    PROVE  SetProperties(w, cls) \in Graph
<1>1. ASSUME NEW n \in Nodes
      PROVE  (IF n \in ById(w, cls.id) THEN [w[n] EXCEPT !.name = cls.name] ELSE w[n])
                \in NodeType
  <2>1. CASE n \in ById(w, cls.id)
    <3>1. w[n] \in Class
      BY <2>1, NodeFacts DEF ById
    <3>2. [w[n] EXCEPT !.name = cls.name] \in Class
      BY <3>1 DEF Class, Entries
    <3> QED
      BY <2>1, <3>2 DEF NodeType, Class
  <2>2. CASE n \notin ById(w, cls.id)
    BY <2>2 DEF Graph
  <2> QED
    BY <2>1, <2>2
<1> QED
  BY <1>1 DEF SetProperties, Graph

LEMMA SetIdType ==
    ASSUME NEW w \in Graph, NEW ns \in SUBSET Existing(w), NEW new \in Ids
    PROVE  SetId(w, ns, new) \in Graph
<1>1. ASSUME NEW n \in Nodes
      PROVE  (IF n \in ns THEN [w[n] EXCEPT !.id = new] ELSE w[n]) \in NodeType
  <2>1. CASE n \in ns
    <3>1. w[n] \in Class
      BY <2>1, NodeFacts DEF Existing
    <3>2. [w[n] EXCEPT !.id = new] \in Class
      BY <3>1 DEF Class
    <3> QED
      BY <2>1, <3>2 DEF NodeType, Class
  <2>2. CASE n \notin ns
    BY <2>2 DEF Graph
  <2> QED
    BY <2>1, <2>2
<1> QED
  BY <1>1 DEF SetId, Graph

LEMMA WithoutType ==
    ASSUME NEW w \in Graph, NEW ns
    PROVE  Without(w, ns) \in Graph
BY DEF Without, Graph, NodeType

LEMMA RevivedType ==
    ASSUME NEW w \in Graph, NEW n
    PROVE  Revived(w, n) \in Graph
BY SetLiveType DEF Revived

LEMMA CreateType ==
    ASSUME NEW w \in Graph, NEW m \in Modules, NEW cls \in Entries,
           NEW r \in CreateClass(w, m, cls)
    PROVE  r.w \in Graph /\ r.ok \in BOOLEAN
<1>1. PICK k \in FreeNodes(w) :
          r = Applied([w EXCEPT ![k] = [owner |-> m, name |-> cls.name, id |-> cls.id,
                                        live |-> TRUE]])
  BY DEF CreateClass
<1>2. [owner |-> m, name |-> cls.name, id |-> cls.id, live |-> TRUE] \in NodeType
  BY DEF NodeType, Entries
<1> QED
  BY <1>1, <1>2 DEF Applied, Graph, FreeNodes

LEMMA UpsertByNameType ==
    ASSUME NEW w \in Graph, NEW m \in Modules, NEW cls \in Entries, NEW n \in Nodes, NEW policy
    PROVE  /\ UpsertByName(w, m, cls, n, policy).w \in Graph
           /\ UpsertByName(w, m, cls, n, policy).ok \in BOOLEAN
<1>1. Revived(w, n) \in Graph
  BY RevivedType
<1>2. SetProperties(Revived(w, n), cls) \in Graph
  BY <1>1, SetPropertiesType
<1>3. Owned(w, m, w[n].id) \in SUBSET Existing(Revived(w, n))
  <2> SUFFICES ASSUME NEW k \in Owned(w, m, w[n].id)
               PROVE  k \in Existing(Revived(w, n))
    OBVIOUS
  <2>1. k \in Nodes /\ w[k] # NoNode /\ w[k].owner = m
    BY DEF Owned, ById
  <2>2. w[k] \in Class
    BY <2>1, NodeFacts
  <2>3. Revived(w, n)[k].owner = m
    BY <2>1, <2>2 DEF Revived, SetLive, Class
  <2> QED
    BY <1>1, <2>1, <2>3, NodeFacts DEF Existing
<1>4. SetId(Revived(w, n), Owned(w, m, w[n].id), cls.id) \in Graph
  BY <1>1, <1>3, SetIdType DEF Entries
<1>5. SetProperties(SetId(Revived(w, n), Owned(w, m, w[n].id), cls.id), cls) \in Graph
  BY <1>4, SetPropertiesType
<1> QED
  BY <1>2, <1>5 DEF UpsertByName, Rebind, Applied, Skipped

\* upsertClass leaves a graph.
LEMMA UpsertType ==
    ASSUME NEW w \in Graph, NEW m \in Modules, NEW cls \in Entries, NEW names, NEW policy,
           NEW r \in UpsertResults(w, m, cls, names, policy)
    PROVE  r.w \in Graph /\ r.ok \in BOOLEAN
<1>1. CASE ByName(w, m, cls.name) # {}
  <2>1. PICK n \in Nodes : r = UpsertByName(w, m, cls, n, policy)
    BY <1>1 DEF UpsertResults, ByName
  <2> QED
    BY <2>1, UpsertByNameType
<1>2. CASE ByName(w, m, cls.name) = {}
  <2>1. r \in UpsertById(w, m, cls, names)
    BY <1>2 DEF UpsertResults
  <2>2. CASE ById(w, cls.id) = {}
    BY <2>1, <2>2, CreateType DEF UpsertById
  <2>3. CASE ById(w, cls.id) # {}
    <3>1. PICK n \in Nodes : r = IF IsRename(w, m, n, names)
                                 THEN Applied(SetProperties(Revived(w, n), cls))
                                 ELSE Skipped(w)
      BY <2>1, <2>3 DEF UpsertById, ById
    <3>2. SetProperties(Revived(w, n), cls) \in Graph
      BY RevivedType, SetPropertiesType
    <3> QED
      BY <3>1, <3>2 DEF Applied, Skipped
  <2> QED
    BY <2>2, <2>3
<1> QED
  BY <1>1, <1>2

LEMMA MinExists ==
    ASSUME NEW S \in SUBSET Nat, S # {}
    PROVE  Min(S) \in S /\ \A y \in S : Min(S) <= y
<1>1. PICK x \in S : \A y \in S : ~(<<y, x>> \in OpToRel(<, Nat))
  BY WFMin, NatLessThanWellFounded
<1>2. ASSUME NEW y \in S
      PROVE  x <= y
  <2>1. x \in Nat /\ y \in Nat
    OBVIOUS
  <2>2. ~(y < x)
    <3>1. SUFFICES ASSUME y < x
                   PROVE  <<y, x>> \in OpToRel(<, Nat)
      BY <1>1
    <3>2. <<y, x>> \in Nat \X Nat /\ <<y, x>>[1] = y /\ <<y, x>>[2] = x
      BY <2>1
    <3> QED
      BY <3>1, <3>2 DEF OpToRel
  <2> QED
    BY <2>1, <2>2
<1> QED
  BY <1>2 DEF Min

LEMMA CanonicalMember ==
    ASSUME nodes \in Graph, NEW ns \in SUBSET Nodes, ns # {}
    PROVE  Canonical(ns) \in ns
<1> DEFINE pick == IF {n \in ns : nodes[n].live} = {} THEN ns ELSE {n \in ns : nodes[n].live}
<1>1. pick \in SUBSET Nat /\ pick # {} /\ pick \subseteq ns
  <2>1. MaxNodes \in Nat
    BY IdentityAssumption DEF IdentityAssumption
  <2>2. Nodes \subseteq Nat
    BY <2>1 DEF Nodes
  <2> QED
    BY <2>2
<1>2. Min(pick) \in pick
  BY <1>1, MinExists
<1> QED
  BY <1>1, <1>2 DEF Canonical

LEMMA DuplicateGroupsType ==
    ASSUME nodes \in Graph
    PROVE  DuplicateGroups \subseteq GroupType
<1> SUFFICES ASSUME NEW g \in DuplicateGroups
             PROVE  g \in GroupType
  OBVIOUS
<1>1. PICK n \in Existing(nodes) :
          LET ns == ByName(nodes, nodes[n].owner, nodes[n].name)
          IN  g = [canon |-> Canonical(ns), dups |-> ns \ {Canonical(ns)}]
  BY DEF DuplicateGroups
<1> DEFINE ns == ByName(nodes, nodes[n].owner, nodes[n].name)
<1>2. ns \in SUBSET Nodes /\ n \in ns
  BY <1>1 DEF ByName, Existing
<1>3. Canonical(ns) \in ns
  BY <1>2, CanonicalMember
<1> QED
  BY <1>1, <1>2, <1>3 DEF GroupType

LEMMA ReleaseFacts ==
    ASSUME NEW rel \in ReleaseType
    PROVE  /\ rel.decl \in Seq(Entries)
           /\ \A i \in 1..Len(rel.decl) : rel.decl[i] \in Entries
           /\ DOMAIN rel.decl = 1..Len(rel.decl) /\ Len(rel.decl) \in Nat
<1>1. rel.decl \in Seq(Entries)
  <2>1. CASE rel.decl = <<>>
    BY <2>1
  <2>2. CASE rel.decl # <<>>
    <3>1. PICK m \in Modules : rel.decl \in Shipped[m]
      BY <2>2 DEF ReleaseType
    <3> QED
      BY <3>1, IdentityAssumption DEF IdentityAssumption
  <2> QED
    BY <2>1, <2>2
<1> QED
  BY <1>1

LEMMA NoReleaseType == NoRelease \in ReleaseType
BY DEF NoRelease, ReleaseType

LEMMA FiniteSubset ==
    ASSUME NEW S \in SUBSET Modules
    PROVE  Cardinality(S) \in Nat
BY FS_Subset, FS_CardinalityType, IdentityAssumption DEF IdentityAssumption

RunType == [pc : {"idle", "modules", "sweep", "hooks"}, kind : {"none", "boot", "reset"},
            sweeps : BOOLEAN, valid : SUBSET Modules, present : SUBSET Modules,
            rels : [Modules -> ReleaseType], todo : SUBSET Modules, hooks : SUBSET Modules]

TxType == [pc : {"idle", "upsert", "count", "orphan", "delete"},
           m : Modules \cup {NoModule}, rel : ReleaseType, i : Nat,
           applied : Nat, failed : Nat, work : Graph, left : SUBSET Nodes, n : 0..MaxNodes]

ReqType == [pc : {"idle", "migrateCheck", "migrateWrite", "reviveWrite", "deleteCount",
                  "deleteWrite", "merge"},
            m : Modules \cup {NoModule}, name : Names \cup {NoName},
            old : Ids \cup {NoId}, new : Ids \cup {NoId},
            cascade : BOOLEAN, groups : SUBSET GroupType]

UsedType == [releases : 0..MaxReleases, resets : 0..MaxResets, stops : 0..MaxStops,
             fails : 0..MaxFails, requests : 0..MaxRequests, binds : 0..MaxBinds]

ModuleType == [status : Statuses, rel : ReleaseType]

\* TypeOK by its parts.
Types ==
    /\ disk \in [Modules -> ReleaseType] /\ up \in BOOLEAN /\ registry \subseteq Modules
    /\ nodes \in Graph /\ inst \in [Elements -> {Gone, Unbound} \cup Nodes]
    /\ module \in [Modules -> ModuleType]
    /\ run \in RunType /\ tx \in TxType /\ req \in [Admins -> ReqType]
    /\ bind \in [Elements -> Ids \cup {NoId}] /\ used \in UsedType

LEMMA TypeParts == Types <=> TypeOK
BY DEF Types, TypeOK, RunType, TxType, ReqType, UsedType, ModuleType, Graph

LEMMA Bounds ==
    /\ MaxReleases \in Nat /\ MaxResets \in Nat /\ MaxStops \in Nat /\ MaxFails \in Nat
    /\ MaxRequests \in Nat /\ MaxBinds \in Nat /\ MaxNodes \in Nat
BY IdentityAssumption DEF IdentityAssumption

LEMMA NoRunType == NoRun \in RunType
BY NoReleaseType DEF NoRun, RunType

LEMMA NoTxType == NoTx \in TxType
<1>1. [n \in Nodes |-> NoNode] \in Graph
  BY DEF Graph, NodeType
<1>2. 0 \in 0..MaxNodes
  BY Bounds
<1> HIDE DEF NodeType, NoNode, Graph
<1> QED
  BY <1>1, <1>2, NoReleaseType DEF NoTx, TxType

LEMMA NoReqType == NoReq \in ReqType
BY DEF NoReq, ReqType

LEMMA DetachedType ==
    ASSUME inst \in [Elements -> {Gone, Unbound} \cup Nodes], NEW w
    PROVE  Detached(w) \in [Elements -> {Gone, Unbound} \cup Nodes]
BY DEF Detached

LEMMA SpendType ==
    ASSUME used \in UsedType,
           \/ Spend("releases", MaxReleases) \/ Spend("resets", MaxResets)
           \/ Spend("stops", MaxStops) \/ Spend("fails", MaxFails)
           \/ Spend("requests", MaxRequests) \/ Spend("binds", MaxBinds)
    PROVE  used' \in UsedType
BY Bounds DEF Spend, UsedType

LEMMA InitTypes == Init => Types
<1> SUFFICES ASSUME Init
             PROVE  Types
  OBVIOUS
<1>1. nodes \in Graph
  <2>1. \A n \in Nodes : n <= Len(InitNodes) => InitNodes[n] \in NodeType
    <3> SUFFICES ASSUME NEW n \in Nodes, n <= Len(InitNodes)
                 PROVE  InitNodes[n] \in NodeType
      OBVIOUS
    <3>1. InitNodes \in Seq(Class)
      BY IdentityAssumption DEF IdentityAssumption, Class
    <3>2. n \in 1..Len(InitNodes)
      BY <3>1, Bounds DEF Nodes
    <3>3. InitNodes[n] \in Class
      BY <3>1, <3>2
    <3> QED
      BY <3>3 DEF NodeType, Class
  <2>2. NoNode \in NodeType
    BY DEF NodeType
  <2> QED
    BY <2>1, <2>2 DEF Init, Graph
<1>2. module \in [Modules -> ModuleType]
  BY NoReleaseType DEF Init, ModuleType, Statuses
<1>3. used \in UsedType
  BY Bounds DEF Init, UsedType
<1>4. req \in [Admins -> ReqType] /\ run \in RunType /\ tx \in TxType
  BY NoReqType, NoRunType, NoTxType DEF Init
<1> QED
  BY <1>1, <1>2, <1>3, <1>4, NoReleaseType DEF Init, Types

LEMMA OperateTypes ==
    ASSUME Types, Operate
    PROVE  Types'
<1>1. ASSUME NEW m \in Modules, Withdraw(m)
      PROVE  Types'
  <2>1. used' \in UsedType
    BY <1>1, SpendType DEF Withdraw, Types
  <2> QED
    BY <1>1, <2>1, NoReleaseType DEF Withdraw, Types, dbVars
<1>2. ASSUME NEW m \in Modules, Reset(m)
      PROVE  Types'
  <2>1. used' \in UsedType
    BY <1>2, SpendType DEF Reset, Types
  <2>2. run' \in RunType
    BY <1>2, NoReleaseType DEF Reset, Types, RunType, NoRun
  <2> QED
    BY <1>2, <2>1, <2>2 DEF Reset, Types, dbVars
<1>3. ASSUME NEW m \in Modules, NEW policy \in Policies, NEW decl \in Shipped[m],
             Release(m, decl, policy)
      PROVE  Types'
  <2>1. used' \in UsedType
    BY <1>3, SpendType DEF Release, Types
  <2>2. [on |-> TRUE, decl |-> decl, policy |-> policy] \in ReleaseType
    BY IdentityAssumption DEF ReleaseType, IdentityAssumption
  <2> QED
    BY <1>3, <2>1, <2>2 DEF Release, Types, dbVars
<1>4. ASSUME Halt, used' \in UsedType
      PROVE  Types'
  BY <1>4, NoRunType, NoTxType, NoReqType DEF Halt, Types, dbVars
<1>5. CASE Crash
  BY <1>4, <1>5, SpendType DEF Crash, Types
<1>6. CASE Restart
  BY <1>4, <1>6 DEF Restart, Types
<1> QED
  BY <1>1, <1>2, <1>3, <1>5, <1>6 DEF Operate

LEMMA StartTypes ==
    ASSUME Types, Start
    PROVE  Types'
<1>1. PICK lost \in Faulty("load"), nameless \in Faulty("metadata"), silent \in SUBSET OnDisk,
           force \in BOOLEAN : Boot(lost, nameless, silent, force)
  BY DEF Start
<1>2. OnDisk \subseteq Modules
  BY DEF OnDisk
<1>3. lost \subseteq Modules /\ nameless \subseteq Modules /\ silent \subseteq Modules
  BY <1>2 DEF Faulty
<1>4. used' \in UsedType
  <2>1. Cardinality(lost \cup nameless \cup silent) \in Nat
    BY <1>3, FiniteSubset
  <2> DEFINE c == Cardinality(lost \cup nameless \cup silent)
  <2>2. used' = [used EXCEPT !.fails = @ + c] /\ used'.fails <= MaxFails
    BY <1>1 DEF Boot
  <2> HIDE DEF c
  <2>3. c \in Nat
    BY <2>1 DEF c
  <2> QED
    BY <2>2, <2>3, Bounds DEF Types, UsedType
<1>5. registry' \subseteq Modules
  BY <1>1, <1>2, <1>3 DEF Boot
<1>6. run' \in RunType
  BY <1>1, <1>2, <1>3 DEF Boot, RunType, Types
<1> QED
  BY <1>1, <1>4, <1>5, <1>6 DEF Boot, Types, dbVars

\* What the program's steps say of each other: a transaction belongs to the run's
\* module phase, a count to one of the classes left, a migration to an id.
Steps ==
    /\ (tx.pc # "idle" => tx.m \in Modules /\ tx.i >= 1 /\ run.pc = "modules" /\ up)
    /\ (tx.pc \in {"orphan", "delete"} => tx.n \in tx.left)
    /\ \A a \in Admins :
          /\ (req[a].pc \in {"migrateCheck", "migrateWrite"} => req[a].new \in Ids)
          /\ (req[a].pc # "merge" => req[a].groups = {})
    /\ (run.pc # "idle" => up)

Typed == Types /\ Steps

LEMMA InitTyped == Init => Typed
BY InitTypes DEF Init, Typed, Steps, NoTx, NoReq, NoRun

LEMMA OperateTyped ==
    ASSUME Typed, Operate
    PROVE  Typed'
<1>1. Types'
  BY OperateTypes DEF Typed
<1>2. ASSUME NEW m \in Modules, Withdraw(m)
      PROVE  Steps'
  BY <1>2 DEF Withdraw, Typed, Steps
<1>3. ASSUME NEW m \in Modules, Reset(m)
      PROVE  Steps'
  BY <1>3 DEF Reset, Typed, Steps, NoRun
<1>4. ASSUME NEW m \in Modules, NEW policy \in Policies, NEW decl \in Shipped[m],
             Release(m, decl, policy)
      PROVE  Steps'
  BY <1>4 DEF Release, Typed, Steps
<1>5. CASE Halt
  <2>1. tx'.pc = "idle" /\ run'.pc = "idle"
    BY <1>5 DEF Halt, NoTx, NoRun
  <2>2. \A a \in Admins : req'[a] = req[a] \/ req'[a] = NoReq
    BY <1>5 DEF Halt
  <2>3. NoReq.pc = "idle" /\ NoReq.groups = {}
    BY DEF NoReq
  <2>4. ASSUME NEW a \in Admins
        PROVE  /\ (req'[a].pc \in {"migrateCheck", "migrateWrite"} => req'[a].new \in Ids)
               /\ (req'[a].pc # "merge" => req'[a].groups = {})
    BY <2>2, <2>3 DEF Typed, Steps
  <2> QED
    BY <1>1, <2>1, <2>4 DEF Typed, Steps
<1> QED
  BY <1>1, <1>2, <1>3, <1>4, <1>5 DEF Operate, Crash, Restart, Typed

LEMMA StartTyped ==
    ASSUME Typed, Start
    PROVE  Typed'
<1>1. Types'
  BY StartTypes DEF Typed
<1>2. PICK lost, nameless, silent, force : Boot(lost, nameless, silent, force)
  BY DEF Start
<1>3. Steps'
  BY <1>2 DEF Boot, Typed, Steps
<1> QED
  BY <1>1, <1>3 DEF Typed

\* The class an upsert is about.
LEMMA UpsertClass ==
    ASSUME Typed, tx.pc = "upsert", tx.i <= Len(tx.rel.decl)
    PROVE  /\ tx.m \in Modules /\ tx.work \in Graph /\ tx.rel \in ReleaseType
           /\ tx.i \in 1..Len(tx.rel.decl) /\ tx.i \in Nat /\ tx.rel.decl[tx.i] \in Entries
<1>1. tx.m \in Modules /\ tx.work \in Graph /\ tx.rel \in ReleaseType /\ tx.i \in Nat /\ tx.i >= 1
  BY DEF Typed, Types, Steps, TxType
<1>2. tx.i \in 1..Len(tx.rel.decl)
  BY <1>1, ReleaseFacts
<1> QED
  BY <1>1, <1>2, ReleaseFacts

LEMMA ReconciledType ==
    ASSUME NEW w \in Graph, NEW m, NEW n, NEW pc
    PROVE  Reconciled(w, m, n, pc) \in Graph
BY SetLiveType, WithoutType DEF Reconciled

LEMMA InstallTyped ==
    ASSUME Typed, Install
    PROVE  Typed'
<1>1. ASSUME NEW m \in Modules, BeginModule(m)
      PROVE  Typed'
  <2>1. run' \in RunType /\ run'.pc = run.pc /\ run.pc = "modules"
    BY <1>1 DEF BeginModule, Typed, Types, RunType
  <2>2. tx' \in TxType /\ tx'.pc = "upsert" /\ tx'.m = m /\ tx'.i = 1
    <3>1. run.rels[m] \in ReleaseType /\ nodes \in Graph
      BY DEF Typed, Types, RunType
    <3>2. NoTx \in TxType
      BY NoTxType
    <3>3. tx' = [NoTx EXCEPT !.pc = "upsert", !.m = m, !.rel = run.rels[m], !.i = 1,
                          !.work = nodes]
      BY <1>1 DEF BeginModule
    <3> HIDE DEF NoTx
    <3> QED
      BY <3>1, <3>2, <3>3 DEF TxType
  <2>3. Types'
    BY <1>1, <2>1, <2>2 DEF BeginModule, Typed, Types, dbVars
  <2> QED
    BY <1>1, <2>1, <2>2, <2>3 DEF BeginModule, Typed, Steps
<1>2. CASE Upsert
  <2> DEFINE cls == tx.rel.decl[tx.i]
  <2>1. PICK r \in UpsertResults(tx.work, tx.m, cls, DeclaredNames(tx.rel.decl), tx.rel.policy) :
            tx' = [tx EXCEPT !.i = @ + 1, !.work = r.w,
                             !.applied = IF r.ok THEN @ + 1 ELSE @]
    BY <1>2 DEF Upsert
  <2>2. r.w \in Graph
    BY <1>2, <2>1, UpsertClass, UpsertType DEF Upsert
  <2>3. tx' \in TxType /\ tx'.pc = tx.pc /\ tx'.m = tx.m /\ tx'.i = tx.i + 1
    <3> DEFINE w == r.w
               i == tx.i + 1
               k == IF r.ok THEN tx.applied + 1 ELSE tx.applied
    <3>1. w \in Graph /\ k \in Nat /\ i \in Nat
      BY <2>2 DEF Typed, Types, TxType
    <3>2. tx' = [tx EXCEPT !.i = i, !.work = w, !.applied = k]
      BY <2>1 DEF Typed, Types, TxType
    <3>3. tx \in TxType
      BY DEF Typed, Types
    <3>4. tx' \in TxType /\ tx'.pc = tx.pc /\ tx'.m = tx.m /\ tx'.i = i
      <4> HIDE DEF w, k, i
      <4> QED
        BY <3>1, <3>2, <3>3 DEF TxType
    <3> QED
      BY <3>4
  <2>4. Types' /\ UNCHANGED <<run, req, up>>
    BY <1>2, <2>3 DEF Upsert, Typed, Types, dbVars
  <2> QED
    BY <1>2, <2>3, <2>4, UpsertClass DEF Upsert, Typed, Steps
<1>3. CASE ListUndeclared
  <2>1. tx' \in TxType /\ tx'.pc = "count" /\ tx'.m = tx.m /\ tx'.i = tx.i
    BY <1>3 DEF ListUndeclared, Typed, Types, TxType, Undeclared
  <2>2. Types' /\ UNCHANGED <<run, req, up>>
    BY <1>3, <2>1 DEF ListUndeclared, Typed, Types, dbVars
  <2> QED
    BY <1>3, <2>1, <2>2 DEF ListUndeclared, Typed, Steps
<1>4. CASE CountInstances
  <2>1. PICK n \in tx.left :
          tx' = [tx EXCEPT !.n = n, !.pc = IF HasInstances(tx.work, tx.work[n].id)
                                           THEN "orphan" ELSE "delete"]
    BY <1>4 DEF CountInstances
  <2>2. n \in Nodes /\ n \in 0..MaxNodes
    BY Bounds DEF Typed, Types, TxType, Nodes
  <2>3. /\ tx' \in TxType /\ tx'.pc # "idle" /\ tx'.m = tx.m /\ tx'.i = tx.i
        /\ tx'.n = n /\ tx'.left = tx.left
    BY <2>1, <2>2 DEF Typed, Types, TxType
  <2>4. Types' /\ UNCHANGED <<run, req, up>>
    BY <1>4, <2>3 DEF CountInstances, Typed, Types, dbVars
  <2> QED
    BY <1>4, <2>3, <2>4 DEF CountInstances, Typed, Steps
<1>5. CASE Reconcile
  <2>1. Reconciled(tx.work, tx.m, tx.n, tx.pc) \in Graph
    BY ReconciledType DEF Typed, Types, TxType
  <2>2. tx' \in TxType /\ tx'.pc = "count" /\ tx'.m = tx.m /\ tx'.i = tx.i
    <3> DEFINE w == Reconciled(tx.work, tx.m, tx.n, tx.pc)
               l == tx.left \ {tx.n}
    <3>1. w \in Graph /\ l \in SUBSET Nodes /\ 0 \in 0..MaxNodes
      BY <2>1, Bounds DEF Typed, Types, TxType
    <3>2. tx' = [tx EXCEPT !.pc = "count", !.left = l, !.n = 0, !.work = w]
      BY <1>5 DEF Reconcile, Typed, Types, TxType
    <3> HIDE DEF w, l
    <3> QED
      BY <3>1, <3>2 DEF Typed, Types, TxType
  <2>3. Types' /\ UNCHANGED <<run, req, up>>
    BY <1>5, <2>2 DEF Reconcile, Typed, Types, dbVars
  <2> QED
    BY <1>5, <2>2, <2>3 DEF Reconcile, Typed, Steps
<1>6. CASE Commit
  <2>1. /\ tx.work \in Graph /\ tx.m \in Modules /\ tx.rel \in ReleaseType
        /\ module[tx.m].rel \in ReleaseType
    BY <1>6 DEF Commit, Typed, Types, Steps, TxType, ModuleType
  <2>2. InstallStatus \in Statuses /\ StoredHash \in ReleaseType
    BY <2>1 DEF InstallStatus, StoredHash, Statuses
  <2>3. module' \in [Modules -> ModuleType]
    BY <1>6, <2>1, <2>2 DEF Commit, Typed, Types, ModuleType
  <2>4. run' \in RunType /\ run'.pc = run.pc
    BY <1>6, <2>1 DEF Commit, Typed, Types, RunType
  <2>5. Types'
    BY <1>6, <2>1, <2>3, <2>4, NoTxType, DetachedType DEF Commit, Typed, Types
  <2> QED
    BY <1>6, <2>4, <2>5 DEF Commit, Typed, Steps, NoTx
<1>7. CASE ModulesDone
  <2>1. run' \in RunType /\ tx.pc = "idle" /\ run.pc = "modules"
    BY <1>7 DEF ModulesDone, Typed, Types, RunType
  <2>2. Types'
    BY <1>7, <2>1 DEF ModulesDone, Typed, Types, dbVars
  <2> QED
    BY <1>7, <2>1, <2>2 DEF ModulesDone, Typed, Steps
<1>8. CASE SweepObsolete
  <2>1. run' \in RunType /\ tx.pc = "idle" /\ run.pc = "sweep"
    BY <1>8 DEF SweepObsolete, Typed, Types, Steps, RunType
  <2>2. module' \in [Modules -> ModuleType]
    BY <1>8, NoReleaseType DEF SweepObsolete, Typed, Types, ModuleType, Statuses
  <2>3. Types'
    BY <1>8, <2>1, <2>2, WithoutType, DetachedType DEF SweepObsolete, Typed, Types
  <2> QED
    BY <1>8, <2>1, <2>3 DEF SweepObsolete, Typed, Steps
<1>9. ASSUME NEW failed \in SUBSET Modules, RunHooks(failed)
      PROVE  Typed'
  <2>1. used' \in UsedType
    <3> DEFINE c == Cardinality(failed)
    <3>1. c \in Nat
      BY FiniteSubset
    <3>2. used' = [used EXCEPT !.fails = @ + c] /\ used'.fails <= MaxFails
      BY <1>9 DEF RunHooks
    <3> HIDE DEF c
    <3> QED
      BY <3>1, <3>2, Bounds DEF Typed, Types, UsedType
  <2>2. module' \in [Modules -> ModuleType]
    BY <1>9 DEF RunHooks, Typed, Types, ModuleType, Statuses
  <2>3. Types' /\ tx.pc = "idle"
    BY <1>9, <2>1, <2>2, NoRunType DEF RunHooks, Typed, Types, Steps
  <2> QED
    BY <1>9, <2>3 DEF RunHooks, Typed, Steps, NoRun
<1> QED
  BY <1>1, <1>2, <1>3, <1>4, <1>5, <1>6, <1>7, <1>8, <1>9 DEF Install

LEMMA InstallFailsTyped ==
    ASSUME Typed, InstallFails
    PROVE  Typed'
<1>1. CASE UpsertThrows
  <2>1. tx' \in TxType /\ tx'.pc = tx.pc /\ tx'.m = tx.m /\ tx'.i = tx.i + 1 /\ tx.i \in Nat
    BY <1>1 DEF UpsertThrows, Typed, Types, TxType
  <2>2. Types'
    BY <1>1, <2>1, SpendType DEF UpsertThrows, Typed, Types, dbVars
  <2> QED
    BY <1>1, <2>1, <2>2 DEF UpsertThrows, Typed, Steps
<1>2. CASE ReconcileThrows
  <2>1. tx' \in TxType /\ tx'.pc = "count" /\ tx'.m = tx.m /\ tx'.i = tx.i
    <3> DEFINE l == tx.left \ {tx.n}
               f == tx.failed + 1
    <3>1. l \in SUBSET Nodes /\ f \in Nat /\ 0 \in 0..MaxNodes
      BY Bounds DEF Typed, Types, TxType
    <3>2. tx' = [tx EXCEPT !.pc = "count", !.left = l, !.n = 0, !.failed = f]
      BY <1>2 DEF ReconcileThrows, Typed, Types, TxType
    <3>3. tx \in TxType
      BY DEF Typed, Types
    <3> HIDE DEF l, f
    <3> QED
      BY <3>1, <3>2, <3>3 DEF TxType
  <2>2. Types'
    BY <1>2, <2>1, SpendType DEF ReconcileThrows, Typed, Types, dbVars
  <2> QED
    BY <1>2, <2>1, <2>2 DEF ReconcileThrows, Typed, Steps
<1>3. CASE Abort
  <2>1. Types'
    BY <1>3, SpendType, NoTxType DEF Abort, Typed, Types, dbVars
  <2> QED
    BY <1>3, <2>1 DEF Abort, Typed, Steps, NoTx
<1>4. CASE SweepThrows
  <2>1. run' \in RunType /\ tx.pc = "idle" /\ run.pc = "sweep"
    BY <1>4 DEF SweepThrows, Typed, Types, Steps, RunType
  <2>2. Types'
    BY <1>4, <2>1, SpendType DEF SweepThrows, Typed, Types, dbVars
  <2> QED
    BY <1>4, <2>1, <2>2 DEF SweepThrows, Typed, Steps
<1> QED
  BY <1>1, <1>2, <1>3, <1>4 DEF InstallFails

LEMMA AnswerTyped ==
    ASSUME Typed, NEW a \in Admins, Answer(a)
    PROVE  /\ req' \in [Admins -> ReqType] /\ req'[a] = NoReq
           /\ \A b \in Admins : b # a => req'[b] = req[b]
BY NoReqType DEF Answer, Typed, Types

\* An administrator's step changes its own request, and perhaps nodes and inst.
LEMMA AdministerTyped ==
    ASSUME Typed, NEW a \in Admins, Administer(a)
    PROVE  Typed'
<1>0. NoReq \in ReqType /\ req[a] \in ReqType /\ nodes \in Graph
  BY NoReqType DEF Typed, Types
<1>s. ASSUME req' \in [Admins -> ReqType],
             \A b \in Admins : b # a => req'[b] = req[b],
             req'[a].pc \in {"migrateCheck", "migrateWrite"} => req'[a].new \in Ids,
             req'[a].pc # "merge" => req'[a].groups = {},
             nodes' \in Graph, inst' \in [Elements -> {Gone, Unbound} \cup Nodes],
             used' \in UsedType, UNCHANGED <<disk, up, registry, module, run, tx, bind>>
      PROVE  Typed'
  <2>1. Types'
    BY <1>s DEF Typed, Types
  <2>2. Steps'
    BY <1>s DEF Typed, Steps
  <2> QED
    BY <2>1, <2>2 DEF Typed
<1>n. ASSUME Answer(a)
      PROVE  /\ req' \in [Admins -> ReqType] /\ \A b \in Admins : b # a => req'[b] = req[b]
             /\ (req'[a].pc \in {"migrateCheck", "migrateWrite"} => req'[a].new \in Ids)
             /\ (req'[a].pc # "merge" => req'[a].groups = {})
  BY <1>n, AnswerTyped DEF NoReq
<1>1. ASSUME NEW m \in Modules, NEW name \in Names, NEW new \in Ids, MigrateRead(a, m, name, new)
      PROVE  Typed'
  <2>1. PICK n \in ByName(nodes, m, name) :
          req' = [req EXCEPT ![a] = [NoReq EXCEPT !.pc = "migrateCheck", !.m = m,
                                          !.name = name, !.old = nodes[n].id, !.new = new]]
    BY <1>1 DEF MigrateRead
  <2>2. nodes[n].id \in Ids
    BY <1>0, NodeFacts DEF ByName, Class
  <2>3. [NoReq EXCEPT !.pc = "migrateCheck", !.m = m, !.name = name, !.old = nodes[n].id,
                      !.new = new] \in ReqType
    BY <1>0, <2>2 DEF ReqType, NoReq
  <2>4. used' \in UsedType
    BY <1>1, SpendType DEF MigrateRead, Typed, Types
  <2> QED
    BY <1>1, <1>s, <2>1, <2>3, <2>4 DEF MigrateRead, Typed, Types, dbVars, NoReq
<1>2. CASE MigrateCheck(a)
  <2>1. CASE MigrateRefused(req[a].m, req[a].new)
    BY <1>2, <1>n, <1>s, <2>1 DEF MigrateCheck, Typed, Types, dbVars
  <2>2. CASE ~MigrateRefused(req[a].m, req[a].new)
    <3>1. req' = [req EXCEPT ![a] = [req[a] EXCEPT !.pc = "migrateWrite"]]
      BY <1>2, <2>2 DEF MigrateCheck, Typed, Types
    <3>2. [req[a] EXCEPT !.pc = "migrateWrite"] \in ReqType
      BY <1>0 DEF ReqType
    <3>3. req[a].new \in Ids /\ req[a].groups = {}
      BY <1>2 DEF MigrateCheck, Typed, Steps
    <3> QED
      BY <1>0, <1>2, <1>s, <3>1, <3>2, <3>3 DEF MigrateCheck, Typed, Types, dbVars, ReqType
  <2> QED
    BY <2>1, <2>2
<1>3. CASE MigrateWrite(a)
  <2> DEFINE found == {n \in Owned(nodes, req[a].m, req[a].old) : nodes[n].name = req[a].name}
  <2>1. req[a].new \in Ids
    BY <1>3 DEF MigrateWrite, Typed, Steps
  <2>2. found \in SUBSET Existing(nodes)
    BY DEF Owned, ById, Existing
  <2>3. SetId(nodes, found, req[a].new) \in Graph
    BY <1>0, <2>1, <2>2, SetIdType
  <2>4. nodes' \in Graph
    BY <1>0, <1>3, <2>3 DEF MigrateWrite
  <2> QED
    BY <1>3, <1>n, <1>s, <2>4 DEF MigrateWrite, Typed, Types
<1>4. ASSUME NEW id \in Ids, ReviveRead(a, id)
      PROVE  Typed'
  <2>1. PICK n \in ById(nodes, id) :
          req' = [req EXCEPT ![a] = [NoReq EXCEPT !.pc = "reviveWrite",
                                          !.m = nodes[n].owner, !.old = id]]
    BY <1>4 DEF ReviveRead
  <2>2. nodes[n].owner \in Modules
    BY <1>0, NodeFacts DEF ById, Class
  <2>3. [NoReq EXCEPT !.pc = "reviveWrite", !.m = nodes[n].owner, !.old = id] \in ReqType
    BY <1>0, <2>2 DEF ReqType, NoReq
  <2>4. used' \in UsedType
    BY <1>4, SpendType DEF ReviveRead, Typed, Types
  <2> QED
    BY <1>4, <1>s, <2>1, <2>3, <2>4 DEF ReviveRead, Typed, Types, dbVars, NoReq
<1>5. CASE ReviveWrite(a)
  BY <1>0, <1>5, <1>n, <1>s, SetLiveType DEF ReviveWrite, Typed, Types
<1>6. ASSUME NEW id \in Ids, NEW cascade \in BOOLEAN, DeleteRead(a, id, cascade)
      PROVE  Typed'
  <2>1. [NoReq EXCEPT !.pc = "deleteCount", !.old = id, !.cascade = cascade] \in ReqType
    BY <1>0 DEF ReqType, NoReq
  <2>2. used' \in UsedType
    BY <1>6, SpendType DEF DeleteRead, Typed, Types
  <2> QED
    BY <1>6, <1>s, <2>1, <2>2 DEF DeleteRead, Typed, Types, dbVars, NoReq
<1>7. CASE DeleteCount(a)
  <2>1. CASE Answer(a)
    BY <1>7, <1>n, <1>s, <2>1 DEF DeleteCount, Typed, Types, dbVars
  <2>2. CASE ~Answer(a)
    <3>1. req' = [req EXCEPT ![a] = [req[a] EXCEPT !.pc = "deleteWrite"]]
      BY <1>7, <2>2 DEF DeleteCount, Typed, Types
    <3>2. [req[a] EXCEPT !.pc = "deleteWrite"] \in ReqType
      BY <1>0 DEF ReqType
    <3>3. req[a].groups = {}
      BY <1>7 DEF DeleteCount, Typed, Steps
    <3> QED
      BY <1>0, <1>7, <1>s, <3>1, <3>2, <3>3 DEF DeleteCount, Typed, Types, dbVars, ReqType
  <2> QED
    BY <2>1, <2>2
<1>8. CASE DeleteWrite(a)
  <2>1. nodes' \in Graph
    BY <1>0, <1>8, WithoutType DEF DeleteWrite
  <2>2. inst' \in [Elements -> {Gone, Unbound} \cup Nodes]
    BY <1>8 DEF DeleteWrite, Typed, Types
  <2> QED
    BY <1>8, <1>n, <1>s, <2>1, <2>2 DEF DeleteWrite, Typed, Types
<1>9. CASE DedupRead(a)
  <2>1. DuplicateGroups \in SUBSET GroupType
    BY <1>0, DuplicateGroupsType
  <2>2. [NoReq EXCEPT !.pc = "merge", !.groups = DuplicateGroups] \in ReqType
    BY <1>0, <2>1 DEF ReqType, NoReq
  <2>3. used' \in UsedType
    BY <1>9, SpendType DEF DedupRead, Typed, Types
  <2> QED
    BY <1>9, <1>s, <2>2, <2>3 DEF DedupRead, Typed, Types, dbVars, NoReq
<1>10. ASSUME NEW g \in req[a].groups, NextGroup(a, g), req[a].pc = "merge"
       PROVE  /\ req' \in [Admins -> ReqType] /\ \A b \in Admins : b # a => req'[b] = req[b]
              /\ (req'[a].pc \in {"migrateCheck", "migrateWrite"} => req'[a].new \in Ids)
              /\ (req'[a].pc # "merge" => req'[a].groups = {})
  <2> DEFINE rest == req[a].groups \ {g}
             next == IF rest = {} THEN NoReq ELSE [req[a] EXCEPT !.groups = rest]
  <2>1. next \in ReqType
    BY <1>0 DEF ReqType
  <2>2. req' = [req EXCEPT ![a] = next]
    BY <1>10 DEF NextGroup
  <2>3. next.pc = "merge" \/ next = NoReq
    BY <1>0, <1>10 DEF ReqType
  <2> HIDE DEF next
  <2> QED
    BY <2>1, <2>2, <2>3 DEF Typed, Types, NoReq
<1>11. ASSUME NEW g \in req[a].groups, MergeGroup(a, g)
       PROVE  Typed'
  <2>1. g \in GroupType
    BY <1>0 DEF ReqType
  <2>2. inst' \in [Elements -> {Gone, Unbound} \cup Nodes]
    BY <1>11, <2>1 DEF MergeGroup, Redirected, GroupType, Typed, Types
  <2>3. nodes' \in Graph
    BY <1>0, <1>11, WithoutType DEF MergeGroup
  <2> QED
    BY <1>10, <1>11, <1>s, <2>2, <2>3 DEF MergeGroup, Typed, Types
<1>12. ASSUME NEW g \in req[a].groups, MergeFails(a, g)
       PROVE  Typed'
  <2>1. used' \in UsedType
    BY <1>12, SpendType DEF MergeFails, Typed, Types
  <2> QED
    BY <1>10, <1>12, <1>s, <2>1 DEF MergeFails, Typed, Types, dbVars
<1> QED
  BY <1>1, <1>2, <1>3, <1>4, <1>5, <1>6, <1>7, <1>8, <1>9, <1>11, <1>12 DEF Administer

LEMMA UseClassesTyped ==
    ASSUME Typed, NEW e \in Elements, UseClasses(e)
    PROVE  Typed'
<1>1. ASSUME NEW id \in Ids, BindCheck(e, id)
      PROVE  Typed'
  <2>1. used' \in UsedType
    BY <1>1, SpendType DEF BindCheck, Typed, Types
  <2> QED
    BY <1>1, <2>1 DEF BindCheck, Typed, Types, Steps, dbVars
<1>2. CASE BindWrite(e)
  <2>1. inst' \in [Elements -> {Gone, Unbound} \cup Nodes]
    BY <1>2 DEF BindWrite, Typed, Types, ById
  <2> QED
    BY <1>2, <2>1 DEF BindWrite, Typed, Types, Steps
<1>3. CASE Unbind(e)
  BY <1>3 DEF Unbind, Typed, Types, Steps
<1> QED
  BY <1>1, <1>2, <1>3 DEF UseClasses

LEMMA NextTyped ==
    ASSUME Typed, [Next]_vars
    PROVE  Typed'
<1>1. CASE UNCHANGED vars
  BY <1>1 DEF vars, dbVars, Typed, Types, Steps
<1> QED
  BY <1>1, OperateTyped, StartTyped, InstallTyped, InstallFailsTyped, AdministerTyped,
     UseClassesTyped DEF Next

\* The types, with what the steps of the install, the run and the requests say of
\* each other.
THEOREM TypedHolds == Spec => []Typed
<1>1. Init => Typed
  BY InitTyped
<1>2. Typed /\ [Next]_vars => Typed'
  BY NextTyped
<1> QED
  BY <1>1, <1>2, PTL DEF Spec

\* Every variable keeps its domain whatever the releases declare, however many
\* modules, elements and administrators there are and wherever a run fails.
THEOREM TypesHold == Spec => []TypeOK
<1>1. Typed => TypeOK
  BY TypeParts DEF Typed
<1> QED
  BY <1>1, TypedHolds, PTL

----------------------------------------------------------------------------
(* What the updates of the graph keep *)

\* v is w with the edges of some nodes renamed.
Flipped(w, m, id, v) ==
    \A n \in Nodes :
        IF n \in Owned(w, m, id)
        THEN v[n] = [w[n] EXCEPT !.live = TRUE] \/ v[n] = [w[n] EXCEPT !.live = FALSE]
        ELSE v[n] = w[n]

LEMMA SetLiveFlips ==
    ASSUME NEW w, NEW m, NEW id
    PROVE  /\ Flipped(w, m, id, SetLive(w, m, id, TRUE))
           /\ Flipped(w, m, id, SetLive(w, m, id, FALSE))
BY DEF Flipped, SetLive

LEMMA SetLiveKeeps ==
    ASSUME NEW w \in Graph, NEW m, NEW id, NEW v, Flipped(w, m, id, v), NEW n \in Nodes
    PROVE  /\ v[n].owner = w[n].owner /\ v[n].name = w[n].name /\ v[n].id = w[n].id
           /\ (n \notin Owned(w, m, id) => v[n] = w[n])
           /\ (v[n] = NoNode <=> w[n] = NoNode)
<1>1. CASE n \in Owned(w, m, id)
  <2>1. w[n] \in Class /\ w[n] # NoNode
    BY <1>1, NodeFacts DEF Owned, ById
  <2>2. v[n] = [w[n] EXCEPT !.live = TRUE] \/ v[n] = [w[n] EXCEPT !.live = FALSE]
    BY <1>1 DEF Flipped
  <2>3. v[n].owner = w[n].owner /\ v[n].name = w[n].name /\ v[n].id = w[n].id
    BY <2>1, <2>2 DEF Class
  <2>4. v[n] # NoNode
    <3>1. w[n].owner # NoModule
      BY <2>1, NodeFacts
    <3>2. NoNode.owner = NoModule
      BY DEF NoNode
    <3> QED
      BY <2>3, <3>1, <3>2
  <2> QED
    BY <1>1, <2>1, <2>3, <2>4
<1>2. CASE n \notin Owned(w, m, id)
  <2>1. v[n] = w[n]
    BY <1>2 DEF Flipped
  <2> QED
    BY <1>2, <2>1
<1> QED
  BY <1>1, <1>2

LEMMA SetPropertiesKeeps ==
    ASSUME NEW w \in Graph, NEW cls \in Entries, NEW n \in Nodes
    PROVE  LET v == SetProperties(w, cls)
           IN  /\ v[n].owner = w[n].owner /\ v[n].id = w[n].id /\ v[n].live = w[n].live
               /\ v[n].name = (IF n \in ById(w, cls.id) THEN cls.name ELSE w[n].name)
               /\ (n \notin ById(w, cls.id) => v[n] = w[n])
               /\ (v[n] = NoNode <=> w[n] = NoNode)
<1> DEFINE v == SetProperties(w, cls)
<1>1. v[n] = IF n \in ById(w, cls.id) THEN [w[n] EXCEPT !.name = cls.name] ELSE w[n]
  BY DEF SetProperties
<1>2. /\ v[n].owner = w[n].owner /\ v[n].id = w[n].id /\ v[n].live = w[n].live
      /\ v[n].name = (IF n \in ById(w, cls.id) THEN cls.name ELSE w[n].name)
      /\ (n \notin ById(w, cls.id) => v[n] = w[n])
  <2>1. CASE n \in ById(w, cls.id)
    <3>1. w[n] \in Class
      BY <2>1, NodeFacts DEF ById
    <3> QED
      BY <1>1, <2>1, <3>1 DEF Class
  <2>2. CASE n \notin ById(w, cls.id)
    BY <1>1, <2>2
  <2> QED
    BY <2>1, <2>2
<1>3. v \in Graph
  BY SetPropertiesType
<1>4. v[n] = NoNode <=> w[n] = NoNode
  BY <1>2, <1>3, NodeFacts
<1> QED
  BY <1>2, <1>4

LEMMA SetIdKeeps ==
    ASSUME NEW w \in Graph, NEW ns \in SUBSET Existing(w), NEW new \in Ids, NEW n \in Nodes
    PROVE  LET v == SetId(w, ns, new)
           IN  /\ v[n].owner = w[n].owner /\ v[n].name = w[n].name /\ v[n].live = w[n].live
               /\ v[n].id = (IF n \in ns THEN new ELSE w[n].id)
               /\ (n \notin ns => v[n] = w[n])
               /\ (v[n] = NoNode <=> w[n] = NoNode)
<1> DEFINE v == SetId(w, ns, new)
<1>1. v[n] = IF n \in ns THEN [w[n] EXCEPT !.id = new] ELSE w[n]
  BY DEF SetId
<1>2. /\ v[n].owner = w[n].owner /\ v[n].name = w[n].name /\ v[n].live = w[n].live
      /\ v[n].id = (IF n \in ns THEN new ELSE w[n].id)
      /\ (n \notin ns => v[n] = w[n])
  <2>1. CASE n \in ns
    <3>1. w[n] \in Class
      BY <2>1, NodeFacts DEF Existing
    <3> QED
      BY <1>1, <2>1, <3>1 DEF Class
  <2>2. CASE n \notin ns
    BY <1>1, <2>2
  <2> QED
    BY <2>1, <2>2
<1>3. v \in Graph
  BY SetIdType
<1>4. v[n] = NoNode <=> w[n] = NoNode
  BY <1>2, <1>3, NodeFacts
<1> QED
  BY <1>2, <1>4

\* Nodes stay the classes they are, of the module they belong to.
SameOwners(w, v) ==
    \A n \in Nodes : v[n].owner = w[n].owner /\ (v[n] = NoNode <=> w[n] = NoNode)

LEMMA RevivedKeeps ==
    ASSUME NEW w \in Graph, NEW n \in Nodes, NEW k \in Nodes
    PROVE  LET v == Revived(w, n)
           IN  /\ v[k].owner = w[k].owner /\ v[k].name = w[k].name /\ v[k].id = w[k].id
               /\ (v[k] = NoNode <=> w[k] = NoNode)
<1> DEFINE u == SetLive(w, w[n].owner, w[n].id, TRUE)
<1>0. Flipped(w, w[n].owner, w[n].id, u)
  BY SetLiveFlips
<1> HIDE DEF u
<1>1. /\ u[k].owner = w[k].owner /\ u[k].name = w[k].name /\ u[k].id = w[k].id
      /\ (u[k] = NoNode <=> w[k] = NoNode)
  BY <1>0, SetLiveKeeps
<1>2. Revived(w, n) = w \/ Revived(w, n) = u
  BY DEF Revived, u
<1> QED
  BY <1>1, <1>2

LEMMA AppliedOwners ==
    ASSUME NEW w \in Graph, NEW n \in Nodes, NEW m \in Modules, NEW cls \in Entries
    PROVE  /\ SameOwners(w, SetProperties(Revived(w, n), cls))
           /\ SameOwners(w, SetProperties(SetId(Revived(w, n), Owned(w, m, w[n].id), cls.id), cls))
<1> DEFINE v == Revived(w, n)
           ns == Owned(w, m, w[n].id)
<1>1. v \in Graph
  BY RevivedType
<1>2. SameOwners(w, v)
  BY RevivedKeeps DEF SameOwners
<1>3. ns \in SUBSET Existing(v)
  BY <1>2 DEF SameOwners, Owned, ById, Existing
<1>4. cls.id \in Ids
  BY DEF Entries
<1>5. SetId(v, ns, cls.id) \in Graph /\ SameOwners(v, SetId(v, ns, cls.id))
  <2> HIDE DEF v, ns
  <2> QED
    BY <1>1, <1>3, <1>4, SetIdType, SetIdKeeps DEF SameOwners
<1>6. SameOwners(v, SetProperties(v, cls))
  BY <1>1, SetPropertiesKeeps DEF SameOwners
<1>7. SameOwners(SetId(v, ns, cls.id), SetProperties(SetId(v, ns, cls.id), cls))
  BY <1>5, SetPropertiesKeeps DEF SameOwners
<1> HIDE DEF v, ns
<1>8. /\ SameOwners(w, SetProperties(v, cls))
      /\ SameOwners(w, SetProperties(SetId(v, ns, cls.id), cls))
  BY <1>2, <1>5, <1>6, <1>7 DEF SameOwners
<1> QED
  BY <1>8 DEF v, ns

\* upsertClass changes no node's module, and makes new nodes only of free ones.
LEMMA UpsertOwners ==
    ASSUME NEW w \in Graph, NEW m \in Modules, NEW cls \in Entries, NEW names, NEW policy,
           NEW r \in UpsertResults(w, m, cls, names, policy), NEW n \in Nodes
    PROVE  /\ (w[n] # NoNode => r.w[n] # NoNode /\ r.w[n].owner = w[n].owner)
           /\ (w[n] = NoNode /\ r.w[n] # NoNode => n \in FreeNodes(w))
<1>s. ASSUME r.w = w \/ SameOwners(w, r.w)
      PROVE  /\ (w[n] # NoNode => r.w[n] # NoNode /\ r.w[n].owner = w[n].owner)
             /\ (w[n] = NoNode /\ r.w[n] # NoNode => n \in FreeNodes(w))
  BY <1>s DEF SameOwners
<1>1. CASE ByName(w, m, cls.name) # {}
  <2>1. PICK k \in Nodes : r = UpsertByName(w, m, cls, k, policy)
    BY <1>1 DEF UpsertResults, ByName
  <2>2. r.w = w \/ SameOwners(w, r.w)
    BY <2>1, AppliedOwners DEF UpsertByName, Rebind, Applied, Skipped
  <2> QED
    BY <1>s, <2>2
<1>2. CASE ByName(w, m, cls.name) = {}
  <2>1. r \in UpsertById(w, m, cls, names)
    BY <1>2 DEF UpsertResults
  <2>2. CASE ById(w, cls.id) = {}
    <3>1. PICK k \in FreeNodes(w) :
              r = Applied([w EXCEPT ![k] = [owner |-> m, name |-> cls.name, id |-> cls.id,
                                            live |-> TRUE]])
      BY <2>1, <2>2 DEF UpsertById, CreateClass
    <3>2. w[k] = NoNode /\ k \in Nodes
      BY DEF FreeNodes
    <3> QED
      BY <3>1, <3>2 DEF Applied, Graph
  <2>3. CASE ById(w, cls.id) # {}
    <3>1. PICK k \in Nodes : r = IF IsRename(w, m, k, names)
                                 THEN Applied(SetProperties(Revived(w, k), cls))
                                 ELSE Skipped(w)
      BY <2>1, <2>3 DEF UpsertById, ById
    <3>2. r.w = w \/ SameOwners(w, r.w)
      BY <3>1, AppliedOwners DEF Applied, Skipped
    <3> QED
      BY <1>s, <3>2
  <2> QED
    BY <2>2, <2>3
<1> QED
  BY <1>1, <1>2

LEMMA ReconciledOwners ==
    ASSUME NEW w \in Graph, NEW m, NEW k \in Nodes, NEW pc, NEW n \in Nodes
    PROVE  LET v == Reconciled(w, m, k, pc)
           IN  /\ (v[n] # NoNode => w[n] # NoNode /\ v[n].owner = w[n].owner
                                      /\ v[n].name = w[n].name /\ v[n].id = w[n].id)
               /\ (n \notin Owned(w, m, w[k].id) => v[n] = w[n])
               /\ (pc = "orphan" => (v[n] = NoNode <=> w[n] = NoNode))
<1>1. CASE pc = "orphan"
  <2> DEFINE u == SetLive(w, m, w[k].id, FALSE)
  <2>0. Flipped(w, m, w[k].id, u)
    BY SetLiveFlips
  <2> HIDE DEF u
  <2>1. /\ u[n].owner = w[n].owner /\ u[n].name = w[n].name /\ u[n].id = w[n].id
        /\ (n \notin Owned(w, m, w[k].id) => u[n] = w[n])
        /\ (u[n] = NoNode <=> w[n] = NoNode)
    BY <2>0, SetLiveKeeps
  <2>2. Reconciled(w, m, k, pc) = u
    BY <1>1 DEF Reconciled, u
  <2> QED
    BY <2>1, <2>2
<1>2. CASE pc # "orphan"
  BY <1>2 DEF Reconciled, Without
<1> QED
  BY <1>1, <1>2

----------------------------------------------------------------------------
(* Elements and their classes *)

\* An element that has a class has one that exists.
ClassesExist == \A e \in Elements : inst[e] \in Nodes => nodes[inst[e]] # NoNode

\* The nodes a clean-up is about to merge belong to one module, as far as they
\* still exist.
Members(g) == g.dups \cup {g.canon}

GroupOwners ==
    \A a \in Admins : \A g \in req[a].groups : \A n, k \in Members(g) :
        nodes[n] # NoNode /\ nodes[k] # NoNode => nodes[n].owner = nodes[k].owner

\* An install's working copy has the owners of the graph, and makes no class of a
\* node that a clean-up refers to.
WorkOwners ==
    tx.pc # "idle" =>
        /\ \A n \in Nodes : tx.work[n] # NoNode /\ nodes[n] # NoNode =>
              tx.work[n].owner = nodes[n].owner
        /\ \A a \in Admins : \A g \in req[a].groups : \A n \in Members(g) :
              tx.work[n] # NoNode => nodes[n] # NoNode

OwnerInv == ClassesExist /\ GroupOwners /\ WorkOwners

LEMMA GroupNodes ==
    ASSUME Typed, NEW a \in Admins, NEW g \in req[a].groups
    PROVE  Members(g) \subseteq Nodes /\ g.canon \in Nodes /\ g.dups \subseteq Nodes
BY DEF Typed, Types, ReqType, GroupType, Members

LEMMA InitOwners == Init => OwnerInv
<1> SUFFICES ASSUME Init
             PROVE  OwnerInv
  OBVIOUS
<1>1. \A e \in Elements : inst[e] \notin Nodes
  BY DEF Init, Unbound, Nodes
<1>2. \A a \in Admins : req[a].groups = {}
  BY DEF Init, NoReq
<1>3. tx.pc = "idle"
  BY DEF Init, NoTx
<1> QED
  BY <1>1, <1>2, <1>3 DEF OwnerInv, ClassesExist, GroupOwners, WorkOwners

\* Steps that leave the graph, the transaction and the groups alone, or drop the last two.
LEMMA QuietOwners ==
    ASSUME OwnerInv, UNCHANGED <<nodes, inst>>, tx' = tx \/ tx'.pc = "idle",
           \A a \in Admins : req'[a].groups \subseteq req[a].groups
    PROVE  OwnerInv'
<1>1. ClassesExist'
  BY DEF OwnerInv, ClassesExist
<1>2. GroupOwners'
  BY DEF OwnerInv, GroupOwners, Members
<1>3. WorkOwners'
  BY DEF OwnerInv, WorkOwners, Members
<1> QED
  BY <1>1, <1>2, <1>3 DEF OwnerInv

LEMMA OperateOwners ==
    ASSUME Typed, OwnerInv, Operate
    PROVE  OwnerInv'
<1>1. ASSUME NEW m \in Modules, Withdraw(m) \/ Reset(m)
      PROVE  OwnerInv'
  BY <1>1, QuietOwners DEF Withdraw, Reset, dbVars
<1>2. ASSUME NEW m, NEW policy, NEW decl, Release(m, decl, policy)
      PROVE  OwnerInv'
  BY <1>2, QuietOwners DEF Release, dbVars
<1>3. CASE Halt
  <2>1. \A a \in Admins : req'[a].groups \subseteq req[a].groups
    BY <1>3 DEF Halt, NoReq
  <2> QED
    BY <1>3, <2>1, QuietOwners DEF Halt, NoTx, dbVars
<1> QED
  BY <1>1, <1>2, <1>3 DEF Operate, Crash, Restart

LEMMA InstallOwners ==
    ASSUME Typed, OwnerInv, Start \/ Install \/ InstallFails
    PROVE  OwnerInv'
<1>1. CASE Start
  BY <1>1, QuietOwners DEF Start, Boot, dbVars
<1>2. ASSUME NEW m \in Modules, BeginModule(m)
      PROVE  OwnerInv'
  <2>1. tx'.work = nodes /\ UNCHANGED <<nodes, inst, req>>
    BY <1>2 DEF BeginModule, NoTx, dbVars
  <2> QED
    BY <2>1 DEF OwnerInv, ClassesExist, GroupOwners, WorkOwners, Members
<1>3. ASSUME UNCHANGED <<nodes, inst, req>>, tx.pc # "idle", tx'.pc # "idle",
             \A n \in Nodes : tx'.work[n] # NoNode =>
                \/ tx.work[n] # NoNode /\ tx'.work[n].owner = tx.work[n].owner
                \/ n \in FreeNodes(tx.work)
      PROVE  OwnerInv'
  <2>1. ASSUME NEW n \in Nodes, n \in FreeNodes(tx.work)
        PROVE  nodes[n] = NoNode /\ \A a \in Admins : \A g \in req[a].groups : n \notin Members(g)
    BY <2>1 DEF FreeNodes, Members
  <2>2. ClassesExist'
    BY <1>3 DEF OwnerInv, ClassesExist
  <2>3. GroupOwners'
    BY <1>3 DEF OwnerInv, GroupOwners, Members
  <2>4. ASSUME NEW n \in Nodes, tx'.work[n] # NoNode, nodes[n] # NoNode
        PROVE  tx'.work[n].owner = nodes[n].owner
    BY <1>3, <2>1, <2>4 DEF OwnerInv, WorkOwners
  <2>5. ASSUME NEW a \in Admins, NEW g \in req[a].groups, NEW n \in Members(g),
               tx'.work[n] # NoNode
        PROVE  nodes[n] # NoNode
    <3>1. n \in Nodes
      BY GroupNodes
    <3>2. n \notin FreeNodes(tx.work)
      BY <2>1, <3>1
    <3>3. tx.work[n] # NoNode
      BY <1>3, <2>5, <3>1, <3>2
    <3> QED
      BY <1>3, <3>3 DEF OwnerInv, WorkOwners
  <2>6. WorkOwners'
    BY <1>3, <2>4, <2>5 DEF WorkOwners, Members
  <2> QED
    BY <2>2, <2>3, <2>6 DEF OwnerInv
<1>4. CASE Upsert
  <2>1. PICK r \in UpsertResults(tx.work, tx.m, tx.rel.decl[tx.i], DeclaredNames(tx.rel.decl),
                                 tx.rel.policy) :
            tx' = [tx EXCEPT !.i = @ + 1, !.work = r.w,
                             !.applied = IF r.ok THEN @ + 1 ELSE @]
    BY <1>4 DEF Upsert
  <2>2. tx'.pc = tx.pc /\ tx'.work = r.w
    BY <2>1 DEF Typed, Types, TxType
  <2>3. \A n \in Nodes : r.w[n] # NoNode =>
                \/ tx.work[n] # NoNode /\ r.w[n].owner = tx.work[n].owner
                \/ n \in FreeNodes(tx.work)
    BY <1>4, UpsertClass, UpsertOwners DEF Upsert
  <2> QED
    BY <1>3, <1>4, <2>2, <2>3 DEF Upsert, dbVars
<1>5. CASE ListUndeclared \/ CountInstances \/ ReconcileThrows
  <2>1. tx'.work = tx.work /\ tx'.pc # "idle" /\ tx.pc # "idle" /\ UNCHANGED <<nodes, inst, req>>
    BY <1>5 DEF ListUndeclared, CountInstances, ReconcileThrows, dbVars, Typed, Types, TxType
  <2> QED
    BY <1>3, <2>1
<1>6. CASE UpsertThrows
  <2>1. tx'.work = tx.work /\ tx'.pc # "idle" /\ tx.pc # "idle" /\ UNCHANGED <<nodes, inst, req>>
    BY <1>6 DEF UpsertThrows, dbVars, Typed, Types, TxType
  <2> QED
    BY <1>3, <2>1
<1>7. CASE Reconcile
  <2>1. tx'.work = Reconciled(tx.work, tx.m, tx.n, tx.pc) /\ tx'.pc = "count" /\ tx.pc # "idle"
    BY <1>7 DEF Reconcile, Typed, Types, TxType
  <2>2. tx.n \in Nodes /\ tx.work \in Graph
    BY <1>7 DEF Reconcile, Typed, Types, Steps, TxType
  <2>3. \A n \in Nodes : tx'.work[n] # NoNode =>
            tx.work[n] # NoNode /\ tx'.work[n].owner = tx.work[n].owner
    BY <2>1, <2>2, ReconciledOwners
  <2> QED
    BY <1>3, <1>7, <2>1, <2>3 DEF Reconcile, dbVars
<1>8. CASE Commit
  <2>1. tx.pc # "idle" /\ tx'.pc = "idle" /\ nodes' = tx.work /\ inst' = Detached(tx.work)
        /\ UNCHANGED req
    BY <1>8 DEF Commit, NoTx
  <2>2. ClassesExist'
    BY <2>1 DEF ClassesExist, Detached, Unbound, Nodes
  <2>3. ASSUME NEW a \in Admins, NEW g \in req[a].groups, NEW n \in Members(g),
               NEW k \in Members(g), tx.work[n] # NoNode, tx.work[k] # NoNode
        PROVE  tx.work[n].owner = tx.work[k].owner
    <3>1. n \in Nodes /\ k \in Nodes
      BY GroupNodes
    <3>2. nodes[n] # NoNode /\ nodes[k] # NoNode
      BY <2>1, <2>3 DEF OwnerInv, WorkOwners
    <3>3. nodes[n].owner = nodes[k].owner
      BY <3>2 DEF OwnerInv, GroupOwners
    <3> QED
      BY <2>1, <2>3, <3>1, <3>2, <3>3 DEF OwnerInv, WorkOwners
  <2>4. GroupOwners'
    BY <2>1, <2>3 DEF GroupOwners, Members
  <2>5. WorkOwners'
    BY <2>1 DEF WorkOwners
  <2> QED
    BY <2>2, <2>4, <2>5 DEF OwnerInv
<1>9. CASE Abort
  BY <1>9, QuietOwners DEF Abort, dbVars, NoTx
<1>10. CASE ModulesDone \/ SweepThrows
  BY <1>10, QuietOwners DEF ModulesDone, SweepThrows, dbVars
<1>11. CASE SweepObsolete
  <2>1. tx.pc = "idle" /\ UNCHANGED <<tx, req>>
    BY <1>11 DEF SweepObsolete, Typed, Steps
  <2>2. ClassesExist'
    BY <1>11 DEF SweepObsolete, ClassesExist, Detached, Unbound, Nodes
  <2>3. \A n \in Nodes : nodes'[n] # NoNode => nodes'[n] = nodes[n]
    BY <1>11 DEF SweepObsolete, Without
  <2>4. GroupOwners'
    BY <2>1, <2>3, GroupNodes DEF OwnerInv, GroupOwners, Members
  <2> QED
    BY <2>1, <2>2, <2>4 DEF OwnerInv, WorkOwners
<1>12. ASSUME NEW failed, RunHooks(failed)
       PROVE  OwnerInv'
  BY <1>12, QuietOwners DEF RunHooks
<1> QED
  BY <1>1, <1>2, <1>4, <1>5, <1>6, <1>7, <1>8, <1>9, <1>10, <1>11, <1>12
     DEF Install, InstallFails

LEMMA NextGroupGroups ==
    ASSUME Typed, NEW a \in Admins, NEW g, NextGroup(a, g)
    PROVE  \A b \in Admins : req'[b].groups \subseteq req[b].groups
<1> DEFINE rest == req[a].groups \ {g}
           next == IF rest = {} THEN NoReq ELSE [req[a] EXCEPT !.groups = rest]
<1>1. req' = [req EXCEPT ![a] = next]
  BY DEF NextGroup
<1>2. req[a] \in ReqType
  BY DEF Typed, Types
<1>3. next.groups \subseteq req[a].groups
  BY <1>2 DEF ReqType, NoReq
<1> HIDE DEF next
<1> QED
  BY <1>1, <1>3 DEF Typed, Types

\* A step of a request that writes nothing.
LEMMA RequestOwners ==
    ASSUME Typed, OwnerInv, NEW a \in Admins, NEW r, req' = [req EXCEPT ![a] = r],
           r.groups = {} \/ r.groups \subseteq req[a].groups, UNCHANGED <<nodes, inst, tx>>
    PROVE  OwnerInv'
<1>1. \A b \in Admins : req'[b].groups \subseteq req[b].groups
  BY DEF Typed, Types
<1> QED
  BY <1>1, QuietOwners

LEMMA MigratedIds ==
    ASSUME Typed, NEW a \in Admins, MigrateWrite(a)
    PROVE  LET found == {n \in Owned(nodes, req[a].m, req[a].old) : nodes[n].name = req[a].name}
           IN  /\ found \in SUBSET Existing(nodes) /\ req[a].new \in Ids
               /\ \/ nodes' = nodes
                  \/ /\ nodes' = SetId(nodes, found, req[a].new)
                     /\ ~(IdConstraint /\ ById(nodes, req[a].new) # {})
BY DEF MigrateWrite, Owned, ById, Existing, Typed, Steps

\* No write of an administrator makes a class or changes the module of one.
LEMMA AdminWrites ==
    ASSUME Typed, NEW a \in Admins,
           \/ MigrateWrite(a) \/ ReviveWrite(a) \/ DeleteWrite(a)
           \/ \E g \in req[a].groups : MergeGroup(a, g)
    PROVE  /\ \A n \in Nodes : nodes'[n] # NoNode =>
                  nodes[n] # NoNode /\ nodes'[n].owner = nodes[n].owner
           /\ tx.pc = "idle" /\ UNCHANGED tx
           /\ \A b \in Admins : req'[b].groups \subseteq req[b].groups
<1>0. nodes \in Graph /\ (Answer(a) => \A b \in Admins : req'[b].groups \subseteq req[b].groups)
  BY AnswerTyped DEF Typed, Types, NoReq
<1>1. CASE MigrateWrite(a)
  <2> DEFINE found == {n \in Owned(nodes, req[a].m, req[a].old) : nodes[n].name = req[a].name}
             v == SetId(nodes, found, req[a].new)
  <2>1. found \in SUBSET Existing(nodes) /\ req[a].new \in Ids /\ (nodes' = nodes \/ nodes' = v)
    BY <1>1, MigratedIds
  <2>2. \A n \in Nodes : v[n].owner = nodes[n].owner /\ (v[n] = NoNode <=> nodes[n] = NoNode)
    <3> HIDE DEF found
    <3> QED
      BY <1>0, <2>1, SetIdKeeps
  <2> HIDE DEF v, found
  <2> QED
    BY <1>0, <1>1, <2>1, <2>2 DEF MigrateWrite
<1>2. CASE ReviveWrite(a)
  <2> DEFINE v == SetLive(nodes, req[a].m, req[a].old, TRUE)
  <2>1. Flipped(nodes, req[a].m, req[a].old, v)
    BY SetLiveFlips
  <2>2. nodes' = v
    BY <1>2 DEF ReviveWrite
  <2> HIDE DEF v
  <2>3. \A n \in Nodes : v[n].owner = nodes[n].owner /\ (v[n] = NoNode <=> nodes[n] = NoNode)
    BY <1>0, <2>1, SetLiveKeeps
  <2> QED
    BY <1>0, <1>2, <2>2, <2>3 DEF ReviveWrite
<1>3. CASE DeleteWrite(a)
  BY <1>0, <1>3 DEF DeleteWrite, Without
<1>4. ASSUME NEW g \in req[a].groups, MergeGroup(a, g)
      PROVE  /\ \A n \in Nodes : nodes'[n] # NoNode =>
                  nodes[n] # NoNode /\ nodes'[n].owner = nodes[n].owner
             /\ tx.pc = "idle" /\ UNCHANGED tx
             /\ \A b \in Admins : req'[b].groups \subseteq req[b].groups
  BY <1>4, NextGroupGroups DEF MergeGroup, Without
<1> QED
  BY <1>1, <1>2, <1>3, <1>4

LEMMA AdministerOwners ==
    ASSUME Typed, OwnerInv, NEW a \in Admins, Administer(a)
    PROVE  OwnerInv'
<1>0. NoReq.groups = {} /\ req[a] \in ReqType /\ NoReq \in ReqType
  BY NoReqType DEF NoReq, Typed, Types
<1>1. ASSUME NEW m, NEW name, NEW new, MigrateRead(a, m, name, new)
      PROVE  OwnerInv'
  <2>0. PICK n : req' = [req EXCEPT ![a] = [NoReq EXCEPT !.pc = "migrateCheck", !.m = m,
                                          !.name = name, !.old = nodes[n].id, !.new = new]]
    BY <1>1 DEF MigrateRead
  <2> DEFINE r == [NoReq EXCEPT !.pc = "migrateCheck", !.m = m, !.name = name,
                                !.old = nodes[n].id, !.new = new]
  <2>1. req' = [req EXCEPT ![a] = r] /\ r.groups = {}
    BY <1>0, <2>0 DEF NoReq
  <2> HIDE DEF r
  <2> QED
    BY <1>1, <2>1, RequestOwners DEF MigrateRead, dbVars
<1>2. CASE MigrateCheck(a)
  <2>1. PICK r : req' = [req EXCEPT ![a] = r] /\ (r.groups = {} \/ r.groups = req[a].groups)
    <3>1. CASE Answer(a)
      BY <1>0, <3>1 DEF Answer
    <3>2. CASE ~Answer(a)
      <4> DEFINE r == [req[a] EXCEPT !.pc = "migrateWrite"]
      <4>1. req' = [req EXCEPT ![a] = r]
        BY <1>2, <3>2 DEF MigrateCheck
      <4>2. r.groups = req[a].groups
        BY <1>0 DEF ReqType
      <4> HIDE DEF r
      <4> QED
        BY <4>1, <4>2
    <3> QED
      BY <3>1, <3>2
  <2> QED
    BY <1>2, <2>1, RequestOwners DEF MigrateCheck, dbVars
<1>3. ASSUME NEW id, ReviveRead(a, id)
      PROVE  OwnerInv'
  <2>0. PICK n : req' = [req EXCEPT ![a] = [NoReq EXCEPT !.pc = "reviveWrite",
                                          !.m = nodes[n].owner, !.old = id]]
    BY <1>3 DEF ReviveRead
  <2> DEFINE r == [NoReq EXCEPT !.pc = "reviveWrite", !.m = nodes[n].owner, !.old = id]
  <2>1. req' = [req EXCEPT ![a] = r] /\ r.groups = {}
    BY <1>0, <2>0 DEF NoReq
  <2> HIDE DEF r
  <2> QED
    BY <1>3, <2>1, RequestOwners DEF ReviveRead, dbVars
<1>4. ASSUME NEW id, NEW cascade, DeleteRead(a, id, cascade)
      PROVE  OwnerInv'
  <2> DEFINE r == [NoReq EXCEPT !.pc = "deleteCount", !.old = id, !.cascade = cascade]
  <2>1. req' = [req EXCEPT ![a] = r] /\ r.groups = {}
    BY <1>4 DEF DeleteRead, NoReq
  <2> HIDE DEF r
  <2> QED
    BY <1>4, <2>1, RequestOwners DEF DeleteRead, dbVars
<1>5. CASE DeleteCount(a)
  <2>1. PICK r : req' = [req EXCEPT ![a] = r] /\ (r.groups = {} \/ r.groups = req[a].groups)
    <3>1. CASE Answer(a)
      BY <1>0, <3>1 DEF Answer
    <3>2. CASE ~Answer(a)
      <4> DEFINE r == [req[a] EXCEPT !.pc = "deleteWrite"]
      <4>1. req' = [req EXCEPT ![a] = r]
        BY <1>5, <3>2 DEF DeleteCount
      <4>2. r.groups = req[a].groups
        BY <1>0 DEF ReqType
      <4> HIDE DEF r
      <4> QED
        BY <4>1, <4>2
    <3> QED
      BY <3>1, <3>2
  <2> QED
    BY <1>5, <2>1, RequestOwners DEF DeleteCount, dbVars
<1>6. CASE DedupRead(a)
  <2>1. /\ req'[a].groups = DuplicateGroups /\ \A b \in Admins : b # a => req'[b] = req[b]
        /\ UNCHANGED <<nodes, inst, tx>>
    BY <1>0, <1>6 DEF DedupRead, dbVars, ReqType, Typed, Types
  <2>2. nodes \in Graph
    BY DEF Typed, Types
  <2>3. ASSUME NEW g \in DuplicateGroups
        PROVE  \E m : \A n \in Members(g) : n \in Nodes /\ nodes[n] # NoNode /\ nodes[n].owner = m
    <3>1. PICK k \in Existing(nodes) :
          LET ns == ByName(nodes, nodes[k].owner, nodes[k].name)
          IN  g = [canon |-> Canonical(ns), dups |-> ns \ {Canonical(ns)}]
      BY DEF DuplicateGroups
    <3> DEFINE ns == ByName(nodes, nodes[k].owner, nodes[k].name)
    <3>2. ns \in SUBSET Nodes /\ k \in ns
      BY <3>1 DEF ByName, Existing
    <3>3. Canonical(ns) \in ns
      BY <2>2, <3>2, CanonicalMember
    <3>4. Members(g) \subseteq ns
      BY <3>1, <3>3 DEF Members
    <3>5. nodes[k].owner \in Modules
      BY <2>2, <3>1, NodeFacts DEF Existing, Class
    <3>6. \A n \in ns : n \in Nodes /\ nodes[n] # NoNode /\ nodes[n].owner = nodes[k].owner
      BY <2>2, <3>5, NodeFacts DEF ByName
    <3> QED
      BY <3>4, <3>6
  <2>4. ClassesExist'
    BY <2>1 DEF OwnerInv, ClassesExist
  <2>5. GroupOwners'
    <3> SUFFICES ASSUME NEW b \in Admins, NEW g \in req'[b].groups, NEW n \in Members(g),
                        NEW k \in Members(g), nodes[n] # NoNode, nodes[k] # NoNode
                 PROVE  nodes[n].owner = nodes[k].owner
      BY <2>1 DEF GroupOwners, Members
    <3>1. CASE b = a
      BY <2>1, <2>3, <3>1
    <3>2. CASE b # a
      BY <2>1, <3>2 DEF OwnerInv, GroupOwners
    <3> QED
      BY <3>1, <3>2
  <2>6. WorkOwners'
    <3> SUFFICES ASSUME tx.pc # "idle", NEW b \in Admins, NEW g \in req'[b].groups,
                        NEW n \in Members(g), tx.work[n] # NoNode
                 PROVE  nodes[n] # NoNode
      BY <2>1 DEF OwnerInv, WorkOwners, Members
    <3>1. CASE b = a
      BY <2>1, <2>3, <3>1
    <3>2. CASE b # a
      BY <2>1, <3>2 DEF OwnerInv, WorkOwners
    <3> QED
      BY <3>1, <3>2
  <2> QED
    BY <2>4, <2>5, <2>6 DEF OwnerInv
<1>7. ASSUME NEW g \in req[a].groups, MergeFails(a, g)
      PROVE  OwnerInv'
  BY <1>7, NextGroupGroups, QuietOwners DEF MergeFails, dbVars
<1>8. ASSUME ClassesExist',
             \A n \in Nodes : nodes'[n] # NoNode =>
                  nodes[n] # NoNode /\ nodes'[n].owner = nodes[n].owner,
             tx.pc = "idle", UNCHANGED tx,
             \A b \in Admins : req'[b].groups \subseteq req[b].groups
      PROVE  OwnerInv'
  <2>1. GroupOwners'
    <3> SUFFICES ASSUME NEW b \in Admins, NEW g \in req'[b].groups, NEW n \in Members(g),
                        NEW k \in Members(g), nodes'[n] # NoNode, nodes'[k] # NoNode
                 PROVE  nodes'[n].owner = nodes'[k].owner
      BY DEF GroupOwners, Members
    <3>1. g \in req[b].groups /\ n \in Nodes /\ k \in Nodes
      BY <1>8, GroupNodes
    <3> QED
      BY <1>8, <3>1 DEF OwnerInv, GroupOwners
  <2> QED
    BY <1>8, <2>1 DEF OwnerInv, WorkOwners
<1>9. CASE MigrateWrite(a)
  <2> DEFINE found == {n \in Owned(nodes, req[a].m, req[a].old) : nodes[n].name = req[a].name}
             v == SetId(nodes, found, req[a].new)
  <2>0. nodes \in Graph
    BY DEF Typed, Types
  <2>1. found \in SUBSET Existing(nodes) /\ req[a].new \in Ids /\ (nodes' = nodes \/ nodes' = v)
    BY <1>9, MigratedIds
  <2>2. \A n \in Nodes : v[n] = NoNode <=> nodes[n] = NoNode
    <3> HIDE DEF found
    <3> QED
      BY <2>0, <2>1, SetIdKeeps
  <2>3. ClassesExist'
    <3> HIDE DEF v, found
    <3> QED
      BY <1>9, <2>1, <2>2 DEF MigrateWrite, OwnerInv, ClassesExist
  <2> QED
    BY <1>8, <1>9, <2>3, AdminWrites
<1>10. CASE ReviveWrite(a)
  <2> DEFINE v == SetLive(nodes, req[a].m, req[a].old, TRUE)
  <2>0. nodes \in Graph
    BY DEF Typed, Types
  <2>1. Flipped(nodes, req[a].m, req[a].old, v)
    BY SetLiveFlips
  <2>2. nodes' = v
    BY <1>10 DEF ReviveWrite
  <2>3. ClassesExist'
    <3> HIDE DEF v
    <3>1. \A n \in Nodes : v[n] = NoNode <=> nodes[n] = NoNode
      BY <2>0, <2>1, SetLiveKeeps
    <3> QED
      BY <1>10, <2>2, <3>1 DEF ReviveWrite, OwnerInv, ClassesExist
  <2> QED
    BY <1>8, <1>10, <2>3, AdminWrites
<1>11. CASE DeleteWrite(a)
  <2>1. ClassesExist'
    BY <1>11 DEF DeleteWrite, Without, OwnerInv, ClassesExist, Gone, Nodes
  <2> QED
    BY <1>8, <1>11, <2>1, AdminWrites
<1>12. ASSUME NEW g \in req[a].groups, MergeGroup(a, g)
       PROVE  OwnerInv'
  <2>1. ClassesExist'
    BY <1>12 DEF MergeGroup, Redirected, Without, OwnerInv, ClassesExist
  <2> QED
    BY <1>8, <1>12, <2>1, AdminWrites
<1> QED
  BY <1>1, <1>2, <1>3, <1>4, <1>5, <1>6, <1>7, <1>9, <1>10, <1>11, <1>12 DEF Administer

LEMMA UseClassesOwners ==
    ASSUME Typed, OwnerInv, NEW e \in Elements, UseClasses(e)
    PROVE  OwnerInv'
<1>1. UNCHANGED <<nodes, tx, req>>
  BY DEF UseClasses, BindCheck, BindWrite, Unbind, dbVars
<1>2. ClassesExist'
  <2>1. ASSUME NEW id \in Ids, BindCheck(e, id)
        PROVE  ClassesExist'
    BY <2>1 DEF BindCheck, dbVars, OwnerInv, ClassesExist
  <2>2. CASE BindWrite(e)
    <3>1. CASE inst' = inst
      BY <1>1, <3>1 DEF OwnerInv, ClassesExist
    <3>2. CASE inst' # inst
      <4>1. PICK n \in ById(nodes, bind[e]) :
               inst' = [inst EXCEPT ![e] = IF inst[e] = Gone THEN Gone ELSE n]
        BY <2>2, <3>2 DEF BindWrite
      <4>2. n \in Nodes /\ nodes[n] # NoNode
        BY DEF ById
      <4>3. Gone \notin Nodes
        BY Bounds DEF Gone, Nodes
      <4> QED
        BY <1>1, <4>1, <4>2, <4>3 DEF OwnerInv, ClassesExist, Typed, Types
    <3> QED
      BY <3>1, <3>2
  <2>3. CASE Unbind(e)
    <3>1. Unbound \notin Nodes
      BY Bounds DEF Unbound, Nodes
    <3> QED
      BY <1>1, <2>3, <3>1 DEF Unbind, OwnerInv, ClassesExist, Typed, Types
  <2> QED
    BY <2>1, <2>2, <2>3 DEF UseClasses
<1>3. GroupOwners' /\ WorkOwners'
  BY <1>1 DEF OwnerInv, GroupOwners, WorkOwners, Members
<1> QED
  BY <1>2, <1>3 DEF OwnerInv

\* Every element's class exists, the nodes of a clean-up group that still exist have
\* one owner, and a transaction changes no node's owner: no step reuses a node that
\* an element or a clean-up in progress refers to.
THEOREM OwnersHold == Spec => [](Typed /\ OwnerInv)
<1>1. Init => OwnerInv
  BY InitOwners
<1>2. Typed /\ OwnerInv /\ [Next]_vars => OwnerInv'
  <2> SUFFICES ASSUME Typed, OwnerInv, [Next]_vars
               PROVE  OwnerInv'
    OBVIOUS
  <2>1. CASE UNCHANGED vars
    BY <2>1, QuietOwners DEF vars, dbVars
  <2> QED
    BY <2>1, OperateOwners, InstallOwners, AdministerOwners, UseClassesOwners DEF Next
<1> QED
  BY <1>1, <1>2, TypedHolds, PTL DEF Spec

\* The clean-up (class-identity-migration.service.ts) takes no element's class away
\* and gives it none of another module, whatever installs, migrations, revivals and
\* deletions come between its reading the groups and its merging them, for any
\* legacy graph and any number of administrators: a merged node is deleted only
\* when it has no instance left, and the nodes of a group keep one owner because no
\* install makes a class of a node that a clean-up still refers to.
THEOREM MergeKeepsInstancesHolds == Spec => MergeKeepsInstances
<1>1. Typed /\ OwnerInv /\ [Next]_vars =>
        [\A a \in Admins : \A g \in req[a].groups : MergeGroup(a, g) =>
          \A e \in Elements : inst[e] \in Nodes =>
             /\ inst'[e] \in Existing(nodes)'
             /\ nodes'[inst'[e]].owner = nodes[inst[e]].owner]_vars
  <2> SUFFICES ASSUME Typed, OwnerInv, NEW a \in Admins, NEW g \in req[a].groups,
                      MergeGroup(a, g), NEW e \in Elements, inst[e] \in Nodes
               PROVE  /\ inst'[e] \in Existing(nodes)'
                      /\ nodes'[inst'[e]].owner = nodes[inst[e]].owner
    OBVIOUS
  <2>1. nodes[inst[e]] # NoNode /\ g.canon \in Nodes
    BY GroupNodes DEF OwnerInv, ClassesExist
  <2>2. inst'[e] = IF inst[e] \in g.dups /\ nodes[g.canon] # NoNode THEN g.canon ELSE inst[e]
    BY DEF MergeGroup, Redirected
  <2>3. inst'[e] \in Nodes /\ nodes[inst'[e]] # NoNode
    BY <2>1, <2>2
  <2>4. nodes[inst'[e]].owner = nodes[inst[e]].owner
    BY <2>1, <2>2 DEF OwnerInv, GroupOwners, Members
  <2>5. nodes'[inst'[e]] = nodes[inst'[e]]
    BY <2>3 DEF MergeGroup, Without
  <2> QED
    BY <2>3, <2>4, <2>5 DEF Existing
<1> QED
  BY <1>1, OwnersHold, PTL DEF Spec, MergeKeepsInstances

----------------------------------------------------------------------------
(* An install against a database with snapshot isolation *)

Snapshots == ~ReadCommitted

\* The classes elements have are still in the working copy, and a class about to
\* be deleted has no instance.
WorkKeeps ==
    tx.pc # "idle" =>
        /\ \A e \in Elements : inst[e] \in Nodes => tx.work[inst[e]] # NoNode
        /\ (tx.pc = "delete" => ~HasInstances(tx.work, tx.work[tx.n].id))

\* With snapshots nobody changes an element's class while an install transaction is open.
LEMMA OpenTransaction ==
    ASSUME Snapshots, Typed, Next, tx.pc # "idle", tx'.pc # "idle"
    PROVE  UNCHANGED inst
<1>1. CASE Operate
  BY <1>1 DEF Operate, Withdraw, Reset, Release, Restart, Crash, Halt, dbVars
<1>2. CASE Start
  BY <1>2 DEF Start, Boot, dbVars
<1>3. CASE Install
  <2>1. ~Commit
    BY DEF Commit, NoTx
  <2>2. ~SweepObsolete /\ \A failed : ~RunHooks(failed)
    BY DEF SweepObsolete, RunHooks, Typed, Steps
  <2> QED
    BY <1>3, <2>1, <2>2 DEF Install, BeginModule, Upsert, ListUndeclared, CountInstances,
       Reconcile, ModulesDone, dbVars
<1>4. CASE InstallFails
  BY <1>4 DEF InstallFails, UpsertThrows, ReconcileThrows, Abort, SweepThrows, dbVars
<1>5. ASSUME NEW a \in Admins, Administer(a)
      PROVE  UNCHANGED inst
  BY <1>5 DEF Administer, MigrateRead, MigrateCheck, MigrateWrite, ReviveRead, ReviveWrite,
     DeleteRead, DeleteCount, DeleteWrite, DedupRead, MergeGroup, MergeFails, dbVars
<1>6. ASSUME NEW e \in Elements, UseClasses(e)
      PROVE  UNCHANGED inst
  BY <1>6 DEF UseClasses, BindCheck, BindWrite, Unbind, Bindable, Snapshots, dbVars
<1> QED
  BY <1>1, <1>2, <1>3, <1>4, <1>5, <1>6 DEF Next

\* The transaction changes in the steps of the install and when the process stops.
LEMMA TxSteps ==
    ASSUME Typed, Next
    PROVE  \/ UNCHANGED tx
           \/ tx'.pc = "idle"
           \/ \E m \in Modules : BeginModule(m)
           \/ Upsert \/ ListUndeclared \/ CountInstances \/ Reconcile
           \/ UpsertThrows \/ ReconcileThrows
<1>1. CASE Operate
  <2>1. Halt => tx'.pc = "idle"
    BY DEF Halt, NoTx
  <2> QED
    BY <1>1, <2>1 DEF Operate, Withdraw, Reset, Release, Restart, Crash
<1>2. CASE Start
  BY <1>2 DEF Start, Boot
<1>3. CASE Install \/ InstallFails
  BY <1>3 DEF Install, InstallFails, Commit, ModulesDone, SweepObsolete, RunHooks, Abort,
     SweepThrows, NoTx
<1>4. ASSUME NEW a \in Admins, Administer(a)
      PROVE  UNCHANGED tx
  BY <1>4 DEF Administer, MigrateRead, MigrateCheck, MigrateWrite, ReviveRead, ReviveWrite,
     DeleteRead, DeleteCount, DeleteWrite, DedupRead, MergeGroup, MergeFails
<1>5. ASSUME NEW e \in Elements, UseClasses(e)
      PROVE  UNCHANGED tx
  BY <1>5 DEF UseClasses, BindCheck, BindWrite, Unbind
<1> QED
  BY <1>1, <1>2, <1>3, <1>4, <1>5 DEF Next

LEMMA NextKeeps ==
    ASSUME Snapshots, Typed, OwnerInv, WorkKeeps, [Next]_vars
    PROVE  WorkKeeps'
<1>0. CASE UNCHANGED vars
  BY <1>0 DEF vars, dbVars, WorkKeeps, HasInstances, InstancesOf, ById
<1> SUFFICES ASSUME Next, tx'.pc # "idle"
             PROVE  WorkKeeps'
  BY <1>0 DEF WorkKeeps
<1>1. CASE UNCHANGED tx
  <2>1. UNCHANGED inst
    BY <1>1, OpenTransaction
  <2> QED
    BY <1>1, <2>1 DEF WorkKeeps, HasInstances, InstancesOf, ById
<1>2. ASSUME NEW m \in Modules, BeginModule(m)
      PROVE  WorkKeeps'
  <2>1. tx'.pc = "upsert" /\ tx'.work = nodes /\ UNCHANGED inst
    BY <1>2 DEF BeginModule, NoTx, dbVars
  <2> QED
    BY <2>1 DEF WorkKeeps, OwnerInv, ClassesExist
<1>3. CASE Upsert
  <2>1. PICK r \in UpsertResults(tx.work, tx.m, tx.rel.decl[tx.i], DeclaredNames(tx.rel.decl),
                                 tx.rel.policy) :
            tx' = [tx EXCEPT !.i = @ + 1, !.work = r.w,
                             !.applied = IF r.ok THEN @ + 1 ELSE @]
    BY <1>3 DEF Upsert
  <2>2. tx'.pc = "upsert" /\ tx'.work = r.w /\ UNCHANGED inst
    BY <1>3, <2>1 DEF Upsert, Typed, Types, TxType, dbVars
  <2>3. \A n \in Nodes : tx.work[n] # NoNode => r.w[n] # NoNode
    BY <1>3, UpsertClass, UpsertOwners DEF Upsert
  <2> QED
    BY <1>3, <2>2, <2>3 DEF WorkKeeps, Upsert
<1>4. CASE ListUndeclared
  BY <1>4 DEF ListUndeclared, WorkKeeps, Typed, Types, TxType, dbVars
<1>5. CASE CountInstances
  <2>1. PICK n \in tx.left :
          tx' = [tx EXCEPT !.n = n, !.pc = IF HasInstances(tx.work, tx.work[n].id)
                                           THEN "orphan" ELSE "delete"]
    BY <1>5 DEF CountInstances
  <2>2. tx'.n = n /\ tx'.work = tx.work /\ UNCHANGED inst
    BY <1>5, <2>1 DEF CountInstances, Typed, Types, TxType, dbVars
  <2>3. tx'.pc = "delete" => ~HasInstances(tx.work, tx.work[n].id)
    BY <2>1 DEF Typed, Types, TxType
  <2> QED
    BY <1>5, <2>2, <2>3 DEF CountInstances, WorkKeeps, HasInstances, InstancesOf, ById
<1>6. CASE Reconcile
  <2>1. tx'.work = Reconciled(tx.work, tx.m, tx.n, tx.pc) /\ tx'.pc = "count" /\ UNCHANGED inst
    BY <1>6 DEF Reconcile, Typed, Types, TxType, dbVars
  <2>2. tx.n \in Nodes /\ tx.work \in Graph /\ tx.pc # "idle"
    BY <1>6 DEF Reconcile, Typed, Types, Steps, TxType
  <2>3. ASSUME NEW e \in Elements, inst[e] \in Nodes
        PROVE  tx'.work[inst[e]] # NoNode
    <3>1. tx.work[inst[e]] # NoNode
      BY <2>2, <2>3 DEF WorkKeeps
    <3>2. CASE tx.pc = "orphan"
      BY <2>1, <2>2, <2>3, <3>1, <3>2, ReconciledOwners
    <3>3. CASE tx.pc = "delete"
      <4>1. inst[e] \notin ById(tx.work, tx.work[tx.n].id)
        BY <3>3 DEF WorkKeeps, HasInstances, InstancesOf
      <4>2. tx'.work[inst[e]] = tx.work[inst[e]]
        BY <2>1, <2>2, <2>3, <4>1, ReconciledOwners DEF Owned
      <4> QED
        BY <3>1, <4>2
    <3> QED
      BY <1>6, <3>2, <3>3 DEF Reconcile
  <2> QED
    BY <2>1, <2>3 DEF WorkKeeps
<1>7. CASE UpsertThrows \/ ReconcileThrows
  <2>1. tx'.work = tx.work /\ tx'.pc # "delete" /\ tx.pc # "idle" /\ UNCHANGED inst
    <3>1. CASE UpsertThrows
      BY <3>1 DEF UpsertThrows, Typed, Types, TxType, dbVars
    <3>2. CASE ReconcileThrows
      BY <3>2 DEF ReconcileThrows, Typed, Types, TxType, dbVars
    <3> QED
      BY <1>7, <3>1, <3>2
  <2> QED
    BY <2>1 DEF WorkKeeps
<1> QED
  BY <1>1, <1>2, <1>3, <1>4, <1>5, <1>6, <1>7, TxSteps

\* An install never takes an element's class away, for any releases, any rebind
\* policy and any failures: reconciliation counts a dropped class's instances in
\* one statement of its transaction and deletes it in a later one, and with
\* snapshots nobody can bind an element to it in between.  On a read-committed
\* database somebody can (identity_read_committed).
THEOREM InstallKeepsInstancesHolds == Snapshots /\ Spec => InstallKeepsInstances
<1> SUFFICES ASSUME Snapshots
             PROVE  Spec => InstallKeepsInstances
  OBVIOUS
<1>1. Init => WorkKeeps
  BY DEF Init, WorkKeeps, NoTx
<1>2. Typed /\ OwnerInv /\ WorkKeeps /\ [Next]_vars => WorkKeeps'
  BY NextKeeps
<1>3. Spec => []WorkKeeps
  BY <1>1, <1>2, OwnersHold, PTL DEF Spec
<1>4. WorkKeeps /\ [Next]_vars =>
        [Commit => \A e \in Elements : inst[e] \in Nodes => inst'[e] = inst[e]]_vars
  BY DEF WorkKeeps, Commit, Detached
<1> QED
  BY <1>3, <1>4, PTL DEF Spec, InstallKeepsInstances

----------------------------------------------------------------------------
(* Identity: ids, and names within a module *)

DistinctIds(w) == \A n, k \in Existing(w) : w[n].id = w[k].id => n = k

DistinctPerModule(w) ==
    \A n, k \in Existing(w) : w[n].owner = w[k].owner /\ w[n].name = w[k].name => n = k

\* The declared class as an active node of module m.
Node(m, cls) == [owner |-> m, name |-> cls.name, id |-> cls.id, live |-> TRUE]

\* What upsertClass does when it applies a class: one node becomes the class, and
\* no other has its id.  It was free, or the module's node of that name, or the
\* module's node of a name that is no longer declared.
Placed(w, v, m, cls, names, n) ==
    /\ n \in Nodes /\ v = [w EXCEPT ![n] = Node(m, cls)]
    /\ \A k \in Existing(w) : w[k].id = cls.id => k = n
    /\ \/ n \in FreeNodes(w) /\ ByName(w, m, cls.name) = {}
       \/ w[n].owner = m /\ w[n].name = cls.name
       \/ w[n].owner = m /\ w[n].name \notin names /\ ByName(w, m, cls.name) = {}

LEMMA NodeIsClass ==
    ASSUME NEW m \in Modules, NEW cls \in Entries
    PROVE  /\ Node(m, cls) \in Class /\ Node(m, cls) # NoNode
           /\ Node(m, cls).owner = m /\ Node(m, cls).name = cls.name
           /\ Node(m, cls).id = cls.id /\ Node(m, cls).live = TRUE
<1>1. NoModule \notin Modules
  BY IdentityAssumption DEF IdentityAssumption
<1>2. Node(m, cls).owner = m /\ NoNode.owner = NoModule
  BY DEF Node, NoNode
<1>3. Node(m, cls) # NoNode
  BY <1>1, <1>2
<1> QED
  BY <1>3 DEF Node, Class, Entries

\* With distinct ids, reviving and renaming touch the node found and no other.
LEMMA RevivedNode ==
    ASSUME NEW w \in Graph, DistinctIds(w), NEW n \in Existing(w)
    PROVE  Revived(w, n) = [w EXCEPT ![n] = [w[n] EXCEPT !.live = TRUE]]
<1>1. n \in Nodes /\ w[n] \in Class
  BY NodeFacts DEF Existing
<1>2. CASE w[n].live
  <2>1. [w[n] EXCEPT !.live = TRUE] = w[n]
    BY <1>1, <1>2 DEF Class
  <2> QED
    BY <1>1, <1>2, <2>1 DEF Revived, Graph
<1>3. CASE ~w[n].live
  <2>1. Owned(w, w[n].owner, w[n].id) = {n}
    BY <1>1 DEF Owned, ById, DistinctIds, Existing
  <2> DEFINE v == [k \in Nodes |-> IF k \in {n} THEN [w[k] EXCEPT !.live = TRUE] ELSE w[k]]
  <2>2. Revived(w, n) = v
    BY <1>3, <2>1 DEF Revived, SetLive
  <2>3. v = [w EXCEPT ![n] = [w[n] EXCEPT !.live = TRUE]]
    BY <1>1 DEF Graph
  <2> QED
    BY <2>2, <2>3
<1> QED
  BY <1>2, <1>3

LEMMA IsNode ==
    ASSUME NEW x \in Class, NEW m, NEW cls, x.owner = m, x.name = cls.name, x.id = cls.id,
           x.live = TRUE
    PROVE  x = Node(m, cls)
BY DEF Class, Node

LEMMA NamedNode ==
    ASSUME NEW v \in Graph, NEW cls \in Entries, NEW m \in Modules, NEW n \in Nodes,
           v[n] \in Class, v[n].owner = m, v[n].id = cls.id, v[n].live = TRUE,
           \A k \in Existing(v) : v[k].id = cls.id => k = n
    PROVE  SetProperties(v, cls) = [v EXCEPT ![n] = Node(m, cls)]
<1>2. n \in Existing(v)
  BY NodeFacts DEF Existing
<1>3. ById(v, cls.id) = {n}
  BY <1>2 DEF ById, Existing
<1>4. [v[n] EXCEPT !.name = cls.name] = Node(m, cls)
  <2> DEFINE x == [v[n] EXCEPT !.name = cls.name]
  <2>1. x \in Class /\ x.owner = m /\ x.name = cls.name /\ x.id = cls.id /\ x.live = TRUE
    BY DEF Class, Entries
  <2> HIDE DEF x
  <2>2. x = Node(m, cls)
    BY <2>1, IsNode
  <2> QED
    BY <2>2 DEF x
<1>5. SetProperties(v, cls) = [k \in Nodes |-> IF k = n THEN Node(m, cls) ELSE v[k]]
  BY <1>3, <1>4 DEF SetProperties
<1> QED
  BY <1>5 DEF Graph

\* The node found has the class's id: it is revived and takes the class's name.
LEMMA NodeById ==
    ASSUME NEW w \in Graph, DistinctIds(w), NEW m \in Modules, NEW cls \in Entries,
           NEW n \in Existing(w), w[n].owner = m, w[n].id = cls.id
    PROVE  /\ SetProperties(Revived(w, n), cls) = [w EXCEPT ![n] = Node(m, cls)]
           /\ \A k \in Existing(w) : w[k].id = cls.id => k = n
<1>1. n \in Nodes /\ w[n] \in Class
  BY NodeFacts DEF Existing
<1>2. \A k \in Existing(w) : w[k].id = cls.id => k = n
  BY DEF DistinctIds
<1> DEFINE v == Revived(w, n)
<1>0. v \in Graph
  BY RevivedType
<1>3. v = [w EXCEPT ![n] = [w[n] EXCEPT !.live = TRUE]]
  BY RevivedNode
<1> HIDE DEF v
<1>4. v[n] = [w[n] EXCEPT !.live = TRUE] /\ \A k \in Nodes : k # n => v[k] = w[k]
  BY <1>1, <1>3 DEF Graph
<1>5. v[n] \in Class /\ v[n].owner = m /\ v[n].id = cls.id /\ v[n].live = TRUE
  BY <1>1, <1>4 DEF Class
<1>6. \A k \in Existing(v) : v[k].id = cls.id => k = n
  BY <1>2, <1>4 DEF Existing
<1>7. SetProperties(v, cls) = [v EXCEPT ![n] = Node(m, cls)]
  BY <1>0, <1>1, <1>5, <1>6, NamedNode
<1>8. [v EXCEPT ![n] = Node(m, cls)] = [w EXCEPT ![n] = Node(m, cls)]
  BY <1>1, <1>3 DEF Graph
<1> QED
  BY <1>2, <1>7, <1>8 DEF v

\* The node found has another id, and no node has the class's: it takes it.
LEMMA NodeRebound ==
    ASSUME NEW w \in Graph, DistinctIds(w), NEW m \in Modules, NEW cls \in Entries,
           NEW n \in Existing(w), w[n].owner = m, ById(w, cls.id) = {}
    PROVE  SetProperties(SetId(Revived(w, n), Owned(w, m, w[n].id), cls.id), cls)
              = [w EXCEPT ![n] = Node(m, cls)]
<1>1. n \in Nodes /\ w[n] \in Class
  BY NodeFacts DEF Existing
<1>2. Owned(w, m, w[n].id) = {n}
  BY <1>1 DEF Owned, ById, DistinctIds, Existing
<1> DEFINE u == Revived(w, n)
           v == SetId(u, {n}, cls.id)
<1>3. u \in Graph /\ u = [w EXCEPT ![n] = [w[n] EXCEPT !.live = TRUE]]
  BY RevivedType, RevivedNode
<1>4. n \in Existing(u)
  BY <1>1, RevivedKeeps DEF Existing
<1>5. v \in Graph
  <2> HIDE DEF u
  <2> QED
    BY <1>3, <1>4, SetIdType DEF Entries
<1>6. v = [k \in Nodes |-> IF k \in {n} THEN [u[k] EXCEPT !.id = cls.id] ELSE u[k]]
  BY DEF SetId
<1> HIDE DEF u, v
<1>7. u[n] = [w[n] EXCEPT !.live = TRUE] /\ \A k \in Nodes : k # n => u[k] = w[k]
  BY <1>1, <1>3 DEF Graph
<1>8. v[n] = [u[n] EXCEPT !.id = cls.id] /\ \A k \in Nodes : k # n => v[k] = w[k]
  BY <1>1, <1>6, <1>7
<1>9. v[n] \in Class /\ v[n].owner = m /\ v[n].id = cls.id /\ v[n].live = TRUE
  BY <1>1, <1>7, <1>8 DEF Class, Entries
<1>10. \A k \in Existing(v) : v[k].id = cls.id => k = n
  BY <1>8 DEF Existing, ById
<1>11. SetProperties(v, cls) = [v EXCEPT ![n] = Node(m, cls)]
  BY <1>1, <1>5, <1>9, <1>10, NamedNode
<1>12. [v EXCEPT ![n] = Node(m, cls)] = [w EXCEPT ![n] = Node(m, cls)]
  BY <1>1, <1>5, <1>8 DEF Graph
<1> QED
  BY <1>2, <1>11, <1>12 DEF u, v

\* upsertClass skips the class or places it, once ids are distinct.
LEMMA UpsertEffect ==
    ASSUME NEW w \in Graph, DistinctIds(w), NEW m \in Modules, NEW cls \in Entries,
           NEW names, NEW policy, NEW r \in UpsertResults(w, m, cls, names, policy)
    PROVE  \/ r = Skipped(w)
           \/ \E v, n : r = Applied(v) /\ Placed(w, v, m, cls, names, n)
<1>1. CASE ByName(w, m, cls.name) # {}
  <2>1. PICK n \in ByName(w, m, cls.name) : r = UpsertByName(w, m, cls, n, policy)
    BY <1>1 DEF UpsertResults
  <2>2. n \in Existing(w) /\ w[n].owner = m /\ w[n].name = cls.name
    BY NodeFacts DEF ByName, Existing
  <2>3. CASE w[n].id = cls.id
    <3>1. r = Applied([w EXCEPT ![n] = Node(m, cls)])
      BY <2>1, <2>2, <2>3, NodeById DEF UpsertByName
    <3>2. \A k \in Existing(w) : w[k].id = cls.id => k = n
      BY <2>2, <2>3, NodeById
    <3>3. Placed(w, [w EXCEPT ![n] = Node(m, cls)], m, cls, names, n)
      BY <2>2, <3>2 DEF Placed, Existing
    <3> QED
      BY <3>1, <3>3
  <2>4. CASE w[n].id # cls.id
    <3>1. r = Rebind(w, m, cls, n, policy)
      BY <2>1, <2>4 DEF UpsertByName
    <3>2. CASE policy = "strict" \/ ById(w, cls.id) # {}
      BY <3>1, <3>2 DEF Rebind
    <3>3. CASE ~(policy = "strict" \/ ById(w, cls.id) # {})
      <4>1. r = Applied([w EXCEPT ![n] = Node(m, cls)])
        BY <2>2, <3>1, <3>3, NodeRebound DEF Rebind
      <4>2. \A k \in Existing(w) : w[k].id = cls.id => k = n
        BY <3>3 DEF ById, Existing
      <4>3. Placed(w, [w EXCEPT ![n] = Node(m, cls)], m, cls, names, n)
        BY <2>2, <4>2 DEF Placed, Existing
      <4> QED
        BY <4>1, <4>3
    <3> QED
      BY <3>2, <3>3
  <2> QED
    BY <2>3, <2>4
<1>2. CASE ByName(w, m, cls.name) = {}
  <2>1. r \in UpsertById(w, m, cls, names)
    BY <1>2 DEF UpsertResults
  <2>2. CASE ById(w, cls.id) = {}
    <3>1. PICK n \in FreeNodes(w) : r = Applied([w EXCEPT ![n] = Node(m, cls)])
      BY <2>1, <2>2 DEF UpsertById, CreateClass, Node
    <3>2. Placed(w, [w EXCEPT ![n] = Node(m, cls)], m, cls, names, n)
      BY <1>2, <2>2 DEF Placed, FreeNodes, ById, Existing
    <3> QED
      BY <3>1, <3>2
  <2>3. CASE ById(w, cls.id) # {}
    <3>1. PICK n \in ById(w, cls.id) :
            r = IF IsRename(w, m, n, names) THEN Applied(SetProperties(Revived(w, n), cls))
                ELSE Skipped(w)
      BY <2>1, <2>3 DEF UpsertById
    <3>2. CASE ~IsRename(w, m, n, names)
      BY <3>1, <3>2
    <3>3. CASE IsRename(w, m, n, names)
      <4>1. n \in Existing(w) /\ w[n].id = cls.id /\ w[n].owner = m /\ w[n].name \notin names
        BY <3>3 DEF IsRename, ById, Existing
      <4>2. r = Applied([w EXCEPT ![n] = Node(m, cls)])
        BY <3>1, <3>3, <4>1, NodeById
      <4>3. \A k \in Existing(w) : w[k].id = cls.id => k = n
        BY <4>1, NodeById
      <4>4. Placed(w, [w EXCEPT ![n] = Node(m, cls)], m, cls, names, n)
        BY <1>2, <4>1, <4>3 DEF Placed, Existing
      <4> QED
        BY <4>2, <4>4
    <3> QED
      BY <3>2, <3>3
  <2> QED
    BY <2>2, <2>3
<1> QED
  BY <1>1, <1>2

\* Every request is of a mutation in use.
InUse ==
    \A a \in Admins :
        /\ (req[a].pc \in {"migrateCheck", "migrateWrite"} => "migrate" \in AdminOps)
        /\ (req[a].pc # "idle" => AdminOps # {})

LEMMA NextInUse ==
    ASSUME Typed, InUse, [Next]_vars
    PROVE  InUse'
<1>0. NoReq.pc = "idle"
  BY DEF NoReq
<1>1. CASE UNCHANGED req
  BY <1>1 DEF InUse
<1>2. CASE Halt
  <2>1. \A a \in Admins : req'[a] = req[a] \/ req'[a] = NoReq
    BY <1>2 DEF Halt
  <2> QED
    BY <1>0, <2>1 DEF InUse
<1>3. ASSUME NEW a \in Admins, Administer(a)
      PROVE  InUse'
  <2>1. /\ \A b \in Admins : b # a => req'[b] = req[b]
        /\ \/ req'[a].pc = "idle"
           \/ req'[a].pc = "migrateCheck" /\ "migrate" \in AdminOps
           \/ req'[a].pc = "migrateWrite" /\ req[a].pc = "migrateCheck"
           \/ req'[a].pc \in {"reviveWrite", "deleteCount", "merge"} /\ AdminOps # {}
           \/ req'[a].pc \in {"deleteWrite", "merge"} /\ req[a].pc # "idle"
    <3>0. req[a] \in ReqType /\ (Answer(a) => req'[a].pc = "idle" /\ \A b \in Admins : b # a => req'[b] = req[b])
      BY <1>0, AnswerTyped DEF Typed, Types
    <3>1. ASSUME NEW m, NEW name, NEW new, MigrateRead(a, m, name, new)
          PROVE  /\ \A b \in Admins : b # a => req'[b] = req[b]
                 /\ req'[a].pc = "migrateCheck" /\ "migrate" \in AdminOps
      BY <3>1 DEF MigrateRead, Typed, Types, NoReq
    <3>2. CASE MigrateCheck(a)
      BY <3>0, <3>2 DEF MigrateCheck, Typed, Types, ReqType
    <3>3. CASE MigrateWrite(a) \/ ReviveWrite(a) \/ DeleteWrite(a)
      BY <3>0, <3>3 DEF MigrateWrite, ReviveWrite, DeleteWrite
    <3>4. ASSUME NEW id, ReviveRead(a, id)
          PROVE  /\ \A b \in Admins : b # a => req'[b] = req[b]
                 /\ req'[a].pc = "reviveWrite" /\ AdminOps # {}
      BY <3>4 DEF ReviveRead, Typed, Types, NoReq
    <3>5. ASSUME NEW id, NEW cascade, DeleteRead(a, id, cascade)
          PROVE  /\ \A b \in Admins : b # a => req'[b] = req[b]
                 /\ req'[a].pc = "deleteCount" /\ AdminOps # {}
      BY <3>5 DEF DeleteRead, Typed, Types, NoReq
    <3>6. CASE DeleteCount(a)
      BY <3>0, <3>6 DEF DeleteCount, Typed, Types, ReqType
    <3>7. CASE DedupRead(a)
      BY <3>7 DEF DedupRead, Typed, Types, NoReq
    <3>8. ASSUME NEW g \in req[a].groups, NextGroup(a, g), req[a].pc = "merge"
          PROVE  /\ \A b \in Admins : b # a => req'[b] = req[b]
                 /\ req'[a].pc \in {"idle", "merge"}
      <4> DEFINE rest == req[a].groups \ {g}
                 next == IF rest = {} THEN NoReq ELSE [req[a] EXCEPT !.groups = rest]
      <4>1. req' = [req EXCEPT ![a] = next]
        BY <3>8 DEF NextGroup
      <4>2. next.pc \in {"idle", "merge"}
        BY <1>0, <3>0, <3>8 DEF ReqType
      <4> HIDE DEF next
      <4> QED
        BY <4>1, <4>2 DEF Typed, Types
    <3>9. ASSUME NEW g \in req[a].groups, MergeGroup(a, g) \/ MergeFails(a, g)
          PROVE  /\ \A b \in Admins : b # a => req'[b] = req[b]
                 /\ req'[a].pc \in {"idle", "merge"} /\ req[a].pc # "idle"
      BY <3>8, <3>9 DEF MergeGroup, MergeFails
    <3> QED
      BY <1>3, <3>1, <3>2, <3>3, <3>4, <3>5, <3>6, <3>7, <3>9 DEF Administer
  <2> QED
    BY <2>1 DEF InUse
<1>4. ASSUME NEW e \in Elements, UseClasses(e)
      PROVE  UNCHANGED req
  BY <1>4 DEF UseClasses, BindCheck, BindWrite, Unbind
<1>5. CASE Operate
  BY <1>1, <1>2, <1>5 DEF Operate, Withdraw, Reset, Release, Restart, Crash
<1>6. CASE Start \/ Install \/ InstallFails
  <2>1. UNCHANGED req
    BY <1>6 DEF Start, Boot, Install, InstallFails, BeginModule, Upsert, ListUndeclared,
       CountInstances, Reconcile, Commit, ModulesDone, SweepObsolete, RunHooks, UpsertThrows,
       ReconcileThrows, Abort, SweepThrows
  <2> QED
    BY <1>1, <2>1
<1>7. CASE UNCHANGED vars
  BY <1>1, <1>7 DEF vars
<1> QED
  BY <1>1, <1>3, <1>4, <1>5, <1>6, <1>7 DEF Next

\* A request in progress is of a kind of mutation that is in use: what lets the
\* theorems below rule out the mutations an installation does not use.
THEOREM InUseHolds == Spec => []InUse
<1>1. Init => InUse
  BY DEF Init, InUse, NoReq
<1>2. Typed /\ InUse /\ [Next]_vars => InUse'
  BY NextInUse
<1> QED
  BY <1>1, <1>2, TypedHolds, PTL DEF Spec

\* v has some of w's classes, as they are but for the edge.
Shrunk(w, v) ==
    \A n \in Nodes : v[n] # NoNode =>
        /\ w[n] # NoNode
        /\ v[n].owner = w[n].owner /\ v[n].name = w[n].name /\ v[n].id = w[n].id

LEMMA ShrunkDistinct ==
    ASSUME NEW w, NEW v, Shrunk(w, v)
    PROVE  /\ (DistinctIds(w) => DistinctIds(v))
           /\ (DistinctPerModule(w) => DistinctPerModule(v))
BY DEF Shrunk, DistinctIds, DistinctPerModule, Existing

LEMMA ReconcileShrinks ==
    ASSUME Typed, Reconcile
    PROVE  Shrunk(tx.work, tx'.work) /\ tx.pc # "idle"
<1>1. tx'.work = Reconciled(tx.work, tx.m, tx.n, tx.pc)
  BY DEF Reconcile, Typed, Types, TxType
<1>2. tx.n \in Nodes /\ tx.work \in Graph
  BY DEF Reconcile, Typed, Types, Steps, TxType
<1>3. \A n \in Nodes : tx'.work[n] # NoNode =>
          /\ tx.work[n] # NoNode
          /\ tx'.work[n].owner = tx.work[n].owner /\ tx'.work[n].name = tx.work[n].name
          /\ tx'.work[n].id = tx.work[n].id
  BY <1>1, <1>2, ReconciledOwners
<1> QED
  BY <1>3 DEF Shrunk, Reconcile

LEMMA NodesSteps ==
    ASSUME Typed, Next
    PROVE  \/ UNCHANGED nodes
           \/ Commit
           \/ Shrunk(nodes, nodes') /\ (SweepObsolete \/ AdminOps # {} \/ ~InUse)
           \/ \E a \in Admins : MigrateWrite(a)
<1>1. CASE Operate \/ Start
  BY <1>1 DEF Operate, Withdraw, Reset, Release, Restart, Crash, Halt, Start, Boot, dbVars
<1>2. CASE SweepObsolete
  BY <1>2 DEF SweepObsolete, Shrunk, Without
<1>3. CASE Install \/ InstallFails
  BY <1>2, <1>3 DEF Install, InstallFails, BeginModule, Upsert, ListUndeclared, CountInstances,
     Reconcile, ModulesDone, RunHooks, UpsertThrows, ReconcileThrows, Abort, SweepThrows, dbVars
<1>4. ASSUME NEW a \in Admins, Administer(a), nodes' # nodes, ~MigrateWrite(a)
      PROVE  Shrunk(nodes, nodes') /\ (AdminOps # {} \/ ~InUse)
  <2>0. req[a].pc # "idle" => (AdminOps # {} \/ ~InUse)
    BY DEF InUse
  <2>1. CASE ReviveWrite(a)
    <3> DEFINE v == SetLive(nodes, req[a].m, req[a].old, TRUE)
    <3>1. Flipped(nodes, req[a].m, req[a].old, v) /\ nodes' = v /\ nodes \in Graph
      BY <2>1, SetLiveFlips DEF ReviveWrite, Typed, Types
    <3> HIDE DEF v
    <3>2. \A n \in Nodes :
             /\ v[n].owner = nodes[n].owner /\ v[n].name = nodes[n].name /\ v[n].id = nodes[n].id
             /\ (v[n] = NoNode <=> nodes[n] = NoNode)
      BY <3>1, SetLiveKeeps
    <3>3. Shrunk(nodes, nodes')
      BY <3>1, <3>2 DEF Shrunk
    <3> QED
      BY <2>0, <2>1, <3>3 DEF ReviveWrite
  <2>2. CASE DeleteWrite(a)
    BY <2>0, <2>2 DEF DeleteWrite, Without, Shrunk
  <2>3. ASSUME NEW g \in req[a].groups, MergeGroup(a, g)
        PROVE  Shrunk(nodes, nodes') /\ req[a].pc # "idle"
    BY <2>3 DEF MergeGroup, Without, Shrunk
  <2> QED
    BY <1>4, <2>0, <2>1, <2>2, <2>3 DEF Administer, MigrateRead, MigrateCheck, ReviveRead,
       DeleteRead, DeleteCount, DedupRead, MergeFails, dbVars
<1>5. ASSUME NEW e \in Elements, UseClasses(e)
      PROVE  UNCHANGED nodes
  BY <1>5 DEF UseClasses, BindCheck, BindWrite, Unbind, dbVars
<1> QED
  BY <1>1, <1>3, <1>4, <1>5 DEF Next

LEMMA PlacedFacts ==
    ASSUME NEW w \in Graph, NEW v, NEW m \in Modules, NEW cls \in Entries, NEW names, NEW n,
           Placed(w, v, m, cls, names, n)
    PROVE  /\ n \in Nodes /\ v[n] = Node(m, cls) /\ \A k \in Nodes : k # n => v[k] = w[k]
           /\ v[n] # NoNode /\ v[n].owner = m /\ v[n].name = cls.name /\ v[n].id = cls.id
<1>1. n \in Nodes /\ v = [w EXCEPT ![n] = Node(m, cls)]
  BY DEF Placed
<1>2. v[n] = Node(m, cls) /\ \A k \in Nodes : k # n => v[k] = w[k]
  BY <1>1 DEF Graph
<1>3. Node(m, cls) # NoNode /\ Node(m, cls).owner = m /\ Node(m, cls).name = cls.name
      /\ Node(m, cls).id = cls.id
  BY NodeIsClass
<1> QED
  BY <1>1, <1>2, <1>3

LEMMA PlacedDistinct ==
    ASSUME NEW w \in Graph, NEW v, NEW m \in Modules, NEW cls \in Entries, NEW names, NEW n,
           Placed(w, v, m, cls, names, n), DistinctIds(w)
    PROVE  DistinctIds(v) /\ (DistinctPerModule(w) => DistinctPerModule(v))
<1>1. /\ n \in Nodes /\ \A k \in Nodes : k # n => v[k] = w[k]
      /\ v[n].owner = m /\ v[n].name = cls.name /\ v[n].id = cls.id
  BY PlacedFacts
<1>2. \A k \in Existing(w) : w[k].id = cls.id => k = n
  BY DEF Placed
<1>3. DistinctIds(v)
  BY <1>1, <1>2 DEF DistinctIds, Existing
<1>4. ASSUME DistinctPerModule(w)
      PROVE  DistinctPerModule(v)
  <2>1. \A k \in Existing(w) : w[k].owner = m /\ w[k].name = cls.name => k = n
    <3> SUFFICES ASSUME NEW k \in Existing(w), w[k].owner = m, w[k].name = cls.name
                 PROVE  k = n
      OBVIOUS
    <3>1. ByName(w, m, cls.name) # {}
      BY DEF ByName, Existing
    <3>2. w[n].owner = m /\ w[n].name = cls.name
      BY <3>1 DEF Placed
    <3>3. n \in Existing(w)
      BY <1>1, <3>2, NodeFacts DEF Existing
    <3> QED
      BY <1>4, <3>2, <3>3 DEF DistinctPerModule
  <2> QED
    BY <1>1, <1>4, <2>1 DEF DistinctPerModule, Existing
<1> QED
  BY <1>3, <1>4

\* The platform starts on a graph whose class ids are distinct.
InitIdsDistinct ==
    \A i, j \in DOMAIN InitNodes : InitNodes[i].id = InitNodes[j].id => i = j

\* The same of the names within a module.
InitNamesDistinct ==
    \A i, j \in DOMAIN InitNodes :
        InitNodes[i].owner = InitNodes[j].owner /\ InitNodes[i].name = InitNodes[j].name => i = j

\* A migration of a class id meets the database's constraint, or is not in use.
IdsGuarded == IdConstraint \/ "migrate" \notin AdminOps

IdInv == DistinctIds(nodes) /\ (tx.pc # "idle" => DistinctIds(tx.work))

NameInv == DistinctPerModule(nodes) /\ (tx.pc # "idle" => DistinctPerModule(tx.work))

LEMMA InitDistinct ==
    ASSUME Init
    PROVE  /\ (InitIdsDistinct => IdInv)
           /\ (InitNamesDistinct => NameInv)
<1>1. InitNodes \in Seq(Class)
  BY IdentityAssumption DEF IdentityAssumption, Class
<1>2. \A n \in Nodes : nodes[n] # NoNode => n \in DOMAIN InitNodes /\ nodes[n] = InitNodes[n]
  BY <1>1, Bounds DEF Init, Nodes
<1>3. tx.pc = "idle"
  BY DEF Init, NoTx
<1> QED
  BY <1>2, <1>3 DEF InitIdsDistinct, InitNamesDistinct, IdInv, NameInv, DistinctIds,
     DistinctPerModule, Existing

\* The steps of a transaction keep ids distinct, and with them names.
LEMMA WorkDistinct ==
    ASSUME Typed, IdInv, Next, tx'.pc # "idle"
    PROVE  DistinctIds(tx'.work) /\ (NameInv => DistinctPerModule(tx'.work))
<1>1. CASE UNCHANGED tx
  BY <1>1 DEF IdInv, NameInv
<1>2. ASSUME NEW m \in Modules, BeginModule(m)
      PROVE  DistinctIds(tx'.work) /\ (NameInv => DistinctPerModule(tx'.work))
  <2>1. tx'.work = nodes
    BY <1>2 DEF BeginModule, NoTx
  <2> QED
    BY <2>1 DEF IdInv, NameInv
<1>3. CASE Upsert
  <2> DEFINE cls == tx.rel.decl[tx.i]
  <2>1. PICK r \in UpsertResults(tx.work, tx.m, cls, DeclaredNames(tx.rel.decl), tx.rel.policy) :
            tx' = [tx EXCEPT !.i = @ + 1, !.work = r.w,
                             !.applied = IF r.ok THEN @ + 1 ELSE @]
    BY <1>3 DEF Upsert
  <2>2. tx'.work = r.w
    BY <2>1 DEF Typed, Types, TxType
  <2>3. tx.m \in Modules /\ cls \in Entries /\ tx.work \in Graph /\ DistinctIds(tx.work)
    BY <1>3, UpsertClass DEF Upsert, IdInv
  <2> HIDE DEF cls
  <2>4. \/ r = Skipped(tx.work)
        \/ \E v, n : r = Applied(v) /\ Placed(tx.work, v, tx.m, cls, DeclaredNames(tx.rel.decl), n)
    BY <2>1, <2>3, UpsertEffect
  <2>5. CASE r = Skipped(tx.work)
    BY <1>3, <2>2, <2>3, <2>5 DEF Skipped, NameInv, Upsert
  <2>6. ASSUME NEW v, NEW n, r = Applied(v),
               Placed(tx.work, v, tx.m, cls, DeclaredNames(tx.rel.decl), n)
        PROVE  DistinctIds(tx'.work) /\ (NameInv => DistinctPerModule(tx'.work))
    <3>1. tx'.work = v
      BY <2>2, <2>6 DEF Applied
    <3>2. DistinctIds(v) /\ (DistinctPerModule(tx.work) => DistinctPerModule(v))
      BY <2>3, <2>6, PlacedDistinct
    <3> QED
      BY <1>3, <3>1, <3>2 DEF NameInv, Upsert
  <2> QED
    BY <2>4, <2>5, <2>6
<1>4. CASE ListUndeclared \/ CountInstances \/ UpsertThrows \/ ReconcileThrows
  <2>1. tx'.work = tx.work /\ tx.pc # "idle"
    <3>1. CASE ListUndeclared \/ CountInstances
      BY <3>1 DEF ListUndeclared, CountInstances, Typed, Types, TxType
    <3>2. CASE UpsertThrows \/ ReconcileThrows
      BY <3>2 DEF UpsertThrows, ReconcileThrows, Typed, Types, TxType
    <3> QED
      BY <1>4, <3>1, <3>2
  <2> QED
    BY <2>1 DEF IdInv, NameInv
<1>5. CASE Reconcile
  BY <1>5, ReconcileShrinks, ShrunkDistinct DEF IdInv, NameInv
<1> QED
  BY <1>1, <1>2, <1>3, <1>4, <1>5, TxSteps

LEMMA MigrateDistinct ==
    ASSUME IdsGuarded, Typed, InUse, DistinctIds(nodes), NEW a \in Admins, MigrateWrite(a)
    PROVE  DistinctIds(nodes)'
<1> DEFINE found == {n \in Owned(nodes, req[a].m, req[a].old) : nodes[n].name = req[a].name}
           v == SetId(nodes, found, req[a].new)
<1>1. /\ nodes \in Graph /\ found \in SUBSET Existing(nodes) /\ req[a].new \in Ids
      /\ nodes' = nodes \/ (nodes' = v /\ ~(IdConstraint /\ ById(nodes, req[a].new) # {}))
  BY MigratedIds DEF Typed, Types
<1>2. IdConstraint
  BY DEF IdsGuarded, InUse, MigrateWrite
<1>3. CASE nodes' = nodes
  BY <1>3 DEF DistinctIds, Existing
<1>4. CASE nodes' = v /\ ById(nodes, req[a].new) = {}
  <2>1. \A n, k \in found : n = k
    BY DEF Owned, ById, DistinctIds, Existing
  <2>2. \A k \in Existing(nodes) : nodes[k].id # req[a].new
    BY <1>4 DEF ById, Existing
  <2>3. \A n \in Nodes : /\ v[n].id = (IF n \in found THEN req[a].new ELSE nodes[n].id)
                         /\ (v[n] = NoNode <=> nodes[n] = NoNode)
    <3> HIDE DEF found
    <3> QED
      BY <1>1, SetIdKeeps
  <2> HIDE DEF found, v
  <2> QED
    BY <1>4, <2>1, <2>2, <2>3 DEF DistinctIds, Existing
<1> QED
  BY <1>1, <1>2, <1>3, <1>4

LEMMA NextIds ==
    ASSUME IdsGuarded, Typed, InUse, IdInv, [Next]_vars
    PROVE  IdInv'
<1>0. CASE UNCHANGED vars
  BY <1>0 DEF vars, dbVars, IdInv, DistinctIds, Existing
<1>1. CASE Next
  <2>1. tx'.pc # "idle" => DistinctIds(tx.work)'
    <3>1. tx'.pc # "idle" => DistinctIds(tx'.work)
      BY <1>1, WorkDistinct
    <3> QED
      BY <3>1 DEF DistinctIds, Existing
  <2>2. CASE UNCHANGED nodes
    BY <2>1, <2>2 DEF IdInv, DistinctIds, Existing
  <2>3. CASE Commit
    BY <2>1, <2>3 DEF IdInv, Commit, DistinctIds, Existing
  <2>4. CASE Shrunk(nodes, nodes')
    <3>1. DistinctIds(nodes')
      BY <2>4, ShrunkDistinct DEF IdInv
    <3> QED
      BY <2>1, <3>1 DEF IdInv, DistinctIds, Existing
  <2>5. ASSUME NEW a \in Admins, MigrateWrite(a)
        PROVE  IdInv'
    BY <2>1, <2>5, MigrateDistinct DEF IdInv
  <2> QED
    BY <1>1, <2>2, <2>3, <2>4, <2>5, NodesSteps
<1> QED
  BY <1>0, <1>1

LEMMA NextNames ==
    ASSUME Typed, IdInv, NameInv, [Next]_vars
    PROVE  NameInv'
<1>0. CASE UNCHANGED vars
  BY <1>0 DEF vars, dbVars, NameInv, DistinctPerModule, Existing
<1>1. CASE Next
  <2>1. tx'.pc # "idle" => DistinctPerModule(tx.work)'
    <3>1. tx'.pc # "idle" => DistinctPerModule(tx'.work)
      BY <1>1, WorkDistinct
    <3> QED
      BY <3>1 DEF DistinctPerModule, Existing
  <2>2. CASE UNCHANGED nodes
    BY <2>1, <2>2 DEF NameInv, DistinctPerModule, Existing
  <2>3. CASE Commit
    BY <2>1, <2>3 DEF NameInv, Commit, DistinctPerModule, Existing
  <2>4. CASE Shrunk(nodes, nodes')
    <3>1. DistinctPerModule(nodes')
      BY <2>4, ShrunkDistinct DEF NameInv
    <3> QED
      BY <2>1, <3>1 DEF NameInv, DistinctPerModule, Existing
  <2>5. ASSUME NEW a \in Admins, MigrateWrite(a)
        PROVE  NameInv'
    <3> DEFINE found == {n \in Owned(nodes, req[a].m, req[a].old) : nodes[n].name = req[a].name}
               v == SetId(nodes, found, req[a].new)
    <3>1. /\ nodes \in Graph /\ found \in SUBSET Existing(nodes) /\ req[a].new \in Ids
          /\ nodes' = nodes \/ nodes' = v
      BY <2>5, MigratedIds DEF Typed, Types
    <3>2. \A n \in Nodes : /\ v[n].owner = nodes[n].owner /\ v[n].name = nodes[n].name
                           /\ (v[n] = NoNode <=> nodes[n] = NoNode)
      <4> HIDE DEF found
      <4> QED
        BY <3>1, SetIdKeeps
    <3> HIDE DEF found, v
    <3>3. DistinctPerModule(nodes')
      BY <3>1, <3>2 DEF NameInv, DistinctPerModule, Existing
    <3> QED
      BY <2>1, <3>3 DEF NameInv, DistinctPerModule, Existing
  <2> QED
    BY <1>1, <2>2, <2>3, <2>4, <2>5, NodesSteps
<1> QED
  BY <1>0, <1>1

\* Two class nodes never have one id, without the database's constraint on ids,
\* whatever ids and names the releases of any number of modules declare, reuse, swap
\* or declare twice: upsertClass changes one node, and only to an id that no other
\* node has.  migrateClassId checks other modules' classes only, so the theorem asks
\* for the constraint where it is in use (identity_migrate shows why).
THEOREM UniqueIdsHolds == InitIdsDistinct /\ IdsGuarded /\ Spec => []UniqueIds
<1> SUFFICES ASSUME InitIdsDistinct, IdsGuarded
             PROVE  Spec => []UniqueIds
  OBVIOUS
<1>1. Init => IdInv
  BY InitDistinct
<1>2. Typed /\ InUse /\ IdInv /\ [Next]_vars => IdInv'
  BY NextIds
<1>3. IdInv => UniqueIds
  BY DEF IdInv, DistinctIds, UniqueIds
<1> QED
  BY <1>1, <1>2, <1>3, TypedHolds, InUseHolds, PTL DEF Spec

\* A module never has two class nodes of one name, the key by which upsertClass
\* finds the node to update: a node takes a declared name only when the module has
\* no node of that name, and a rename reaches one node because ids are distinct.
THEOREM UniqueNamesHolds ==
    InitIdsDistinct /\ InitNamesDistinct /\ IdsGuarded /\ Spec => []UniqueNames
<1> SUFFICES ASSUME InitIdsDistinct, InitNamesDistinct, IdsGuarded
             PROVE  Spec => []UniqueNames
  OBVIOUS
<1>1. Init => IdInv /\ NameInv
  BY InitDistinct
<1>2. Typed /\ InUse /\ IdInv /\ [Next]_vars => IdInv'
  BY NextIds
<1>3. Typed /\ IdInv /\ NameInv /\ [Next]_vars => NameInv'
  BY NextNames
<1>4. NameInv => UniqueNames
  BY DEF NameInv, DistinctPerModule, UniqueNames
<1> QED
  BY <1>1, <1>2, <1>3, <1>4, TypedHolds, InUseHolds, PTL DEF Spec

\* Every two nodes that are one module's class of one name in v are that in w.
NoNewPairs(w, v) ==
    \A n, k \in Existing(v) :
        n # k /\ v[n].owner = v[k].owner /\ v[n].name = v[k].name
        => {n, k} \subseteq Existing(w) /\ w[n].owner = w[k].owner /\ w[n].name = w[k].name

\* An open transaction has made no duplicate the graph does not have.
PairInv == tx.pc # "idle" => NoNewPairs(nodes, tx.work)

LEMMA PairsCompose ==
    ASSUME NEW u, NEW w, NEW v, NoNewPairs(u, w), NoNewPairs(w, v)
    PROVE  NoNewPairs(u, v)
BY DEF NoNewPairs

LEMMA ShrunkPairs ==
    ASSUME NEW w, NEW v, Shrunk(w, v)
    PROVE  NoNewPairs(w, v)
BY DEF Shrunk, NoNewPairs, Existing

LEMMA PlacedPairs ==
    ASSUME NEW w \in Graph, NEW v, NEW m \in Modules, NEW cls \in Entries, NEW names, NEW n,
           Placed(w, v, m, cls, names, n)
    PROVE  NoNewPairs(w, v)
<1>1. /\ n \in Nodes /\ \A k \in Nodes : k # n => v[k] = w[k]
      /\ v[n].owner = m /\ v[n].name = cls.name
  BY PlacedFacts
<1>2. ASSUME NEW k \in Existing(v), k # n, v[k].owner = m, v[k].name = cls.name
      PROVE  /\ {n, k} \subseteq Existing(w)
             /\ w[n].owner = w[k].owner /\ w[n].name = w[k].name
  <2>1. k \in Existing(w) /\ w[k].owner = m /\ w[k].name = cls.name
    BY <1>1, <1>2 DEF Existing
  <2>2. ByName(w, m, cls.name) # {}
    BY <2>1 DEF ByName, Existing
  <2>3. w[n].owner = m /\ w[n].name = cls.name
    BY <2>2 DEF Placed
  <2>4. n \in Existing(w)
    BY <1>1, <2>3, NodeFacts DEF Existing
  <2> QED
    BY <2>1, <2>3, <2>4
<1> QED
  BY <1>1, <1>2 DEF NoNewPairs, Existing

\* The administrator's writes and the sweep wait for an open transaction.
LEMMA OpenKeepsNodes ==
    ASSUME Typed, Next, tx.pc # "idle", tx'.pc # "idle"
    PROVE  UNCHANGED nodes
<1>1. CASE Operate \/ Start
  BY <1>1 DEF Operate, Withdraw, Reset, Release, Restart, Crash, Halt, Start, Boot, dbVars
<1>2. CASE Install
  <2>1. ~Commit
    BY DEF Commit, NoTx
  <2>2. ~SweepObsolete
    BY DEF SweepObsolete, Typed, Steps
  <2> QED
    BY <1>2, <2>1, <2>2 DEF Install, BeginModule, Upsert, ListUndeclared, CountInstances,
       Reconcile, ModulesDone, RunHooks, dbVars
<1>3. CASE InstallFails
  BY <1>3 DEF InstallFails, UpsertThrows, ReconcileThrows, Abort, SweepThrows, dbVars
<1>4. ASSUME NEW a \in Admins, Administer(a)
      PROVE  UNCHANGED nodes
  BY <1>4 DEF Administer, MigrateRead, MigrateCheck, MigrateWrite, ReviveRead, ReviveWrite,
     DeleteRead, DeleteCount, DeleteWrite, DedupRead, MergeGroup, MergeFails, dbVars
<1>5. ASSUME NEW e \in Elements, UseClasses(e)
      PROVE  UNCHANGED nodes
  BY <1>5 DEF UseClasses, BindCheck, BindWrite, Unbind, dbVars
<1> QED
  BY <1>1, <1>2, <1>3, <1>4, <1>5 DEF Next

LEMMA UpsertPairs ==
    ASSUME Typed, IdInv, Upsert
    PROVE  NoNewPairs(tx.work, tx'.work)
<1> DEFINE cls == tx.rel.decl[tx.i]
<1>1. PICK r \in UpsertResults(tx.work, tx.m, cls, DeclaredNames(tx.rel.decl), tx.rel.policy) :
          tx' = [tx EXCEPT !.i = @ + 1, !.work = r.w,
                           !.applied = IF r.ok THEN @ + 1 ELSE @]
  BY DEF Upsert
<1>2. tx'.work = r.w
  BY <1>1 DEF Typed, Types, TxType
<1>3. tx.m \in Modules /\ cls \in Entries /\ tx.work \in Graph /\ DistinctIds(tx.work)
  BY UpsertClass DEF Upsert, IdInv
<1> HIDE DEF cls
<1>4. \/ r = Skipped(tx.work)
      \/ \E v, n : r = Applied(v) /\ Placed(tx.work, v, tx.m, cls, DeclaredNames(tx.rel.decl), n)
  BY <1>1, <1>3, UpsertEffect
<1>5. CASE r = Skipped(tx.work)
  BY <1>2, <1>5 DEF Skipped, NoNewPairs
<1>6. ASSUME NEW v, NEW n, r = Applied(v),
             Placed(tx.work, v, tx.m, cls, DeclaredNames(tx.rel.decl), n)
      PROVE  NoNewPairs(tx.work, tx'.work)
  <2>1. tx'.work = v
    BY <1>2, <1>6 DEF Applied
  <2> QED
    BY <1>3, <1>6, <2>1, PlacedPairs
<1> QED
  BY <1>4, <1>5, <1>6

LEMMA NextPairs ==
    ASSUME Typed, IdInv, PairInv, [Next]_vars
    PROVE  PairInv'
<1>0. CASE UNCHANGED vars
  BY <1>0 DEF vars, dbVars, PairInv, NoNewPairs, Existing
<1> SUFFICES ASSUME Next, tx'.pc # "idle"
             PROVE  NoNewPairs(nodes', tx'.work)
  BY <1>0 DEF PairInv, NoNewPairs, Existing
<1>1. ASSUME NEW m \in Modules, BeginModule(m)
      PROVE  NoNewPairs(nodes', tx'.work)
  BY <1>1 DEF BeginModule, NoTx, dbVars, NoNewPairs
<1>2. ASSUME tx.pc # "idle", NoNewPairs(tx.work, tx'.work)
      PROVE  NoNewPairs(nodes', tx'.work)
  <2>1. nodes' = nodes
    BY <1>2, OpenKeepsNodes
  <2>2. NoNewPairs(nodes, tx'.work)
    BY <1>2, PairsCompose DEF PairInv
  <2> QED
    BY <2>1, <2>2
<1>3. CASE UNCHANGED tx
  <2>1. NoNewPairs(tx.work, tx'.work)
    BY <1>3 DEF NoNewPairs
  <2> QED
    BY <1>2, <1>3, <2>1
<1>4. CASE Upsert
  BY <1>2, <1>4, UpsertPairs DEF Upsert
<1>5. CASE ListUndeclared \/ CountInstances \/ UpsertThrows \/ ReconcileThrows
  <2>1. tx'.work = tx.work /\ tx.pc # "idle"
    <3>1. CASE ListUndeclared \/ CountInstances
      BY <3>1 DEF ListUndeclared, CountInstances, Typed, Types, TxType
    <3>2. CASE UpsertThrows \/ ReconcileThrows
      BY <3>2 DEF UpsertThrows, ReconcileThrows, Typed, Types, TxType
    <3> QED
      BY <1>5, <3>1, <3>2
  <2>2. NoNewPairs(tx.work, tx'.work)
    BY <2>1 DEF NoNewPairs
  <2> QED
    BY <1>2, <2>1, <2>2
<1>6. CASE Reconcile
  BY <1>2, <1>6, ReconcileShrinks, ShrunkPairs
<1> QED
  BY <1>1, <1>3, <1>4, <1>5, <1>6, TxSteps

\* A migration changes ids only.
LEMMA MigratePairs ==
    ASSUME Typed, NEW a \in Admins, MigrateWrite(a)
    PROVE  NoNewPairs(nodes, nodes')
<1> DEFINE found == {n \in Owned(nodes, req[a].m, req[a].old) : nodes[n].name = req[a].name}
           v == SetId(nodes, found, req[a].new)
<1>1. /\ nodes \in Graph /\ found \in SUBSET Existing(nodes) /\ req[a].new \in Ids
      /\ nodes' = nodes \/ nodes' = v
  BY MigratedIds DEF Typed, Types
<1>2. \A n \in Nodes : /\ v[n].owner = nodes[n].owner /\ v[n].name = nodes[n].name
                       /\ (v[n] = NoNode <=> nodes[n] = NoNode)
  <2> HIDE DEF found
  <2> QED
    BY <1>1, SetIdKeeps
<1> HIDE DEF found, v
<1> QED
  BY <1>1, <1>2 DEF NoNewPairs, Existing

\* A graph that has duplicate class nodes gets no new ones: what the clean-up has
\* merged stays merged under any installs, migrations, revivals, deletions and
\* clean-ups.  Unlike UniqueNames it asks nothing of the names the graph starts with,
\* so it holds of the graphs the clean-up is for; it needs distinct ids, because a
\* rename reaches every node that has the id.
THEOREM DuplicatesDoNotReturnHolds ==
    InitIdsDistinct /\ IdsGuarded /\ Spec => DuplicatesDoNotReturn
<1> SUFFICES ASSUME InitIdsDistinct, IdsGuarded
             PROVE  Spec => DuplicatesDoNotReturn
  OBVIOUS
<1>0. Init => IdInv
  BY InitDistinct
<1>1. Init => PairInv
  BY DEF Init, NoTx, PairInv
<1>2. Typed /\ InUse /\ IdInv /\ [Next]_vars => IdInv'
  BY NextIds
<1>3. Typed /\ IdInv /\ PairInv /\ [Next]_vars => PairInv'
  BY NextPairs
<1>4. Typed /\ PairInv /\ [Next]_vars => [NoNewPairs(nodes, nodes')]_vars
  <2> SUFFICES ASSUME Typed, PairInv, Next
               PROVE  NoNewPairs(nodes, nodes')
    OBVIOUS
  <2>1. CASE UNCHANGED nodes
    BY <2>1 DEF NoNewPairs
  <2>2. CASE Commit
    BY <2>2 DEF Commit, PairInv
  <2>3. CASE Shrunk(nodes, nodes')
    BY <2>3, ShrunkPairs
  <2>4. ASSUME NEW a \in Admins, MigrateWrite(a)
        PROVE  NoNewPairs(nodes, nodes')
    BY <2>4, MigratePairs
  <2> QED
    BY <2>1, <2>2, <2>3, <2>4, NodesSteps
<1>5. [NoNewPairs(nodes, nodes')]_vars =>
        [\A n, k \in Existing(nodes') :
            n # k /\ nodes'[n].owner = nodes'[k].owner /\ nodes'[n].name = nodes'[k].name
            => /\ {n, k} \subseteq Existing(nodes)
               /\ nodes[n].owner = nodes[k].owner /\ nodes[n].name = nodes[k].name]_vars
  BY DEF NoNewPairs
<1> QED
  BY <1>0, <1>1, <1>2, <1>3, <1>4, <1>5, TypedHolds, InUseHolds, PTL DEF Spec, DuplicatesDoNotReturn

----------------------------------------------------------------------------
(* What an authoritative install leaves *)

Tried == tx.pc \in {"count", "orphan", "delete"}

\* The classes tried so far: none is counted that is not in place, unless the list
\* declares a name twice.
InPlace(w, m, cls) == \E n \in Nodes : w[n] = Node(m, cls)

CountInv ==
    tx.pc # "idle" =>
        /\ tx.applied <= tx.i - 1 /\ tx.i <= Len(tx.rel.decl) + 1
        /\ (Tried => tx.i = Len(tx.rel.decl) + 1)
        /\ (DistinctNames(tx.rel.decl) /\ tx.applied = tx.i - 1 =>
              \A j \in 1..(tx.i - 1) : InPlace(tx.work, tx.m, tx.rel.decl[j]))

\* What is left to reconcile is what is undeclared, but for the classes whose
\* reconciliation failed.
LeftInv ==
    Tried =>
        /\ tx.left \subseteq Undeclared(tx.work, tx.m, tx.rel.decl)
        /\ (tx.failed = 0 => Undeclared(tx.work, tx.m, tx.rel.decl) \subseteq tx.left)

ExactInv == CountInv /\ LeftInv

LEMMA PlacedInPlace ==
    ASSUME NEW w \in Graph, NEW v, NEW m \in Modules, NEW rel \in ReleaseType,
           NEW i \in 1..Len(rel.decl), DistinctNames(rel.decl), NEW n,
           Placed(w, v, m, rel.decl[i], DeclaredNames(rel.decl), n),
           \A j \in 1..(i - 1) : InPlace(w, m, rel.decl[j])
    PROVE  \A j \in 1..i : InPlace(v, m, rel.decl[j])
<1>0. /\ rel.decl[i] \in Entries /\ DOMAIN rel.decl = 1..Len(rel.decl) /\ Len(rel.decl) \in Nat
      /\ \A j \in 1..Len(rel.decl) : rel.decl[j] \in Entries
  BY ReleaseFacts
<1>1. n \in Nodes /\ v[n] = Node(m, rel.decl[i]) /\ \A k \in Nodes : k # n => v[k] = w[k]
  BY <1>0, PlacedFacts
<1> SUFFICES ASSUME NEW j \in 1..i
             PROVE  InPlace(v, m, rel.decl[j])
  OBVIOUS
<1>2. CASE j = i
  BY <1>1, <1>2 DEF InPlace
<1>3. CASE j # i
  <2>1. j \in 1..(i - 1) /\ j \in 1..Len(rel.decl)
    BY <1>0, <1>3
  <2>2. PICK k \in Nodes : w[k] = Node(m, rel.decl[j])
    BY <2>1 DEF InPlace
  <2>3. /\ w[k].name = rel.decl[j].name /\ w[k].owner = m /\ w[k] # NoNode
        /\ rel.decl[j].name # rel.decl[i].name
        /\ rel.decl[j].name \in DeclaredNames(rel.decl)
    <3>1. w[k].name = rel.decl[j].name /\ w[k].owner = m /\ w[k] # NoNode
      <4>1. rel.decl[j] \in Entries
        BY <1>0, <2>1
      <4>2. /\ Node(m, rel.decl[j]).name = rel.decl[j].name /\ Node(m, rel.decl[j]).owner = m
            /\ Node(m, rel.decl[j]) # NoNode
        BY <4>1, NodeIsClass
      <4> QED
        BY <2>2, <4>2
    <3>2. rel.decl[j].name # rel.decl[i].name
      BY <1>0, <1>3, <2>1 DEF DistinctNames
    <3>3. rel.decl[j].name \in DeclaredNames(rel.decl)
      BY <1>0, <2>1 DEF DeclaredNames
    <3> QED
      BY <3>1, <3>2, <3>3
  <2>4. k # n
    BY <2>3 DEF Placed, FreeNodes
  <2> QED
    BY <1>1, <2>2, <2>4 DEF InPlace
<1> QED
  BY <1>2, <1>3

LEMMA ReconciledNode ==
    ASSUME NEW w \in Graph, DistinctIds(w), NEW m \in Modules, NEW decl,
           NEW n \in Undeclared(w, m, decl), NEW pc \in {"orphan", "delete"}
    PROVE  LET v == Reconciled(w, m, n, pc)
           IN  /\ \A k \in Nodes : k # n => v[k] = w[k]
               /\ Undeclared(v, m, decl) = Undeclared(w, m, decl) \ {n}
<1> DEFINE v == Reconciled(w, m, n, pc)
<1>1. n \in Nodes /\ w[n].owner = m /\ w[n].live
  BY DEF Undeclared
<1>2. w[n] # NoNode /\ w[n] \in Class
  BY <1>1, NodeFacts
<1>3. Owned(w, m, w[n].id) = {n}
  BY <1>1, <1>2 DEF Owned, ById, DistinctIds, Existing
<1>4. v \in Graph
  BY ReconciledType
<1>5. \A k \in Nodes : k # n => v[k] = w[k]
  BY <1>1, <1>3, ReconciledOwners
<1>6. ~v[n].live
  <2>1. CASE pc = "orphan"
    <3>1. v[n] = [w[n] EXCEPT !.live = FALSE]
      BY <1>1, <1>3, <2>1 DEF Reconciled, SetLive
    <3> QED
      BY <1>2, <3>1 DEF Class
  <2>2. CASE pc = "delete"
    <3>1. v[n] = NoNode
      BY <1>1, <1>3, <2>2 DEF Reconciled, Without
    <3> QED
      BY <3>1 DEF NoNode
  <2> QED
    BY <2>1, <2>2
<1> HIDE DEF v
<1>7. Undeclared(v, m, decl) = Undeclared(w, m, decl) \ {n}
  BY <1>1, <1>5, <1>6 DEF Undeclared
<1> QED
  BY <1>5, <1>7 DEF v

LEMMA ExactSteps ==
    ASSUME Typed, IdInv, ExactInv, Next, tx'.pc # "idle"
    PROVE  ExactInv'
<1>0. tx \in TxType
  BY DEF Typed, Types
<1>s. ASSUME tx'.pc # "idle", tx'.applied <= tx'.i - 1, tx'.i <= Len(tx'.rel.decl) + 1,
             tx'.pc \in {"count", "orphan", "delete"} => tx'.i = Len(tx'.rel.decl) + 1,
             DistinctNames(tx'.rel.decl) /\ tx'.applied = tx'.i - 1 =>
              \A j \in 1..(tx'.i - 1) : InPlace(tx'.work, tx'.m, tx'.rel.decl[j])
      PROVE  CountInv'
  BY <1>s DEF CountInv, Tried, InPlace, DistinctNames
<1>t. ASSUME tx'.pc \in {"count", "orphan", "delete"} =>
                /\ tx'.left \subseteq Undeclared(tx'.work, tx'.m, tx'.rel.decl)
                /\ (tx'.failed = 0 => Undeclared(tx'.work, tx'.m, tx'.rel.decl) \subseteq tx'.left)
      PROVE  LeftInv'
  BY <1>t DEF LeftInv, Tried, Undeclared, DeclaredNames
<1>1. CASE UNCHANGED tx
  <2>1. CountInv'
    BY <1>1 DEF ExactInv, CountInv, Tried, InPlace, DistinctNames
  <2>2. LeftInv'
    BY <1>1 DEF ExactInv, LeftInv, Tried, Undeclared, DeclaredNames
  <2> QED
    BY <2>1, <2>2 DEF ExactInv
<1>2. ASSUME NEW m \in Modules, BeginModule(m)
      PROVE  ExactInv'
  <2>1. tx'.pc = "upsert" /\ tx'.i = 1 /\ tx'.applied = 0 /\ tx'.rel = run.rels[m]
    BY <1>2 DEF BeginModule, NoTx
  <2>2. run.rels[m] \in ReleaseType
    BY DEF Typed, Types, RunType
  <2>3. Len(tx'.rel.decl) \in Nat
    BY <2>1, <2>2, ReleaseFacts
  <2>4. CountInv'
    BY <1>s, <2>1, <2>3
  <2>5. LeftInv'
    BY <1>t, <2>1
  <2> QED
    BY <2>4, <2>5 DEF ExactInv
<1>3. CASE Upsert
  <2> DEFINE cls == tx.rel.decl[tx.i]
  <2>1. PICK r \in UpsertResults(tx.work, tx.m, cls, DeclaredNames(tx.rel.decl), tx.rel.policy) :
            tx' = [tx EXCEPT !.i = @ + 1, !.work = r.w,
                             !.applied = IF r.ok THEN @ + 1 ELSE @]
    BY <1>3 DEF Upsert
  <2>2. /\ tx'.work = r.w /\ tx'.pc = "upsert" /\ tx'.i = tx.i + 1 /\ tx'.rel = tx.rel
        /\ tx'.m = tx.m /\ tx'.applied = (IF r.ok THEN tx.applied + 1 ELSE tx.applied)
    BY <1>0, <1>3, <2>1 DEF Upsert, TxType
  <2>3. /\ tx.m \in Modules /\ cls \in Entries /\ tx.work \in Graph /\ DistinctIds(tx.work)
        /\ tx.i \in 1..Len(tx.rel.decl) /\ tx.rel \in ReleaseType
    BY <1>3, UpsertClass DEF Upsert, IdInv
  <2>4. Len(tx.rel.decl) \in Nat /\ tx.i \in Nat /\ tx.applied \in Nat
    BY <1>0, <2>3, ReleaseFacts DEF TxType
  <2>5. tx.applied <= tx.i - 1 /\ tx.i <= Len(tx.rel.decl)
    BY <1>3 DEF ExactInv, CountInv, Upsert
  <2> HIDE DEF cls
  <2>6. \/ r = Skipped(tx.work)
        \/ \E v, n : r = Applied(v) /\ Placed(tx.work, v, tx.m, cls, DeclaredNames(tx.rel.decl), n)
    BY <2>1, <2>3, UpsertEffect
  <2>7. LeftInv'
    BY <1>t, <2>2
  <2>8. CASE r = Skipped(tx.work)
    <3>1. tx'.applied = tx.applied
      BY <2>2, <2>8 DEF Skipped
    <3>2. tx'.applied # tx'.i - 1 /\ tx'.applied <= tx'.i - 1 /\ tx'.i <= Len(tx'.rel.decl) + 1
      BY <2>2, <2>4, <2>5, <3>1
    <3>3. CountInv'
      BY <1>s, <2>2, <3>2
    <3> QED
      BY <2>7, <3>3 DEF ExactInv
  <2>9. ASSUME NEW v, NEW n, r = Applied(v),
               Placed(tx.work, v, tx.m, cls, DeclaredNames(tx.rel.decl), n)
        PROVE  ExactInv'
    <3>1. tx'.work = v /\ tx'.applied = tx.applied + 1
      BY <2>2, <2>9 DEF Applied
    <3>2. tx'.applied <= tx'.i - 1 /\ tx'.i <= Len(tx'.rel.decl) + 1 /\ tx'.i - 1 = tx.i
      BY <2>2, <2>4, <2>5, <3>1
    <3>3. ASSUME DistinctNames(tx.rel.decl), tx'.applied = tx'.i - 1
          PROVE  \A j \in 1..tx.i : InPlace(v, tx.m, tx.rel.decl[j])
      <4>1. tx.applied = tx.i - 1
        BY <2>2, <2>4, <3>1, <3>3
      <4>2. \A j \in 1..(tx.i - 1) : InPlace(tx.work, tx.m, tx.rel.decl[j])
        BY <1>3, <3>3, <4>1 DEF ExactInv, CountInv, Upsert
      <4> QED
        BY <2>3, <2>9, <3>3, <4>2, PlacedInPlace DEF cls
    <3>4. CountInv'
      BY <1>s, <2>2, <3>1, <3>2, <3>3
    <3> QED
      BY <2>7, <3>4 DEF ExactInv
  <2> QED
    BY <2>6, <2>8, <2>9
<1>4. CASE UpsertThrows
  <2>1. /\ tx'.pc = "upsert" /\ tx'.i = tx.i + 1 /\ tx'.rel = tx.rel /\ tx'.applied = tx.applied
        /\ tx.pc = "upsert" /\ tx.i <= Len(tx.rel.decl)
    BY <1>0, <1>4 DEF UpsertThrows, TxType
  <2>2. Len(tx.rel.decl) \in Nat /\ tx.i \in Nat /\ tx.applied \in Nat
    BY <1>0, ReleaseFacts DEF TxType
  <2>3. tx.applied <= tx.i - 1
    BY <2>1 DEF ExactInv, CountInv
  <2>4. tx'.applied # tx'.i - 1 /\ tx'.applied <= tx'.i - 1 /\ tx'.i <= Len(tx'.rel.decl) + 1
    BY <2>1, <2>2, <2>3
  <2>5. CountInv'
    BY <1>s, <2>1, <2>4
  <2>6. LeftInv'
    BY <1>t, <2>1
  <2> QED
    BY <2>5, <2>6 DEF ExactInv
<1>5. CASE ListUndeclared
  <2>1. /\ tx'.pc = "count" /\ tx'.i = tx.i /\ tx'.rel = tx.rel /\ tx'.applied = tx.applied
        /\ tx'.m = tx.m /\ tx'.work = tx.work /\ tx.pc = "upsert" /\ tx.i > Len(tx.rel.decl)
        /\ tx'.left = Undeclared(tx.work, tx.m, tx.rel.decl)
    BY <1>0, <1>5 DEF ListUndeclared, TxType
  <2>2. Len(tx.rel.decl) \in Nat /\ tx.i \in Nat
    BY <1>0, ReleaseFacts DEF TxType
  <2>3. CountInv'
    <3>1. /\ tx.applied <= tx.i - 1 /\ tx.i <= Len(tx.rel.decl) + 1
          /\ (DistinctNames(tx.rel.decl) /\ tx.applied = tx.i - 1 =>
               \A j \in 1..(tx.i - 1) : InPlace(tx.work, tx.m, tx.rel.decl[j]))
      BY <2>1 DEF ExactInv, CountInv
    <3>2. tx.i = Len(tx.rel.decl) + 1
      BY <2>1, <2>2, <3>1
    <3> QED
      BY <1>s, <2>1, <3>1, <3>2
  <2>4. LeftInv'
    BY <1>t, <2>1
  <2> QED
    BY <2>3, <2>4 DEF ExactInv
<1>6. CASE CountInstances
  <2>1. /\ tx'.pc \in {"orphan", "delete"} /\ tx'.i = tx.i /\ tx'.rel = tx.rel
        /\ tx'.applied = tx.applied /\ tx'.m = tx.m /\ tx'.work = tx.work /\ tx'.left = tx.left
        /\ tx'.failed = tx.failed /\ tx.pc = "count"
    BY <1>0, <1>6 DEF CountInstances, TxType
  <2>2. CountInv'
    <3>1. /\ tx.applied <= tx.i - 1 /\ tx.i = Len(tx.rel.decl) + 1 /\ tx.i <= Len(tx.rel.decl) + 1
          /\ (DistinctNames(tx.rel.decl) /\ tx.applied = tx.i - 1 =>
               \A j \in 1..(tx.i - 1) : InPlace(tx.work, tx.m, tx.rel.decl[j]))
      BY <2>1 DEF ExactInv, CountInv, Tried
    <3> QED
      BY <1>s, <2>1, <3>1
  <2>3. LeftInv'
    <3>1. /\ tx.left \subseteq Undeclared(tx.work, tx.m, tx.rel.decl)
          /\ (tx.failed = 0 => Undeclared(tx.work, tx.m, tx.rel.decl) \subseteq tx.left)
      BY <2>1 DEF ExactInv, LeftInv, Tried
    <3> QED
      BY <1>t, <2>1, <3>1
  <2> QED
    BY <2>2, <2>3 DEF ExactInv
<1>7. ASSUME tx.pc \in {"orphan", "delete"}
      PROVE  /\ tx.applied <= tx.i - 1 /\ tx.i = Len(tx.rel.decl) + 1
             /\ tx.i <= Len(tx.rel.decl) + 1
             /\ (DistinctNames(tx.rel.decl) /\ tx.applied = tx.i - 1 =>
                  \A j \in 1..(tx.i - 1) : InPlace(tx.work, tx.m, tx.rel.decl[j]))
             /\ tx.left \subseteq Undeclared(tx.work, tx.m, tx.rel.decl)
             /\ (tx.failed = 0 => Undeclared(tx.work, tx.m, tx.rel.decl) \subseteq tx.left)
             /\ tx.n \in tx.left
  BY <1>7 DEF ExactInv, CountInv, LeftInv, Tried, Typed, Steps
<1>8. CASE ReconcileThrows
  <2>1. /\ tx'.pc = "count" /\ tx'.i = tx.i /\ tx'.rel = tx.rel /\ tx'.applied = tx.applied
        /\ tx'.m = tx.m /\ tx'.work = tx.work /\ tx'.left = tx.left \ {tx.n}
        /\ tx'.failed = tx.failed + 1 /\ tx.pc \in {"orphan", "delete"}
    BY <1>0, <1>8 DEF ReconcileThrows, TxType
  <2>2. CountInv'
    BY <1>7, <1>s, <2>1
  <2>3. tx'.failed # 0
    BY <1>0, <2>1 DEF TxType
  <2>4. LeftInv'
    BY <1>7, <1>t, <2>1, <2>3
  <2> QED
    BY <2>2, <2>4 DEF ExactInv
<1>9. CASE Reconcile
  <2> DEFINE v == Reconciled(tx.work, tx.m, tx.n, tx.pc)
  <2>1. /\ tx'.pc = "count" /\ tx'.i = tx.i /\ tx'.rel = tx.rel /\ tx'.applied = tx.applied
        /\ tx'.m = tx.m /\ tx'.work = v /\ tx'.left = tx.left \ {tx.n}
        /\ tx'.failed = tx.failed /\ tx.pc \in {"orphan", "delete"}
    BY <1>0, <1>9 DEF Reconcile, TxType
  <2>2. /\ tx.work \in Graph /\ DistinctIds(tx.work) /\ tx.m \in Modules /\ tx.rel \in ReleaseType
        /\ tx.n \in Undeclared(tx.work, tx.m, tx.rel.decl)
    BY <1>0, <1>7, <2>1 DEF IdInv, TxType, Typed, Steps
  <2>3. /\ \A k \in Nodes : k # tx.n => v[k] = tx.work[k]
        /\ Undeclared(v, tx.m, tx.rel.decl) = Undeclared(tx.work, tx.m, tx.rel.decl) \ {tx.n}
    BY <2>1, <2>2, ReconciledNode
  <2> HIDE DEF v
  <2>4. ASSUME DistinctNames(tx.rel.decl), tx.applied = tx.i - 1, NEW j \in 1..(tx.i - 1)
        PROVE  InPlace(v, tx.m, tx.rel.decl[j])
    <3>1. PICK k \in Nodes : tx.work[k] = Node(tx.m, tx.rel.decl[j])
      BY <1>7, <2>1, <2>4 DEF InPlace
    <3>2. /\ j \in 1..Len(tx.rel.decl) /\ tx.rel.decl[j] \in Entries
          /\ DOMAIN tx.rel.decl = 1..Len(tx.rel.decl)
      <4>1. Len(tx.rel.decl) \in Nat /\ tx.i - 1 = Len(tx.rel.decl)
        BY <1>7, <2>1, <2>2, ReleaseFacts
      <4> QED
        BY <2>2, <4>1, ReleaseFacts
    <3>3. tx.work[k].name \in DeclaredNames(tx.rel.decl)
      <4>1. Node(tx.m, tx.rel.decl[j]).name = tx.rel.decl[j].name
        BY <2>2, <3>2, NodeIsClass
      <4> QED
        BY <3>1, <3>2, <4>1 DEF DeclaredNames
    <3>4. k # tx.n
      BY <2>2, <3>3 DEF Undeclared
    <3> QED
      BY <2>3, <3>1, <3>4 DEF InPlace
  <2>5. CountInv'
    BY <1>7, <1>s, <2>1, <2>4
  <2>6. LeftInv'
    BY <1>7, <1>t, <2>1, <2>3
  <2> QED
    BY <2>5, <2>6 DEF ExactInv
<1> QED
  BY <1>1, <1>2, <1>3, <1>4, <1>5, <1>6, <1>8, <1>9, TxSteps

Declared(rel) == {rel.decl[i] : i \in DOMAIN rel.decl}

\* With everything applied and reconciled, the module's active classes are the
\* declared ones.
LEMMA CommitExact ==
    ASSUME Typed, IdInv, NameInv, ExactInv, Commit, InstallStatus = "authoritative",
           DistinctNames(tx.rel.decl)
    PROVE  ActiveClasses(tx.work, tx.m) = Declared(tx.rel)
<1>1. /\ tx.work \in Graph /\ tx.m \in Modules /\ tx.rel \in ReleaseType
      /\ DistinctPerModule(tx.work)
  BY DEF Commit, Typed, Types, TxType, Steps, NameInv
<1>2. tx.applied = Len(tx.rel.decl) /\ tx.failed = 0 /\ tx.left = {} /\ tx.pc = "count"
  BY DEF InstallStatus, Commit
<1>3. /\ DOMAIN tx.rel.decl = 1..Len(tx.rel.decl) /\ Len(tx.rel.decl) \in Nat
      /\ \A j \in DOMAIN tx.rel.decl : tx.rel.decl[j] \in Entries
  BY <1>1, ReleaseFacts
<1>4. \A j \in DOMAIN tx.rel.decl : InPlace(tx.work, tx.m, tx.rel.decl[j])
  <2>1. tx.i = Len(tx.rel.decl) + 1
    BY <1>2 DEF ExactInv, CountInv, Tried
  <2>2. tx.applied = tx.i - 1
    BY <1>2, <1>3, <2>1
  <2>3. \A j \in 1..(tx.i - 1) : InPlace(tx.work, tx.m, tx.rel.decl[j])
    BY <1>2, <2>2 DEF ExactInv, CountInv
  <2> QED
    BY <1>2, <1>3, <2>2, <2>3
<1>5. Undeclared(tx.work, tx.m, tx.rel.decl) = {}
  BY <1>2 DEF ExactInv, LeftInv, Tried
<1>6. ASSUME NEW j \in DOMAIN tx.rel.decl, NEW k \in Nodes,
             tx.work[k] = Node(tx.m, tx.rel.decl[j])
      PROVE  /\ tx.work[k].owner = tx.m /\ tx.work[k].live /\ tx.work[k].name = tx.rel.decl[j].name
             /\ k \in Existing(tx.work)
             /\ [id |-> tx.work[k].id, name |-> tx.work[k].name] = tx.rel.decl[j]
  <2>1. tx.rel.decl[j] \in Entries
    BY <1>3
  <2>2. /\ Node(tx.m, tx.rel.decl[j]) # NoNode /\ Node(tx.m, tx.rel.decl[j]).owner = tx.m
        /\ Node(tx.m, tx.rel.decl[j]).name = tx.rel.decl[j].name
        /\ Node(tx.m, tx.rel.decl[j]).id = tx.rel.decl[j].id
        /\ Node(tx.m, tx.rel.decl[j]).live = TRUE
    BY <1>1, <2>1, NodeIsClass
  <2>3. [id |-> tx.rel.decl[j].id, name |-> tx.rel.decl[j].name] = tx.rel.decl[j]
    BY <2>1 DEF Entries
  <2> QED
    BY <1>6, <2>2, <2>3 DEF Existing
<1>7. ASSUME NEW c \in ActiveClasses(tx.work, tx.m)
      PROVE  c \in Declared(tx.rel)
  <2>1. PICK k \in Nodes : /\ tx.work[k].owner = tx.m /\ tx.work[k].live
                           /\ c = [id |-> tx.work[k].id, name |-> tx.work[k].name]
    BY DEF ActiveClasses
  <2>2. tx.work[k].name \in DeclaredNames(tx.rel.decl)
    BY <1>5, <2>1 DEF Undeclared
  <2>3. PICK j \in DOMAIN tx.rel.decl : tx.rel.decl[j].name = tx.work[k].name
    BY <2>2 DEF DeclaredNames
  <2>4. PICK n \in Nodes : tx.work[n] = Node(tx.m, tx.rel.decl[j])
    BY <1>4 DEF InPlace
  <2>5. /\ tx.work[n].owner = tx.m /\ tx.work[n].name = tx.rel.decl[j].name
        /\ n \in Existing(tx.work)
        /\ [id |-> tx.work[n].id, name |-> tx.work[n].name] = tx.rel.decl[j]
    BY <1>6, <2>4
  <2>6. k \in Existing(tx.work)
    BY <1>1, <2>1, NodeFacts DEF Existing
  <2>7. n = k
    BY <1>1, <2>1, <2>3, <2>5, <2>6 DEF DistinctPerModule
  <2> QED
    BY <2>1, <2>5, <2>7 DEF Declared
<1>8. ASSUME NEW c \in Declared(tx.rel)
      PROVE  c \in ActiveClasses(tx.work, tx.m)
  <2>1. PICK j \in DOMAIN tx.rel.decl : c = tx.rel.decl[j]
    BY DEF Declared
  <2>2. PICK n \in Nodes : tx.work[n] = Node(tx.m, tx.rel.decl[j])
    BY <1>4 DEF InPlace
  <2>3. /\ tx.work[n].owner = tx.m /\ tx.work[n].live
        /\ [id |-> tx.work[n].id, name |-> tx.work[n].name] = tx.rel.decl[j]
    BY <1>6, <2>2
  <2> QED
    BY <2>1, <2>3 DEF ActiveClasses
<1> QED
  BY <1>7, <1>8

\* The graph the installs of this chapter start from, and what guards its ids.
CleanGraph == InitIdsDistinct /\ InitNamesDistinct /\ IdsGuarded

\* The invariant of the install: the transaction's copy holds every class tried and
\* applied so far, and what is left to reconcile is what is active and undeclared.
THEOREM ExactHolds == CleanGraph /\ Spec => [](Typed /\ InUse /\ IdInv /\ NameInv /\ ExactInv)
<1> SUFFICES ASSUME CleanGraph
             PROVE  Spec => [](Typed /\ InUse /\ IdInv /\ NameInv /\ ExactInv)
  OBVIOUS
<1>1. Init => IdInv /\ NameInv /\ ExactInv
  <2>1. Init => ExactInv
    BY DEF Init, NoTx, ExactInv, CountInv, LeftInv, Tried
  <2> QED
    BY <2>1, InitDistinct DEF CleanGraph
<1>2. Typed /\ InUse /\ IdInv /\ [Next]_vars => IdInv'
  BY NextIds DEF CleanGraph
<1>3. Typed /\ IdInv /\ NameInv /\ [Next]_vars => NameInv'
  BY NextNames
<1>4. Typed /\ IdInv /\ ExactInv /\ [Next]_vars => ExactInv'
  <2> SUFFICES ASSUME Typed, IdInv, ExactInv, [Next]_vars
               PROVE  ExactInv'
    OBVIOUS
  <2>1. CASE UNCHANGED vars
    <3>1. UNCHANGED tx
      BY <2>1 DEF vars
    <3>2. CountInv'
      BY <3>1 DEF ExactInv, CountInv, Tried, InPlace, DistinctNames
    <3>3. LeftInv'
      BY <3>1 DEF ExactInv, LeftInv, Tried, Undeclared, DeclaredNames
    <3> QED
      BY <3>2, <3>3 DEF ExactInv
  <2>2. CASE Next /\ tx'.pc # "idle"
    BY <2>2, ExactSteps
  <2>3. CASE tx'.pc = "idle"
    BY <2>3 DEF ExactInv, CountInv, LeftInv, Tried
  <2> QED
    BY <2>1, <2>2, <2>3
<1> QED
  BY <1>1, <1>2, <1>3, <1>4, TypedHolds, InUseHolds, PTL DEF Spec

\* An install that reports 'authoritative' has left exactly the declared classes
\* active, each with the declared id, for class lists of any length and any
\* sequence of releases before: a class once in place is not undone by a later one
\* of the list (upsertClass takes over only a node whose name is not declared), and
\* with no reconciliation failed nothing undeclared is left.
THEOREM AuthoritativeIsExactHolds == CleanGraph /\ Spec => AuthoritativeIsExact
<1> SUFFICES ASSUME CleanGraph
             PROVE  Spec => AuthoritativeIsExact
  OBVIOUS
<1>1. Typed /\ IdInv /\ NameInv /\ ExactInv /\ [Next]_vars =>
        [Commit /\ InstallStatus = "authoritative" /\ DistinctNames(tx.rel.decl)
         => ActiveClasses(nodes', tx.m) = {tx.rel.decl[i] : i \in DOMAIN tx.rel.decl}]_vars
  <2> SUFFICES ASSUME Typed, IdInv, NameInv, ExactInv, Commit, InstallStatus = "authoritative",
                      DistinctNames(tx.rel.decl)
               PROVE  ActiveClasses(nodes', tx.m) = {tx.rel.decl[i] : i \in DOMAIN tx.rel.decl}
    OBVIOUS
  <2>1. ActiveClasses(tx.work, tx.m) = Declared(tx.rel)
    BY CommitExact
  <2>2. nodes' = tx.work
    BY DEF Commit
  <2> QED
    BY <2>1, <2>2 DEF Declared
<1> QED
  BY <1>1, ExactHolds, PTL DEF Spec, AuthoritativeIsExact

----------------------------------------------------------------------------
(* What the content hash on a Module node stands for *)

\* No administrator's mutation is in use, and every module ships its content hash.
HashesStand == AdminOps = {} /\ Modules \subseteq ShipsHash

\* A module recorded as authoritative has exactly the classes of the release its
\* hash stands for.
StatusInv ==
    \A m \in Modules :
        module[m].status = "authoritative" /\ DistinctNames(module[m].rel.decl)
        => ActiveClasses(nodes, m) = Declared(module[m].rel)

\* An install's transaction writes no other module's classes.
WorkOthers ==
    tx.pc # "idle" =>
        \A n \in Nodes : \/ tx.work[n] = nodes[n]
                         \/ {tx.work[n].owner, nodes[n].owner} \subseteq {tx.m, NoModule}

\* Only a commit, the sweep and the hooks write Module nodes.
LEMMA ModuleSteps ==
    ASSUME Typed, Next
    PROVE  \/ UNCHANGED module
           \/ Commit \/ SweepObsolete
           \/ \E failed \in SUBSET Modules : RunHooks(failed)
<1>1. CASE Operate \/ Start
  BY <1>1 DEF Operate, Withdraw, Reset, Release, Restart, Crash, Halt, Start, Boot, dbVars
<1>2. CASE Install \/ InstallFails
  BY <1>2 DEF Install, InstallFails, BeginModule, Upsert, ListUndeclared, CountInstances,
     Reconcile, ModulesDone, UpsertThrows, ReconcileThrows, Abort, SweepThrows, dbVars
<1>3. ASSUME NEW a \in Admins, Administer(a)
      PROVE  UNCHANGED module
  BY <1>3 DEF Administer, MigrateRead, MigrateCheck, MigrateWrite, ReviveRead, ReviveWrite,
     DeleteRead, DeleteCount, DeleteWrite, DedupRead, MergeGroup, MergeFails, dbVars
<1>4. ASSUME NEW e \in Elements, UseClasses(e)
      PROVE  UNCHANGED module
  BY <1>4 DEF UseClasses, BindCheck, BindWrite, Unbind, dbVars
<1> QED
  BY <1>1, <1>2, <1>3, <1>4 DEF Next

\* A module's active classes depend on its own nodes only.
LEMMA SameActive ==
    ASSUME NEW w, NEW v, NEW m,
           \A n \in Nodes : v[n] = w[n] \/ (v[n].owner # m /\ w[n].owner # m)
    PROVE  ActiveClasses(v, m) = ActiveClasses(w, m)
<1>1. ASSUME NEW c \in ActiveClasses(v, m)
      PROVE  c \in ActiveClasses(w, m)
  <2>1. PICK k \in Nodes : /\ v[k].owner = m /\ v[k].live
                           /\ c = [id |-> v[k].id, name |-> v[k].name]
    BY DEF ActiveClasses
  <2>2. v[k] = w[k]
    BY <2>1
  <2> QED
    BY <2>1, <2>2 DEF ActiveClasses
<1>2. ASSUME NEW c \in ActiveClasses(w, m)
      PROVE  c \in ActiveClasses(v, m)
  <2>1. PICK k \in Nodes : /\ w[k].owner = m /\ w[k].live
                           /\ c = [id |-> w[k].id, name |-> w[k].name]
    BY DEF ActiveClasses
  <2>2. v[k] = w[k]
    BY <2>1
  <2> QED
    BY <2>1, <2>2 DEF ActiveClasses
<1> QED
  BY <1>1, <1>2

\* A step of an open transaction that changes nodes of its module only.
LEMMA WorkStep ==
    ASSUME WorkOthers, tx.pc # "idle", UNCHANGED nodes, tx'.m = tx.m,
           \A n \in Nodes : \/ tx'.work[n] = tx.work[n]
                            \/ {tx'.work[n].owner, tx.work[n].owner} \subseteq {tx.m, NoModule}
    PROVE  WorkOthers'
<1> SUFFICES ASSUME NEW n \in Nodes
             PROVE  \/ tx'.work[n] = nodes[n]
                    \/ {tx'.work[n].owner, nodes[n].owner} \subseteq {tx.m, NoModule}
  BY DEF WorkOthers
<1>1. \/ tx.work[n] = nodes[n]
      \/ {tx.work[n].owner, nodes[n].owner} \subseteq {tx.m, NoModule}
  BY DEF WorkOthers
<1> QED
  BY <1>1

LEMMA NextOthers ==
    ASSUME Typed, InUse, IdInv, WorkOthers, HashesStand, [Next]_vars
    PROVE  WorkOthers'
<1>0. tx \in TxType /\ tx.work \in Graph
  BY DEF Typed, Types, TxType
<1>1. CASE tx'.pc = "idle"
  BY <1>1 DEF WorkOthers
<1>2. CASE UNCHANGED <<tx, nodes>>
  BY <1>2 DEF WorkOthers
<1>3. ASSUME NEW m \in Modules, BeginModule(m)
      PROVE  WorkOthers'
  <2>1. tx'.work = nodes /\ nodes' = nodes
    BY <1>3 DEF BeginModule, NoTx, dbVars
  <2> QED
    BY <2>1 DEF WorkOthers
<1>4. CASE Upsert
  <2> DEFINE cls == tx.rel.decl[tx.i]
  <2>1. PICK r \in UpsertResults(tx.work, tx.m, cls, DeclaredNames(tx.rel.decl), tx.rel.policy) :
            tx' = [tx EXCEPT !.i = @ + 1, !.work = r.w,
                             !.applied = IF r.ok THEN @ + 1 ELSE @]
    BY <1>4 DEF Upsert
  <2>2. tx'.work = r.w /\ tx'.m = tx.m /\ tx.pc # "idle" /\ UNCHANGED nodes
    BY <1>0, <1>4, <2>1 DEF Upsert, TxType, dbVars
  <2>3. tx.m \in Modules /\ cls \in Entries /\ DistinctIds(tx.work)
    BY <1>4, UpsertClass DEF Upsert, IdInv
  <2> HIDE DEF cls
  <2>4. \/ r = Skipped(tx.work)
        \/ \E v, n : r = Applied(v) /\ Placed(tx.work, v, tx.m, cls, DeclaredNames(tx.rel.decl), n)
    BY <1>0, <2>1, <2>3, UpsertEffect
  <2>5. CASE r = Skipped(tx.work)
    <3>1. tx'.work = tx.work
      BY <2>2, <2>5 DEF Skipped
    <3> QED
      BY <2>2, <3>1, WorkStep
  <2>6. ASSUME NEW v, NEW n, r = Applied(v),
               Placed(tx.work, v, tx.m, cls, DeclaredNames(tx.rel.decl), n)
        PROVE  WorkOthers'
    <3>1. tx'.work = v
      BY <2>2, <2>6 DEF Applied
    <3>2. v[n].owner = tx.m /\ \A k \in Nodes : k # n => v[k] = tx.work[k]
      BY <1>0, <2>3, <2>6, PlacedFacts
    <3>3. tx.work[n].owner \in {tx.m, NoModule}
      <4>1. tx.work[n] = NoNode \/ tx.work[n].owner = tx.m
        BY <2>6 DEF Placed, FreeNodes
      <4>2. NoNode.owner = NoModule
        BY DEF NoNode
      <4> QED
        BY <4>1, <4>2
    <3>4. \A k \in Nodes : \/ v[k] = tx.work[k]
                           \/ {v[k].owner, tx.work[k].owner} \subseteq {tx.m, NoModule}
      BY <3>2, <3>3
    <3> QED
      BY <2>2, <3>1, <3>4, WorkStep
  <2> QED
    BY <2>4, <2>5, <2>6
<1>5. CASE ListUndeclared \/ CountInstances \/ UpsertThrows \/ ReconcileThrows
  <2>1. tx'.work = tx.work /\ tx'.m = tx.m /\ tx.pc # "idle" /\ UNCHANGED nodes
    <3>1. CASE ListUndeclared
      BY <1>0, <3>1 DEF ListUndeclared, TxType, dbVars
    <3>2. CASE CountInstances
      BY <1>0, <3>2 DEF CountInstances, TxType, dbVars
    <3>3. CASE UpsertThrows
      BY <1>0, <3>3 DEF UpsertThrows, TxType, dbVars
    <3>4. CASE ReconcileThrows
      BY <1>0, <3>4 DEF ReconcileThrows, TxType, dbVars
    <3> QED
      BY <1>5, <3>1, <3>2, <3>3, <3>4
  <2> QED
    BY <2>1, WorkStep
<1>6. CASE Reconcile
  <2> DEFINE v == Reconciled(tx.work, tx.m, tx.n, tx.pc)
  <2>1. tx'.work = v /\ tx'.m = tx.m /\ tx.pc \in {"orphan", "delete"} /\ UNCHANGED nodes
    BY <1>0, <1>6 DEF Reconcile, TxType, dbVars
  <2>2. tx.n \in Nodes
    BY <1>0, <2>1 DEF Typed, Steps, TxType
  <2>3. ASSUME NEW n \in Nodes
        PROVE  \/ v[n] = tx.work[n]
               \/ {v[n].owner, tx.work[n].owner} \subseteq {tx.m, NoModule}
    <3>1. /\ (v[n] # NoNode => v[n].owner = tx.work[n].owner)
          /\ (n \notin Owned(tx.work, tx.m, tx.work[tx.n].id) => v[n] = tx.work[n])
      BY <1>0, <2>2, ReconciledOwners
    <3>2. n \in Owned(tx.work, tx.m, tx.work[tx.n].id) => tx.work[n].owner = tx.m
      BY DEF Owned
    <3>3. NoNode.owner = NoModule
      BY DEF NoNode
    <3> HIDE DEF v
    <3> QED
      BY <3>1, <3>2, <3>3
  <2> HIDE DEF v
  <2> QED
    BY <2>1, <2>3, WorkStep
<1>7. CASE Next /\ UNCHANGED tx /\ tx.pc # "idle"
  <2>1. ~Commit /\ ~SweepObsolete
    <3>1. Commit => tx'.pc = "idle"
      BY DEF Commit, NoTx
    <3>2. run.pc = "modules"
      BY <1>7 DEF Typed, Steps
    <3> QED
      BY <1>7, <3>1, <3>2 DEF SweepObsolete
  <2>2. ASSUME NEW a \in Admins
        PROVE  ~MigrateWrite(a)
    BY DEF HashesStand, InUse, MigrateWrite
  <2>3. UNCHANGED nodes
    BY <1>7, <2>1, <2>2, NodesSteps DEF HashesStand
  <2> QED
    BY <1>2, <1>7, <2>3
<1> QED
  BY <1>1, <1>2, <1>3, <1>4, <1>5, <1>6, <1>7, TxSteps DEF vars, dbVars

LEMMA NextStatus ==
    ASSUME Typed, InUse, IdInv, NameInv, ExactInv, WorkOthers, StatusInv, HashesStand, [Next]_vars
    PROVE  StatusInv'
<1> SUFFICES ASSUME NEW m \in Modules, module'[m].status = "authoritative",
                    DistinctNames(module'[m].rel.decl)
             PROVE  ActiveClasses(nodes', m) = Declared(module'[m].rel)
  BY DEF StatusInv, DistinctNames, ActiveClasses, Declared
<1>0. /\ module \in [Modules -> ModuleType] /\ nodes \in Graph
      /\ NoModule \notin Modules
  BY IdentityAssumption DEF IdentityAssumption, Typed, Types
<1>1. module[m].status = "authoritative" /\ DistinctNames(module[m].rel.decl)
      => ActiveClasses(nodes, m) = Declared(module[m].rel)
  BY DEF StatusInv
<1>2. CASE Commit
  <2>1. tx.pc = "count" /\ nodes' = tx.work
        /\ module' = [module EXCEPT ![tx.m] = [status |-> InstallStatus, rel |-> StoredHash]]
    BY <1>2 DEF Commit
  <2>2. tx.m \in Modules
    BY <2>1 DEF Typed, Steps
  <2>3. StoredHash = tx.rel
    BY <2>2 DEF HashesStand, StoredHash
  <2>4. CASE m = tx.m
    <3>1. module'[m].status = InstallStatus /\ module'[m].rel = tx.rel
      BY <1>0, <2>1, <2>3, <2>4
    <3>2. ActiveClasses(tx.work, tx.m) = Declared(tx.rel)
      BY <1>2, <3>1, CommitExact
    <3> QED
      BY <2>1, <2>4, <3>1, <3>2
  <2>5. CASE m # tx.m
    <3>1. module'[m] = module[m]
      BY <1>0, <2>1, <2>5
    <3>2. \A n \in Nodes : \/ tx.work[n] = nodes[n]
                           \/ (tx.work[n].owner # m /\ nodes[n].owner # m)
      BY <1>0, <2>1, <2>5 DEF WorkOthers
    <3>3. ActiveClasses(tx.work, m) = ActiveClasses(nodes, m)
      BY <3>2, SameActive
    <3> QED
      BY <1>1, <2>1, <3>1, <3>3
  <2> QED
    BY <2>4, <2>5
<1>3. CASE SweepObsolete
  <2> DEFINE kept == Without(nodes, {n \in Nodes : nodes[n].owner \in Obsolete})
  <2>1. nodes' = kept
        /\ module' = [k \in Modules |-> IF k \in Obsolete
                                        THEN [status |-> "absent", rel |-> NoRelease]
                                        ELSE module[k]]
    BY <1>3 DEF SweepObsolete
  <2>2. m \notin Obsolete /\ module'[m] = module[m]
    BY <2>1
  <2>3. NoNode.owner = NoModule
    BY DEF NoNode
  <2>4. ASSUME NEW n \in Nodes
        PROVE  kept[n] = nodes[n] \/ (kept[n].owner # m /\ nodes[n].owner # m)
    <3>1. kept[n] = IF nodes[n].owner \in Obsolete THEN NoNode ELSE nodes[n]
      BY DEF Without
    <3> QED
      BY <1>0, <2>2, <2>3, <3>1
  <2> HIDE DEF kept
  <2>5. ActiveClasses(kept, m) = ActiveClasses(nodes, m)
    BY <2>4, SameActive
  <2> QED
    BY <1>1, <2>1, <2>2, <2>5
<1>4. ASSUME NEW failed \in SUBSET Modules, RunHooks(failed)
      PROVE  ActiveClasses(nodes', m) = Declared(module'[m].rel)
  <2>1. nodes' = nodes /\ (module'[m] = module[m] \/ module'[m].status = "partial")
    BY <1>0, <1>4 DEF RunHooks, ModuleType
  <2> QED
    BY <1>1, <2>1
<1>5. CASE Next /\ UNCHANGED module /\ ~Commit /\ ~SweepObsolete
  <2>1. UNCHANGED nodes
    <3>1. ASSUME NEW a \in Admins
          PROVE  ~MigrateWrite(a)
      BY DEF HashesStand, InUse, MigrateWrite
    <3> QED
      BY <1>5, <3>1, NodesSteps DEF HashesStand
  <2> QED
    BY <1>1, <1>5, <2>1
<1>6. CASE UNCHANGED vars
  BY <1>1, <1>6 DEF vars, dbVars
<1> QED
  BY <1>2, <1>3, <1>4, <1>5, <1>6, ModuleSteps

\* A start skips the install of a module only if the graph holds exactly what the
\* module's release declares, for any number of modules and releases, any failure
\* in earlier runs and a stop at any point.  A reset of a module that ships no hash
\* breaks it (identity_reset_hash.cfg), and so does a revival, which activates an
\* orphaned class: neither takes the Module node's status away.
THEOREM SkipsOnlyInstalledHolds == CleanGraph /\ HashesStand /\ Spec => SkipsOnlyInstalled
<1> SUFFICES ASSUME CleanGraph, HashesStand
             PROVE  Spec => SkipsOnlyInstalled
  OBVIOUS
<1>1. Init => WorkOthers /\ StatusInv
  <2> SUFFICES ASSUME Init
               PROVE  WorkOthers /\ StatusInv
    OBVIOUS
  <2>1. \A m \in Modules : module[m].status # "authoritative"
    BY DEF Init
  <2> QED
    BY <2>1 DEF Init, NoTx, WorkOthers, StatusInv
<1>2. Typed /\ InUse /\ IdInv /\ NameInv /\ ExactInv /\ WorkOthers /\ StatusInv /\ [Next]_vars
      => WorkOthers' /\ StatusInv'
  BY NextOthers, NextStatus
<1>3. StatusInv /\ [Next]_vars =>
        [~up /\ up' => \A m \in run'.hooks : DistinctNames(disk[m].decl) =>
           ActiveClasses(nodes, m) = {disk[m].decl[i] : i \in DOMAIN disk[m].decl}]_vars
  <2> SUFFICES ASSUME StatusInv, Next, ~up, up', NEW m \in run'.hooks,
                      DistinctNames(disk[m].decl)
               PROVE  ActiveClasses(nodes, m) = {disk[m].decl[i] : i \in DOMAIN disk[m].decl}
    OBVIOUS
  <2>1. Start
    <3>1. CASE Operate
      BY <3>1 DEF Operate, Withdraw, Reset, Release, Restart, Crash, Halt
    <3>2. CASE Install \/ InstallFails
      BY <3>2 DEF Install, InstallFails, BeginModule, Upsert, ListUndeclared, CountInstances,
         Reconcile, Commit, SweepObsolete, RunHooks, ModulesDone, UpsertThrows, ReconcileThrows,
         Abort, SweepThrows
    <3>3. ASSUME NEW a \in Admins, Administer(a)
          PROVE  FALSE
      BY <3>3 DEF Administer, MigrateRead, MigrateCheck, MigrateWrite, ReviveRead, ReviveWrite,
         DeleteRead, DeleteCount, DeleteWrite, DedupRead, MergeGroup, MergeFails
    <3>4. ASSUME NEW e \in Elements, UseClasses(e)
          PROVE  FALSE
      BY <3>4 DEF UseClasses, BindCheck, BindWrite, Unbind
    <3> QED
      BY <3>1, <3>2, <3>3, <3>4 DEF Next
  <2>2. PICK lost, nameless, silent, force : Boot(lost, nameless, silent, force)
    BY <2>1 DEF Start
  <2>3. m \in Modules /\ Unchanged(m)
    BY <2>2 DEF Boot, OnDisk
  <2>4. module[m].status = "authoritative" /\ module[m].rel = disk[m]
    BY <2>3 DEF Unchanged
  <2> QED
    BY <2>3, <2>4 DEF StatusInv, Declared
<1> QED
  BY <1>1, <1>2, <1>3, ExactHolds, PTL DEF Spec, SkipsOnlyInstalled
=============================================================================
