----------------------------- MODULE ClassIdentity -----------------------------
(*****************************************************************************)
(* The identity of module classes in the graph: what a module install does   *)
(* to the class nodes the module owns (apps/dt-ws, upsertModule), what the   *)
(* administrator's mutations and the identity clean-up do to them, and what  *)
(* becomes of the elements that are instances of them.                       *)
(*                                                                           *)
(* A class node is owned by one module, active (HAS_CLASS) or orphaned       *)
(* (HAS_ORPHANED_CLASS), and has a name and an id.  One class label is       *)
(* modelled; labels do not interact.  An install run writes each module in   *)
(* one database transaction, modelled statement by statement on a working    *)
(* copy of the nodes that Commit publishes.  An administrator's mutation is  *)
(* several separate transactions, and other requests run between them.       *)
(*****************************************************************************)
EXTENDS Integers, Sequences, FiniteSets, FiniteSetsExt

CONSTANTS
    Modules, Names, Ids, Elements,
    Admins,         \* administrators' requests that may be in progress at once
    MaxNodes,       \* bound: class nodes
    InitNodes,      \* class nodes left by earlier versions of the platform
    Shipped,        \* per module: the class lists a release may declare, of [id, name]
    Policies,       \* the idRebindPolicy values a release may have ("silent" acts as "audit")
    Hashed,         \* the class names whose policy has a hash
    ShipsHash,      \* modules that ship a content hash; the start computes one for the others
    AdminOps,       \* the administrator's mutations in use
    LoadFaults,     \* how a module on disk may fail to load at start-up
    DirNamed,       \* modules whose directory has the module's name
    Rolling,        \* whether another instance serves requests while this one starts
    ReadCommitted,  \* the database's isolation: TRUE on Neo4j, FALSE on Memgraph (snapshots)
    IdConstraint,   \* whether the UNIQUE constraint on class ids exists
    MaxReleases, MaxResets, MaxStops, MaxFails, MaxRequests, MaxBinds   \* bounds

NoModule == "no module"
NoName == "no name"
NoId == 0
Unbound == 0        \* an element that is an instance of no class
Gone == -1          \* an element that was deleted

Nodes == 1..MaxNodes
NoNode == [owner |-> NoModule, name |-> NoName, id |-> NoId, live |-> FALSE]
Entries == [id : Ids, name : Names]

ASSUME IdentityAssumption ==
    /\ NoModule \notin Modules /\ NoName \notin Names /\ NoId \notin Ids
    /\ IsFiniteSet(Modules) /\ MaxNodes \in Nat
    /\ InitNodes \in Seq([owner : Modules, name : Names, id : Ids, live : BOOLEAN])
    /\ \A m \in Modules : Shipped[m] \subseteq Seq(Entries)
    /\ Policies \subseteq {"audit", "strict"}
    /\ LoadFaults \subseteq {"load", "metadata"}
    /\ AdminOps \subseteq {"migrate", "revive", "delete", "dedup"}
    /\ {Rolling, ReadCommitted, IdConstraint} \subseteq BOOLEAN
    /\ {MaxReleases, MaxResets, MaxStops, MaxFails, MaxRequests, MaxBinds} \subseteq Nat

VARIABLES
    disk,       \* per module: the release in the modules directory
    up,         \* whether this instance has started
    registry,   \* the modules this instance has loaded
    nodes,      \* database: the class nodes
    inst,       \* database: the class node an element is an instance of
    module,     \* database: the Module node's status and content hash (as a release)
    run,        \* the install run in progress
    tx,         \* the transaction in progress of one module's install
    req,        \* per administrator: the request in progress
    bind,       \* per element: the class id a binding change has checked
    used        \* how much of each bound is used up

dbVars == <<nodes, inst, module>>
vars == <<disk, up, registry, dbVars, run, tx, req, bind, used>>

----------------------------------------------------------------------------
(* Types *)

NoRelease == [on |-> FALSE, decl |-> <<>>, policy |-> "audit"]
ReleaseType == [on : BOOLEAN, decl : {<<>>} \cup UNION {Shipped[m] : m \in Modules}, policy : {"audit", "strict"}]

NodeType == {NoNode} \cup [owner : Modules, name : Names, id : Ids, live : BOOLEAN]

NoRun == [pc |-> "idle", kind |-> "none", sweeps |-> FALSE, valid |-> {}, present |-> {},
          rels |-> [m \in Modules |-> NoRelease], todo |-> {}, hooks |-> {}]

NoTx == [pc |-> "idle", m |-> NoModule, rel |-> NoRelease, i |-> 0, applied |-> 0,
         failed |-> 0, work |-> [n \in Nodes |-> NoNode], left |-> {}, n |-> 0]

NoReq == [pc |-> "idle", m |-> NoModule, name |-> NoName, old |-> NoId, new |-> NoId,
          cascade |-> FALSE, groups |-> {}]

GroupType == [canon : Nodes, dups : SUBSET Nodes]

Statuses == {"absent", "partial", "authoritative"}

\* Every variable stays in its domain.
TypeOK ==
    /\ disk \in [Modules -> ReleaseType]
    /\ up \in BOOLEAN
    /\ registry \subseteq Modules
    /\ nodes \in [Nodes -> NodeType]
    /\ inst \in [Elements -> {Gone, Unbound} \cup Nodes]
    /\ module \in [Modules -> [status : Statuses, rel : ReleaseType]]
    /\ run \in [pc : {"idle", "modules", "sweep", "hooks"}, kind : {"none", "boot", "reset"},
                sweeps : BOOLEAN, valid : SUBSET Modules, present : SUBSET Modules,
                rels : [Modules -> ReleaseType], todo : SUBSET Modules,
                hooks : SUBSET Modules]
    /\ tx \in [pc : {"idle", "upsert", "count", "orphan", "delete"},
               m : Modules \cup {NoModule}, rel : ReleaseType, i : Nat,
               applied : Nat, failed : Nat, work : [Nodes -> NodeType],
               left : SUBSET Nodes, n : 0..MaxNodes]
    /\ req \in [Admins -> [pc : {"idle", "migrateCheck", "migrateWrite", "reviveWrite",
                                 "deleteCount", "deleteWrite", "merge"},
                           m : Modules \cup {NoModule}, name : Names \cup {NoName},
                           old : Ids \cup {NoId}, new : Ids \cup {NoId},
                           cascade : BOOLEAN, groups : SUBSET GroupType]]
    /\ bind \in [Elements -> Ids \cup {NoId}]
    /\ used \in [releases : 0..MaxReleases, resets : 0..MaxResets, stops : 0..MaxStops,
                 fails : 0..MaxFails, requests : 0..MaxRequests, binds : 0..MaxBinds]

Init ==
    /\ disk = [m \in Modules |-> NoRelease]
    /\ up = FALSE /\ registry = {}
    /\ nodes = [n \in Nodes |-> IF n <= Len(InitNodes) THEN InitNodes[n] ELSE NoNode]
    /\ inst = [e \in Elements |-> Unbound]
    /\ module = [m \in Modules |->
                    [status |-> IF \E n \in Nodes : nodes[n].owner = m
                                THEN "partial" ELSE "absent",
                     rel |-> NoRelease]]
    /\ run = NoRun /\ tx = NoTx
    /\ req = [a \in Admins |-> NoReq]
    /\ bind = [e \in Elements |-> NoId]
    /\ used = [releases |-> 0, resets |-> 0, stops |-> 0, fails |-> 0, requests |-> 0,
               binds |-> 0]

Spend(kind, max) ==
    /\ used[kind] < max
    /\ used' = [used EXCEPT ![kind] = @ + 1]

----------------------------------------------------------------------------
(* The graph's queries and updates on a set w of class nodes *)

Existing(w) == {n \in Nodes : w[n] # NoNode}
ByName(w, m, name) == {n \in Nodes : w[n].owner = m /\ w[n].name = name}
ById(w, id) == {n \in Nodes : w[n] # NoNode /\ w[n].id = id}
Owned(w, m, id) == {n \in ById(w, id) : w[n].owner = m}

\* Nodes no class has and no clean-up in progress still refers to.
FreeNodes(w) ==
    {n \in Nodes : /\ w[n] = NoNode /\ nodes[n] = NoNode
                   /\ \A a \in Admins : \A g \in req[a].groups : n \notin g.dups \cup {g.canon}}

\* renameEdge between HAS_CLASS and HAS_ORPHANED_CLASS.
SetLive(w, m, id, live) ==
    [n \in Nodes |-> IF n \in Owned(w, m, id) THEN [w[n] EXCEPT !.live = live] ELSE w[n]]

\* applySetProperties: every node with the id takes the declared name.
SetProperties(w, cls) ==
    [n \in Nodes |-> IF n \in ById(w, cls.id) THEN [w[n] EXCEPT !.name = cls.name] ELSE w[n]]

SetId(w, ns, new) ==
    [n \in Nodes |-> IF n \in ns THEN [w[n] EXCEPT !.id = new] ELSE w[n]]

Without(w, ns) == [n \in Nodes |-> IF n \in ns THEN NoNode ELSE w[n]]

\* DETACH DELETE of class nodes: their instances lose the edge, not their node.
Detached(w) == [e \in Elements |-> IF inst[e] \in Nodes /\ w[inst[e]] = NoNode
                                   THEN Unbound ELSE inst[e]]

InstancesOf(ns) == {e \in Elements : inst[e] \in ns}

DeclaredNames(decl) == {decl[i].name : i \in DOMAIN decl}

----------------------------------------------------------------------------
(* upsertClass: the node found by name decides; otherwise the id does.  A   *)
(* result is the new graph and whether the class was applied.               *)

Skipped(w) == [w |-> w, ok |-> FALSE]
Applied(w) == [w |-> w, ok |-> TRUE]

\* reviveClass, called when the node found is reached through the orphan edge.
Revived(w, n) == IF w[n].live THEN w ELSE SetLive(w, w[n].owner, w[n].id, TRUE)

\* Mutant: every node of this module with the id is taken for a rename.
IsRenameUndeclared(w, m, n, names) == w[n].owner = m

\* Case (d): a node of this module whose old name is no longer declared is a
\* rename with a stable id; anything else is a collision.
IsRename(w, m, n, names) == w[n].owner = m /\ w[n].name \notin names

\* The new node is the lowest free one; without one (MaxNodes) there is no result.
CreateClass(w, m, cls) ==
    {Applied([w EXCEPT ![k] = [owner |-> m, name |-> cls.name, id |-> cls.id, live |-> TRUE]]) :
        k \in {n \in FreeNodes(w) : \A j \in FreeNodes(w) : n <= j}}

\* Mutant: the collision check spans this module's classes only.
UpsertByOwnId(w, m, cls, names) ==
    IF Owned(w, m, cls.id) = {} THEN CreateClass(w, m, cls)
    ELSE {IF IsRename(w, m, n, names)
          THEN Applied(SetProperties(Revived(w, n), cls))
          ELSE Skipped(w) : n \in Owned(w, m, cls.id)}

UpsertById(w, m, cls, names) ==
    IF ById(w, cls.id) = {} THEN CreateClass(w, m, cls)
    ELSE {IF IsRename(w, m, n, names)
          THEN Applied(SetProperties(Revived(w, n), cls))
          ELSE Skipped(w) : n \in ById(w, cls.id)}

\* Mutant: the new id's owner is not looked for.
RebindUnchecked(w, m, cls, n, policy) ==
    IF policy = "strict" THEN Skipped(w)
    ELSE Applied(SetProperties(SetId(Revived(w, n), Owned(w, m, w[n].id), cls.id), cls))

\* Mutant: where the policy forbids the change, a class with the new id is created.
RebindCreates(w, m, cls, n, policy) ==
    IF ById(w, cls.id) # {} THEN Skipped(w)
    ELSE IF policy = "strict" THEN CHOOSE r \in CreateClass(w, m, cls) : TRUE
    ELSE Applied(SetProperties(SetId(Revived(w, n), Owned(w, m, w[n].id), cls.id), cls))

\* Mutant: a changed id makes a second class, as before ids were stable.
RebindBeside(w, m, cls, n, policy) ==
    IF policy = "strict" \/ ById(w, cls.id) # {} THEN Skipped(w)
    ELSE CHOOSE r \in CreateClass(w, m, cls) : TRUE

\* Case (c): the id changes in place unless the policy forbids it or the new
\* id has an owner, of this or of another module.
Rebind(w, m, cls, n, policy) ==
    IF policy = "strict" \/ ById(w, cls.id) # {} THEN Skipped(w)
    ELSE Applied(SetProperties(SetId(Revived(w, n), Owned(w, m, w[n].id), cls.id), cls))

UpsertByName(w, m, cls, n, policy) ==
    IF w[n].id = cls.id
    THEN Applied(SetProperties(Revived(w, n), cls))
    ELSE Rebind(w, m, cls, n, policy)

UpsertResults(w, m, cls, names, policy) ==
    LET found == ByName(w, m, cls.name)
    IN IF found = {} THEN UpsertById(w, m, cls, names)
       ELSE {UpsertByName(w, m, cls, n, policy) : n \in found}

----------------------------------------------------------------------------
(* Releases, and the install run: every module that changed, then the sweep  *)
(* of modules that are gone, then the modules' hooks                         *)

OnDisk == {m \in Modules : disk[m].on}

Release(m, decl, policy) ==
    /\ Spend("releases", MaxReleases)
    /\ disk' = [disk EXCEPT ![m] = [on |-> TRUE, decl |-> decl, policy |-> policy]]
    /\ UNCHANGED <<up, registry, dbVars, run, tx, req, bind>>

Withdraw(m) ==
    /\ disk[m].on
    /\ Spend("releases", MaxReleases)
    /\ disk' = [disk EXCEPT ![m] = NoRelease]
    /\ UNCHANGED <<up, registry, dbVars, run, tx, req, bind>>

\* policyDriftClasses: a declared class reports a hash its active node lacks.
PolicyDrift(m) ==
    \E i \in DOMAIN disk[m].decl :
        LET cls == disk[m].decl[i]
        IN /\ cls.name \in Hashed
           /\ \A n \in Owned(nodes, m, cls.id) : ~nodes[n].live \/ nodes[n].name # cls.name

\* Mutant: the gate does not ask whether the last install was authoritative.
UnchangedContent(m) == module[m].status # "absent" /\ module[m].rel = disk[m]

\* The content-hash skip gate.
Unchanged(m) ==
    /\ module[m].status = "authoritative"
    /\ module[m].rel = disk[m]
    /\ ~PolicyDrift(m)

\* Start-up: modules that do not load are not registered; one whose getMetadata
\* throws while it loads is registered under its directory's name.  One whose
\* getMetadata throws later, in the run, is not installed but stays registered.
Boot(lost, nameless, silent, force) ==
    LET loaded == OnDisk \ lost
        named == (loaded \ nameless) \cup (nameless \cap DirNamed)
    IN /\ ~up
       /\ up' = TRUE
       /\ registry' = named
       /\ used' = [used EXCEPT !.fails = @ + Cardinality(lost \cup nameless \cup silent)]
       /\ used'.fails <= MaxFails
       /\ run' = [pc |-> "modules", kind |-> "boot", sweeps |-> loaded # {},
                  valid |-> named, present |-> OnDisk, rels |-> disk,
                  todo |-> {m \in loaded \ (nameless \cup silent) : force \/ ~Unchanged(m)},
                  hooks |-> {m \in loaded \ (nameless \cup silent) : ~force /\ Unchanged(m)}]
       /\ UNCHANGED <<disk, dbVars, tx, req, bind>>

\* resetSingleModule: one registered module, whether it changed or not.
Reset(m) ==
    /\ up /\ run.pc = "idle"
    /\ m \in registry \cap OnDisk
    /\ Spend("resets", MaxResets)
    /\ run' = [NoRun EXCEPT !.pc = "modules", !.kind = "reset", !.rels = disk,
                         !.todo = {m}]
    /\ UNCHANGED <<disk, up, registry, dbVars, tx, req, bind>>

\* upsertModule begins, with the metadata the run read before its first write.
BeginModule(m) ==
    /\ run.pc = "modules" /\ tx.pc = "idle"
    /\ m \in run.todo
    /\ run' = [run EXCEPT !.todo = @ \ {m}]
    /\ tx' = [NoTx EXCEPT !.pc = "upsert", !.m = m, !.rel = run.rels[m], !.i = 1,
                          !.work = nodes]
    /\ UNCHANGED <<disk, up, registry, dbVars, req, bind, used>>

\* Phase 4 starts when the last declared class was tried: the active classes
\* whose names are not declared are to be reconciled.
Undeclared(w, m, decl) ==
    {n \in Nodes : w[n].owner = m /\ w[n].live /\ w[n].name \notin DeclaredNames(decl)}

Upsert ==
    LET cls == tx.rel.decl[tx.i]
    IN /\ tx.pc = "upsert" /\ tx.i <= Len(tx.rel.decl)
       /\ \E r \in UpsertResults(tx.work, tx.m, cls, DeclaredNames(tx.rel.decl), tx.rel.policy) :
             tx' = [tx EXCEPT !.i = @ + 1, !.work = r.w,
                              !.applied = IF r.ok THEN @ + 1 ELSE @]
       /\ UNCHANGED <<disk, up, registry, dbVars, run, req, bind, used>>

\* A class the database cannot store fails alone, before it is written.
UpsertThrows ==
    /\ tx.pc = "upsert" /\ tx.i <= Len(tx.rel.decl)
    /\ Spend("fails", MaxFails)
    /\ tx' = [tx EXCEPT !.i = @ + 1]
    /\ UNCHANGED <<disk, up, registry, dbVars, run, req, bind>>

ListUndeclared ==
    /\ tx.pc = "upsert" /\ tx.i > Len(tx.rel.decl)
    /\ tx' = [tx EXCEPT !.pc = "count", !.left = Undeclared(tx.work, tx.m, tx.rel.decl)]
    /\ UNCHANGED <<disk, up, registry, dbVars, run, req, bind, used>>

\* Mutant: instances are not looked for.
NoInstances(w, id) == FALSE

\* hasIncidentInstances, by the class's id.
HasInstances(w, id) == InstancesOf(ById(w, id)) # {}

CountInstances ==
    /\ tx.pc = "count"
    /\ \E n \in tx.left :
          tx' = [tx EXCEPT !.n = n,
                           !.pc = IF HasInstances(tx.work, tx.work[n].id)
                                  THEN "orphan" ELSE "delete"]
    /\ UNCHANGED <<disk, up, registry, dbVars, run, req, bind, used>>

Reconciled(w, m, n, pc) ==
    IF pc = "orphan" THEN SetLive(w, m, w[n].id, FALSE)
    ELSE Without(w, {k \in Owned(w, m, w[n].id) : w[k].live})

Reconcile ==
    /\ tx.pc \in {"orphan", "delete"}
    /\ tx' = [tx EXCEPT !.pc = "count", !.left = @ \ {tx.n}, !.n = 0,
                        !.work = Reconciled(@, tx.m, tx.n, tx.pc)]
    /\ UNCHANGED <<disk, up, registry, dbVars, run, req, bind, used>>

ReconcileThrows ==
    /\ tx.pc \in {"orphan", "delete"}
    /\ Spend("fails", MaxFails)
    /\ tx' = [tx EXCEPT !.pc = "count", !.left = @ \ {tx.n}, !.n = 0, !.failed = @ + 1]
    /\ UNCHANGED <<disk, up, registry, dbVars, run, req, bind>>

\* Mutant: an install that applied nothing reports the status the documentation names.
InstallStatusUnavailable ==
    IF tx.applied = 0 /\ Len(tx.rel.decl) > 0 THEN "unavailable"
    ELSE IF tx.applied = Len(tx.rel.decl) THEN "authoritative" ELSE "partial"

\* Phase 5: an install is authoritative when every declared class was applied
\* and every reconciliation step succeeded.
InstallStatus ==
    IF tx.applied = Len(tx.rel.decl) /\ tx.failed = 0 THEN "authoritative" ELSE "partial"

\* The release the content hash on the Module node stands for: a reset computes
\* none, and writes over the stored one only if the module ships its own.
StoredHash ==
    IF run.kind = "reset" /\ tx.m \notin ShipsHash THEN module[tx.m].rel ELSE tx.rel

Commit ==
    /\ tx.pc = "count" /\ tx.left = {}
    /\ nodes' = tx.work
    /\ inst' = Detached(tx.work)
    /\ module' = [module EXCEPT ![tx.m] = [status |-> InstallStatus, rel |-> StoredHash]]
    /\ run' = [run EXCEPT !.hooks = @ \cup {tx.m}]
    /\ tx' = NoTx
    /\ UNCHANGED <<disk, up, registry, req, bind, used>>

\* A database error rolls the module's transaction back; a run goes on with the
\* other modules.
Abort ==
    /\ tx.pc # "idle"
    /\ Spend("fails", MaxFails)
    /\ tx' = NoTx
    /\ UNCHANGED <<disk, up, registry, dbVars, run, req, bind>>

ModulesDone ==
    /\ run.pc = "modules" /\ tx.pc = "idle" /\ run.todo = {}
    /\ run' = [run EXCEPT !.pc = IF run.sweeps THEN "sweep" ELSE "hooks"]
    /\ UNCHANGED <<disk, up, registry, dbVars, tx, req, bind, used>>

\* Mutant: the sweep looks only at modules whose last install was complete.
ObsoleteComplete == {m \in Modules : module[m].status = "authoritative"} \ run.valid

\* deleteOldModules: the Module nodes whose name no registered module has go,
\* with their active and their orphaned classes.
Obsolete == {m \in Modules : module[m].status # "absent"} \ run.valid

SweepObsolete ==
    LET kept == Without(nodes, {n \in Nodes : nodes[n].owner \in Obsolete})
    IN /\ run.pc = "sweep"
       /\ nodes' = kept
       /\ inst' = Detached(kept)
       /\ module' = [m \in Modules |-> IF m \in Obsolete
                                       THEN [status |-> "absent", rel |-> NoRelease]
                                       ELSE module[m]]
       /\ run' = [run EXCEPT !.pc = "hooks"]
       /\ UNCHANGED <<disk, up, registry, tx, req, bind, used>>

SweepThrows ==
    /\ run.pc = "sweep"
    /\ Spend("fails", MaxFails)
    /\ run' = [run EXCEPT !.pc = "hooks"]
    /\ UNCHANGED <<disk, up, registry, dbVars, tx, req, bind>>

\* afterInstall of each installed or skipped module; one that fails marks its
\* module partial, so that the next start installs it again.
RunHooks(failed) ==
    /\ run.pc = "hooks"
    /\ failed \subseteq run.hooks
    /\ used' = [used EXCEPT !.fails = @ + Cardinality(failed)]
    /\ used'.fails <= MaxFails
    /\ module' = [m \in Modules |-> IF m \in failed /\ module[m].status # "absent"
                                    THEN [module[m] EXCEPT !.status = "partial"]
                                    ELSE module[m]]
    /\ run' = NoRun
    /\ UNCHANGED <<disk, up, registry, nodes, inst, tx, req, bind>>

\* The process stops, cleanly or not: its transaction rolls back and what it
\* held in memory is lost.
Halt ==
    /\ up' = FALSE /\ registry' = {}
    /\ run' = NoRun /\ tx' = NoTx
    /\ req' = IF Rolling THEN req ELSE [a \in Admins |-> NoReq]
    /\ bind' = IF Rolling THEN bind ELSE [e \in Elements |-> NoId]
    /\ UNCHANGED <<disk, dbVars>>

Crash == up /\ Spend("stops", MaxStops) /\ Halt

\* An operator restarts a platform whose install run is over.
Restart == up /\ run.pc = "idle" /\ Halt /\ UNCHANGED used

----------------------------------------------------------------------------
(* The administrator's mutations.  Each reads, then writes in a transaction  *)
(* of its own.  A write waits for an install transaction that is open: both  *)
(* write the same nodes.                                                     *)

Serving == Rolling \/ (up /\ run.kind # "boot")

Answer(a) == req' = [req EXCEPT ![a] = NoReq]

MigrateRead(a, m, name, new) ==
    /\ Serving /\ req[a].pc = "idle" /\ "migrate" \in AdminOps
    /\ Spend("requests", MaxRequests)
    /\ \E n \in ByName(nodes, m, name) :
          /\ nodes[n].id # new
          /\ req' = [req EXCEPT ![a] = [NoReq EXCEPT !.pc = "migrateCheck", !.m = m,
                                          !.name = name, !.old = nodes[n].id, !.new = new]]
    /\ UNCHANGED <<disk, up, registry, dbVars, run, tx, bind>>

\* Only another module's class with the new id refuses the migration.
MigrateRefused(m, new) == \E n \in ById(nodes, new) : nodes[n].owner # m

MigrateCheck(a) ==
    /\ req[a].pc = "migrateCheck"
    /\ IF MigrateRefused(req[a].m, req[a].new) THEN Answer(a)
       ELSE req' = [req EXCEPT ![a].pc = "migrateWrite"]
    /\ UNCHANGED <<disk, up, registry, dbVars, run, tx, bind, used>>

\* The write matches the id and the name it read; a constraint on ids rejects
\* it when a node has the new id.
MigrateWrite(a) ==
    LET r == req[a]
        found == {n \in Owned(nodes, r.m, r.old) : nodes[n].name = r.name}
    IN /\ r.pc = "migrateWrite" /\ tx.pc = "idle"
       /\ nodes' = IF IdConstraint /\ ById(nodes, r.new) # {} THEN nodes
                   ELSE SetId(nodes, found, r.new)
       /\ Answer(a)
       /\ UNCHANGED <<disk, up, registry, inst, module, run, tx, bind, used>>

ReviveRead(a, id) ==
    /\ Serving /\ req[a].pc = "idle" /\ "revive" \in AdminOps
    /\ Spend("requests", MaxRequests)
    /\ \E n \in ById(nodes, id) :
          /\ ~nodes[n].live
          /\ req' = [req EXCEPT ![a] = [NoReq EXCEPT !.pc = "reviveWrite",
                                          !.m = nodes[n].owner, !.old = id]]
    /\ UNCHANGED <<disk, up, registry, dbVars, run, tx, bind>>

ReviveWrite(a) ==
    /\ req[a].pc = "reviveWrite" /\ tx.pc = "idle"
    /\ nodes' = SetLive(nodes, req[a].m, req[a].old, TRUE)
    /\ Answer(a)
    /\ UNCHANGED <<disk, up, registry, inst, module, run, tx, bind, used>>

\* An active class is refused.
Deletable(id) == \E n \in ById(nodes, id) : ~nodes[n].live

DeleteRead(a, id, cascade) ==
    /\ Serving /\ req[a].pc = "idle" /\ "delete" \in AdminOps
    /\ Spend("requests", MaxRequests)
    /\ Deletable(id)
    /\ req' = [req EXCEPT ![a] = [NoReq EXCEPT !.pc = "deleteCount", !.old = id,
                                    !.cascade = cascade]]
    /\ UNCHANGED <<disk, up, registry, dbVars, run, tx, bind>>

\* Without cascade, instances refuse the deletion.
DeleteCount(a) ==
    /\ req[a].pc = "deleteCount"
    /\ IF ~req[a].cascade /\ HasInstances(nodes, req[a].old) THEN Answer(a)
       ELSE req' = [req EXCEPT ![a].pc = "deleteWrite"]
    /\ UNCHANGED <<disk, up, registry, dbVars, run, tx, bind, used>>

\* The write deletes the class with the id, and every instance of it.
DeleteWrite(a) ==
    LET found == ById(nodes, req[a].old)
    IN /\ req[a].pc = "deleteWrite" /\ tx.pc = "idle"
       /\ nodes' = Without(nodes, found)
       /\ inst' = [e \in Elements |-> IF inst[e] \in found THEN Gone ELSE inst[e]]
       /\ Answer(a)
       /\ UNCHANGED <<disk, up, registry, module, run, tx, bind, used>>

----------------------------------------------------------------------------
(* The identity clean-up: nodes of one module with one name are merged into  *)
(* the active one with the lowest internal id, one transaction per group     *)

Canonical(ns) ==
    LET active == {n \in ns : nodes[n].live} IN Min(IF active = {} THEN ns ELSE active)

\* Mutant: nodes of one name are merged whichever module owns them.
DuplicateNames ==
    {LET ns == {k \in Existing(nodes) : nodes[k].name = name}
     IN [canon |-> Canonical(ns), dups |-> ns \ {Canonical(ns)}] :
        name \in {x \in Names :
                    Cardinality({k \in Existing(nodes) : nodes[k].name = x}) > 1}}

DuplicateGroups ==
    {LET ns == ByName(nodes, nodes[n].owner, nodes[n].name)
     IN [canon |-> Canonical(ns), dups |-> ns \ {Canonical(ns)}] :
        n \in {k \in Existing(nodes) :
                 Cardinality(ByName(nodes, nodes[k].owner, nodes[k].name)) > 1}}

DedupRead(a) ==
    /\ Serving /\ req[a].pc = "idle" /\ "dedup" \in AdminOps
    /\ Spend("requests", MaxRequests)
    /\ DuplicateGroups # {}
    /\ req' = [req EXCEPT ![a] = [NoReq EXCEPT !.pc = "merge", !.groups = DuplicateGroups]]
    /\ UNCHANGED <<disk, up, registry, dbVars, run, tx, bind>>

\* Instances move to the canonical node, if it still exists; a node that still
\* has any is kept.
Redirected(g) ==
    [e \in Elements |-> IF inst[e] \in g.dups /\ nodes[g.canon] # NoNode
                        THEN g.canon ELSE inst[e]]

NextGroup(a, g) ==
    LET rest == req[a].groups \ {g}
    IN req' = [req EXCEPT ![a] = IF rest = {} THEN NoReq ELSE [req[a] EXCEPT !.groups = rest]]

MergeGroup(a, g) ==
    /\ req[a].pc = "merge" /\ g \in req[a].groups /\ tx.pc = "idle"
    /\ inst' = Redirected(g)
    /\ nodes' = Without(nodes, {n \in g.dups : \A e \in Elements : inst'[e] # n})
    /\ NextGroup(a, g)
    /\ UNCHANGED <<disk, up, registry, module, run, tx, bind, used>>

\* A group whose transaction fails is rolled back; the run goes on with the next.
MergeFails(a, g) ==
    /\ req[a].pc = "merge" /\ g \in req[a].groups
    /\ Spend("fails", MaxFails)
    /\ NextGroup(a, g)
    /\ UNCHANGED <<disk, up, registry, dbVars, run, tx, bind>>

----------------------------------------------------------------------------
(* Binding changes: the class must be active when it is looked up; the write *)
(* finds it again by its id                                                  *)

BindCheck(e, id) ==
    /\ Serving /\ bind[e] = NoId /\ inst[e] # Gone
    /\ \E n \in ById(nodes, id) : nodes[n].live
    /\ Spend("binds", MaxBinds)
    /\ bind' = [bind EXCEPT ![e] = id]
    /\ UNCHANGED <<disk, up, registry, dbVars, run, tx, req>>

\* With snapshots a bind and an install that write one class exclude each other;
\* with read-committed isolation only a node the install has written is locked.
Bindable(n) == tx.pc = "idle" \/ (ReadCommitted /\ tx.work[n] = nodes[n])

BindWrite(e) ==
    /\ bind[e] # NoId
    /\ \/ \E n \in ById(nodes, bind[e]) :
             /\ Bindable(n)
             /\ inst' = [inst EXCEPT ![e] = IF @ = Gone THEN Gone ELSE n]
       \/ ById(nodes, bind[e]) = {} /\ inst' = inst
    /\ bind' = [bind EXCEPT ![e] = NoId]
    /\ UNCHANGED <<disk, up, registry, nodes, module, run, tx, req, used>>

Unbind(e) ==
    /\ Serving /\ inst[e] \in Nodes /\ bind[e] = NoId /\ Bindable(inst[e])
    /\ inst' = [inst EXCEPT ![e] = Unbound]
    /\ UNCHANGED <<disk, up, registry, nodes, module, run, tx, req, bind, used>>

----------------------------------------------------------------------------

Operate ==
    \/ \E m \in Modules : Withdraw(m) \/ Reset(m)
    \/ \E m \in Modules, policy \in Policies : \E decl \in Shipped[m] : Release(m, decl, policy)
    \/ Restart
    \/ Crash

Faulty(kind) == IF kind \in LoadFaults THEN SUBSET OnDisk ELSE {{}}

Start ==
    \E lost \in Faulty("load"), nameless \in Faulty("metadata") :
        \E silent \in SUBSET OnDisk, force \in BOOLEAN :
            /\ lost \cap nameless = {} /\ silent \cap (lost \cup nameless) = {}
            /\ Boot(lost, nameless, silent, force)

Install ==
    \/ \E m \in Modules : BeginModule(m)
    \/ Upsert \/ ListUndeclared \/ CountInstances \/ Reconcile \/ Commit
    \/ ModulesDone \/ SweepObsolete
    \/ \E failed \in SUBSET Modules : RunHooks(failed)

InstallFails == UpsertThrows \/ ReconcileThrows \/ Abort \/ SweepThrows

Administer(a) ==
    \/ \E m \in Modules, name \in Names, new \in Ids : MigrateRead(a, m, name, new)
    \/ MigrateCheck(a) \/ MigrateWrite(a)
    \/ \E id \in Ids : ReviveRead(a, id)
    \/ ReviveWrite(a)
    \/ \E id \in Ids, cascade \in BOOLEAN : DeleteRead(a, id, cascade)
    \/ DeleteCount(a) \/ DeleteWrite(a)
    \/ DedupRead(a)
    \/ \E g \in req[a].groups : MergeGroup(a, g) \/ MergeFails(a, g)

UseClasses(e) ==
    \/ \E id \in Ids : BindCheck(e, id)
    \/ BindWrite(e)
    \/ Unbind(e)

Next ==
    \/ Operate \/ Start \/ Install \/ InstallFails
    \/ \E a \in Admins : Administer(a)
    \/ \E e \in Elements : UseClasses(e)

Spec == Init /\ [][Next]_vars

\* A started process runs its install to the end, and the platform is started
\* again whenever it is down or its install run is over (an operator upgrades or
\* restarts it now and then).
FairSpec ==
    /\ Spec
    /\ WF_vars(Start) /\ WF_vars(Install) /\ WF_vars(Restart)

----------------------------------------------------------------------------
(* Properties *)

\* Two class nodes never have one id, so a route by class id finds one class.
\* The collision checks of upsertClass see to it even where the database has no
\* UNIQUE constraint, whatever ids and names successive releases of several
\* modules declare, reuse, swap or declare twice.
UniqueIds ==
    \A n, k \in Existing(nodes) : nodes[n].id = nodes[k].id => n = k

\* A module never has two class nodes of one name: the key by which upsertClass
\* finds the node to update, orphaned or not.
UniqueNames ==
    \A n, k \in Existing(nodes) :
        nodes[n].owner = nodes[k].owner /\ nodes[n].name = nodes[k].name => n = k

DistinctNames(decl) ==
    \A i, j \in DOMAIN decl : decl[i].name = decl[j].name => i = j

ActiveClasses(w, m) ==
    {[id |-> w[n].id, name |-> w[n].name] :
        n \in {k \in Nodes : w[k].owner = m /\ w[k].live}}

\* An install that reports 'authoritative' has left exactly the declared classes
\* active, each with the declared id: no later class of the list undid an earlier
\* one (unless the list declares a name twice), and no reconciliation failed.
AuthoritativeIsExact ==
    [][Commit /\ InstallStatus = "authoritative" /\ DistinctNames(tx.rel.decl)
       => ActiveClasses(nodes', tx.m) = {tx.rel.decl[i] : i \in DOMAIN tx.rel.decl}]_vars

\* A start skips the install of a module only if the graph holds what the module's
\* release declares: the content hash on the Module node stands for its classes.
SkipsOnlyInstalled ==
    [][~up /\ up' => \A m \in run'.hooks : DistinctNames(disk[m].decl) =>
          ActiveClasses(nodes, m) = {disk[m].decl[i] : i \in DOMAIN disk[m].decl}]_vars

\* An install never takes an element's class away: a class that left the module's
\* metadata is orphaned as long as it has instances.
InstallKeepsInstances ==
    [][Commit => \A e \in Elements : inst[e] \in Nodes => inst'[e] = inst[e]]_vars

\* The obsolescence sweep removes no module that was in the modules directory
\* when the run read it, whatever failed in the run: "delete only modules that
\* no longer exist on disk" (module-management.service.ts, updateAllModules).
SweepSparesPresent ==
    [][SweepObsolete => \A m \in run.present :
          module[m].status # "absent" => module'[m].status # "absent"]_vars

\* deleteOrphanedClass deletes orphaned classes only, and no element unless the
\* administrator asked for the cascade.
DeletesOrphansOnly ==
    [][\A a \in Admins : DeleteWrite(a) =>
          /\ \A n \in Existing(nodes) : nodes'[n] = NoNode => ~nodes[n].live
          /\ req[a].cascade \/ \A e \in Elements : inst'[e] = Gone => inst[e] = Gone]_vars

\* An active class whose id the new release still declares is still active when
\* the release is installed, under whatever name: the id is the identity.
DeclaredIdStaysActive ==
    [][Commit => \A n \in Nodes :
          /\ nodes[n].owner = tx.m /\ nodes[n].live
          /\ \E i \in DOMAIN tx.rel.decl : tx.rel.decl[i].id = nodes[n].id
          => nodes'[n].live]_vars

\* The clean-up takes no element's class away, whatever installs, migrations,
\* revivals and deletions come between its reading the groups and its merging them:
\* every instance of a merged class has a class of the same module afterwards.
MergeKeepsInstances ==
    [][\A a \in Admins : \A g \in req[a].groups : MergeGroup(a, g) =>
          \A e \in Elements : inst[e] \in Nodes =>
             /\ inst'[e] \in Existing(nodes)'
             /\ nodes'[inst'[e]].owner = nodes[inst[e]].owner]_vars

\* What the clean-up has merged stays merged: whatever installs, migrations,
\* revivals, deletions and other clean-ups do to a graph with duplicate nodes, no
\* two nodes come to be one module's class of one name that were not before.
DuplicatesDoNotReturn ==
    [][\A n, k \in Existing(nodes') :
          n # k /\ nodes'[n].owner = nodes'[k].owner /\ nodes'[n].name = nodes'[k].name
          => /\ {n, k} \subseteq Existing(nodes)
             /\ nodes[n].owner = nodes[k].owner /\ nodes[n].name = nodes[k].name]_vars

\* The clean-up merges nodes of one name only: the class an element has keeps its
\* name.
MergeKeepsNames ==
    [][\A a \in Admins : \A g \in req[a].groups : MergeGroup(a, g) =>
          \A e \in Elements : inst[e] \in Nodes =>
             nodes'[inst'[e]].name = nodes[inst[e]].name]_vars

\* Two modules may claim one id; the one that came later stays partial.
Clashes(m) ==
    \E i \in DOMAIN disk[m].decl :
        \E n \in ById(nodes, disk[m].decl[i].id) : nodes[n].owner # m

\* What failed in an install run is made up for by later ones: in the end every
\* module on disk whose ids are its own is installed authoritatively and every
\* module withdrawn is gone (unless no module is left at all: a run without modules
\* sweeps nothing).
InstallsSettle ==
    <>[](\A m \in Modules :
            IF disk[m].on THEN module[m].status = "authoritative" \/ Clashes(m)
            ELSE module[m].status = "absent" \/ OnDisk = {})
================================================================================
