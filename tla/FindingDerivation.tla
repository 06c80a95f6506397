--------------------------- MODULE FindingDerivation ---------------------------
(*****************************************************************************)
(* How the backend (apps/dt-ws) derives an element's SYSTEM findings from    *)
(* the policy of its class, and how it keeps track of which policy they      *)
(* follow.  A save runs as three database transactions with a module         *)
(* evaluation between the first two:                                         *)
(*    attributes   ->  evaluate  ->  findings  ->  policy stamp.             *)
(* A module install writes the class's policyHash and requests a sweep,      *)
(* which saves again every binding whose stamp differs from that hash.       *)
(*                                                                           *)
(* A binding is one IS_INSTANCE_OF edge an element may have.  Findings are   *)
(* represented by what they were derived from: the policy and the answers.   *)
(* Within one instance runExclusive excludes two operations on one element   *)
(* (module ElementLock models that mechanism); nothing excludes two          *)
(* instances from each other between transactions.                           *)
(*****************************************************************************)
EXTENDS Integers, FiniteSets

CONSTANTS
    Instances,      \* running platform processes
    Classes,
    NBindings,      \* bindings, numbered in the order the sweep reads them
    ElementOf,      \* the element of a binding
    ClassOf,        \* the class of a binding
    Workers,        \* concurrent requests an instance serves
    Sweeper,        \* the operation slot of an instance's sweep
    InitBound,      \* the bindings that exist before the first start
    PageSize,       \* REEVALUATION_PAGE_SIZE
    BrokenPolicies, \* policies that do not compile
    DiskFaults,     \* what may happen to the module directory while it is in use:
                    \*   "missing": a policy file is absent for a while
                    \*   "midReload": a policy is released while a reload runs
    MaxPolicy,      \* bound: policies 1..MaxPolicy, in release order
    MaxRequests,    \* bound: user requests
    MaxResets,      \* bound: installs an operator or the embedder starts
    MaxCrashes,     \* bound: crashes
    MaxFails,       \* bound: database or module failures in an operation or install
    MaxSweepFails   \* bound: sweeps that cannot read their next page

Bindings == 1..NBindings
Ops == Instances \X (Workers \cup {Sweeper})

ASSUME BindingAssumption ==
    /\ NBindings \in Nat
    /\ ClassOf \in [Bindings -> Classes]
    /\ DOMAIN ElementOf = Bindings
    /\ InitBound \subseteq Bindings

ASSUME BoundAssumption ==
    /\ MaxPolicy \in Nat \ {0}
    /\ PageSize \in Nat \ {0}
    /\ {MaxRequests, MaxResets, MaxCrashes, MaxFails, MaxSweepFails} \subseteq Nat
    /\ DiskFaults \subseteq {"missing", "midReload"}
    /\ BrokenPolicies \subseteq 2..MaxPolicy

ASSUME ProcessAssumption ==
    /\ Sweeper \notin Workers
    /\ IsFiniteSet(Instances) /\ IsFiniteSet(Workers)

None == -1          \* no hash, no stamp, no findings
NoPolicy == 0       \* the policy of a class without a policies.rego
Hashes == None..MaxPolicy

VARIABLES
    disk,       \* per class: the policy released last, and whether its file is there
    engine,     \* per instance and class: the compiled policy, NoPolicy if none
    gen,        \* per instance: which module object the registry holds
    reload,     \* per instance: a module object loaded but not yet in the registry
    up,         \* per instance: whether it serves requests
    install,    \* per instance: the install in progress
    sweep,      \* per instance: FindingReevaluationService's state
    op,         \* per operation slot: what the operation holds in memory
    hash,       \* database: policyHash of a class
    bound,      \* database: the bindings that exist
    answers,    \* database: version of a binding's stored answers
    findings,   \* database: what the binding's SYSTEM findings were derived from
    stamp,      \* database: the element's policy stamp for the class
    failedSaves,\* history: bindings whose last save failed or got no answer
    used        \* how much of each bound is used up

instVars == <<engine, gen, reload, up>>
dbVars == <<hash, bound, answers, findings, stamp>>
vars == <<disk, instVars, install, sweep, op, dbVars, failedSaves, used>>

----------------------------------------------------------------------------
(* Types *)

NoFindings == [pol |-> None, ans |-> 0]

Kinds == {"none", "save", "bind", "unbind", "sweep"}

Pcs == {"idle", "wait", "reread", "attributes", "preflight", "module", "answers",
        "evaluate", "findings", "vouch", "stamp", "rewire", "release"}

Answers == 0..MaxRequests

IdleOp == [pc |-> "idle", kind |-> "none", b |-> 0, write |-> FALSE, ok |-> TRUE,
           hash |-> None, gen |-> 0, ans |-> 0, pol |-> None]

OpType == [pc : Pcs, kind : Kinds, b : 0..NBindings, write : BOOLEAN, ok : BOOLEAN,
           hash : Hashes, gen : Nat, ans : Answers, pol : Hashes]

NoHashes == [c \in Classes |-> None]

NoInstall == [pc |-> "idle", kind |-> "none", gen |-> 0, hashes |-> NoHashes,
              queue |-> {}]

InstallType == [pc : {"idle", "metadata", "write", "notify"},
                kind : {"none", "boot", "reset", "catchup"}, gen : Nat,
                hashes : [Classes -> Hashes], queue : SUBSET Nat]

NoReload == [on |-> FALSE, engine |-> [c \in Classes |-> NoPolicy]]

ReloadType == [on : BOOLEAN, engine : [Classes -> 0..MaxPolicy]]

NoSweep == [pc |-> "idle", again |-> FALSE, after |-> 0, page |-> {}, retry |-> {}]

SweepType == [pc : {"idle", "pages", "retry"}, again : BOOLEAN, after : 0..NBindings,
              page : SUBSET Bindings, retry : SUBSET Bindings]

UsedType == [requests : 0..MaxRequests, resets : 0..MaxResets,
             crashes : 0..MaxCrashes, fails : 0..MaxFails,
             sweepFails : 0..MaxSweepFails]

\* Every variable stays in its domain (the shapes the services keep in memory
\* and in the graph).
TypeOK ==
    /\ disk \in [Classes -> [ver : 1..MaxPolicy, present : BOOLEAN]]
    /\ engine \in [Instances -> [Classes -> 0..MaxPolicy]]
    /\ gen \in [Instances -> Nat]
    /\ reload \in [Instances -> ReloadType]
    /\ up \in [Instances -> BOOLEAN]
    /\ install \in [Instances -> InstallType]
    /\ sweep \in [Instances -> SweepType]
    /\ op \in [Ops -> OpType]
    /\ hash \in [Classes -> Hashes]
    /\ bound \subseteq Bindings
    /\ answers \in [Bindings -> Answers]
    /\ findings \in [Bindings -> [pol : Hashes, ans : Answers]]
    /\ stamp \in [Bindings -> Hashes]
    /\ failedSaves \subseteq Bindings
    /\ used \in UsedType

Init ==
    /\ disk = [c \in Classes |-> [ver |-> 1, present |-> TRUE]]
    /\ engine = [i \in Instances |-> [c \in Classes |-> NoPolicy]]
    /\ gen = [i \in Instances |-> 0]
    /\ reload = [i \in Instances |-> NoReload]
    /\ up = [i \in Instances |-> FALSE]
    /\ install = [i \in Instances |-> NoInstall]
    /\ sweep = [i \in Instances |-> NoSweep]
    /\ op = [o \in Ops |-> IdleOp]
    /\ hash = [c \in Classes |-> None]
    /\ bound = InitBound
    /\ answers = [b \in Bindings |-> 0]
    /\ findings = [b \in Bindings |-> NoFindings]
    /\ stamp = [b \in Bindings |-> None]
    /\ failedSaves = {}
    /\ used = [requests |-> 0, resets |-> 0, crashes |-> 0, fails |-> 0, sweepFails |-> 0]

----------------------------------------------------------------------------
(* The module: policies on disk and compiled policies *)

DiskPolicy(c) == IF disk[c].present THEN disk[c].ver ELSE NoPolicy

\* What registering the policy of class c leaves in its engine: getMetadata
\* prunes the engine of a class with no policy or one that does not compile.
Registered(c) == IF DiskPolicy(c) \in BrokenPolicies THEN NoPolicy ELSE DiskPolicy(c)

\* The policyHash getMetadata reports for class c.
MetadataHash(c) == IF DiskPolicy(c) \in BrokenPolicies THEN None ELSE DiskPolicy(c)

\* What getPolicyHash answers to operation o, from the module object it holds.
\* A disposed object has no engines left, so it answers from the file alone.
ReportedHash(o) ==
    LET c == ClassOf[op[o].b]
        compiled == IF op[o].gen = gen[o[1]] THEN engine[o[1]][c] ELSE NoPolicy
    IN  IF compiled # NoPolicy THEN compiled
        ELSE IF DiskPolicy(c) = NoPolicy THEN NoPolicy ELSE None

\* The engines after getMetadata ran on the module object: every class registered.
AllRegistered == [c \in Classes |-> Registered(c)]

\* An operator releases the next policy of a class into the module directory.
Deploy(c) ==
    /\ disk[c].ver < MaxPolicy
    /\ "midReload" \in DiskFaults \/ \A i \in Instances : ~reload[i].on
    /\ disk' = [disk EXCEPT ![c] = [ver |-> disk[c].ver + 1, present |-> TRUE]]
    /\ UNCHANGED <<instVars, install, sweep, op, dbVars, used, failedSaves>>

\* The file of a policy goes missing, or comes back, while a directory is replaced.
MoveFile(c) ==
    /\ "missing" \in DiskFaults
    /\ disk' = [disk EXCEPT ![c].present = ~disk[c].present]
    /\ UNCHANGED <<instVars, install, sweep, op, dbVars, used, failedSaves>>

\* A health probe calls getMetadata, which registers what is on disk.
Probe(i) ==
    /\ up[i]
    /\ engine' = [engine EXCEPT ![i] = AllRegistered]
    /\ UNCHANGED <<disk, gen, reload, up, install, sweep, op, dbVars, used, failedSaves>>

----------------------------------------------------------------------------
(* The re-evaluation sweep: request, coalescing and paging *)

\* Mutation: a request that finds a sweep running is dropped.
RequestedOrDropped(s) == IF s.pc = "idle" THEN [NoSweep EXCEPT !.pc = "pages"] ELSE s

\* request: start a sweep, or ask the running one for one more.
Requested(s) == IF s.pc = "idle" THEN [NoSweep EXCEPT !.pc = "pages"]
                ELSE [s EXCEPT !.again = TRUE]

Stale(b) == /\ b \in bound
            /\ hash[ClassOf[b]] # None
            /\ stamp[b] # hash[ClassOf[b]]

\* STALE_BINDINGS_CYPHER: the first PageSize stale bindings after the cursor.
StalePage(after) ==
    {b \in Bindings : /\ Stale(b) /\ b > after
                      /\ Cardinality({x \in (after+1)..(b-1) : Stale(x)}) < PageSize}

IsFirst(b, S) == b \in S /\ \A x \in S : b <= x

SweepReadPage(i) ==
    /\ sweep[i].pc = "pages" /\ sweep[i].page = {} /\ op[<<i, Sweeper>>].pc = "idle"
    /\ LET page == StalePage(sweep[i].after) IN
       sweep' = [sweep EXCEPT ![i] = IF page = {} THEN [@ EXCEPT !.pc = "retry"]
                                                  ELSE [@ EXCEPT !.page = page]]
    /\ UNCHANGED <<disk, instVars, install, op, dbVars, used, failedSaves>>

StartReevaluation(i, b) ==
    op' = [op EXCEPT ![<<i, Sweeper>>] =
             [IdleOp EXCEPT !.pc = "wait", !.kind = "sweep", !.b = b]]

SweepNext(i, b) ==
    /\ op[<<i, Sweeper>>].pc = "idle"
    /\ \/ /\ sweep[i].pc = "pages" /\ IsFirst(b, sweep[i].page)
          /\ sweep' = [sweep EXCEPT ![i] = [@ EXCEPT !.page = sweep[i].page \ {b}, !.after = b]]
       \/ /\ sweep[i].pc = "retry" /\ IsFirst(b, sweep[i].retry)
          /\ sweep' = [sweep EXCEPT ![i].retry = @ \ {b}]
    /\ StartReevaluation(i, b)
    /\ UNCHANGED <<disk, instVars, install, dbVars, used, failedSaves>>

\* The sweep is over: one more if a request came meanwhile.
EndSweep(i) ==
    sweep' = [sweep EXCEPT ![i] = IF @.again THEN [NoSweep EXCEPT !.pc = "pages"]
                                             ELSE NoSweep]

SweepEnd(i) ==
    /\ sweep[i].pc = "retry" /\ sweep[i].retry = {} /\ op[<<i, Sweeper>>].pc = "idle"
    /\ EndSweep(i)
    /\ UNCHANGED <<disk, instVars, install, op, dbVars, used, failedSaves>>

\* A page cannot be read: the sweep ends there, its retries with it.
SweepFail(i) ==
    /\ sweep[i].pc = "pages" /\ sweep[i].page = {} /\ op[<<i, Sweeper>>].pc = "idle"
    /\ used.sweepFails < MaxSweepFails
    /\ used' = [used EXCEPT !.sweepFails = @ + 1]
    /\ EndSweep(i)
    /\ UNCHANGED <<disk, instVars, install, op, dbVars, failedSaves>>

----------------------------------------------------------------------------
(* Installs and restarts *)

StartInstall(i, kind, g, queue) ==
    install' = [install EXCEPT ![i] = [pc |-> "metadata", kind |-> kind, gen |-> g,
                                       hashes |-> NoHashes, queue |-> queue]]

EndInstall(i) == [NoInstall EXCEPT !.queue = install[i].queue]

\* Process start: load the modules, then install them before serving anything.
Boot(i) ==
    /\ ~up[i] /\ install[i].pc = "idle"
    /\ engine' = [engine EXCEPT ![i] = AllRegistered]
    /\ gen' = [gen EXCEPT ![i] = @ + 1]
    /\ StartInstall(i, "boot", gen[i] + 1, {})
    /\ UNCHANGED <<disk, reload, up, sweep, op, dbVars, used, failedSaves>>

\* resetModuleById, reloadModule: a new module object is loaded from disk...
Reload(i) ==
    /\ up[i] /\ ~reload[i].on /\ used.resets < MaxResets
    /\ used' = [used EXCEPT !.resets = @ + 1]
    /\ reload' = [reload EXCEPT ![i] = [on |-> TRUE, engine |-> AllRegistered]]
    /\ UNCHANGED <<disk, engine, gen, up, install, sweep, op, dbVars, failedSaves>>

\* ... and then replaces the one in the registry, which is disposed; the reset
\* of the new object waits behind any install that runs.
Swap(i) ==
    /\ reload[i].on
    /\ engine' = [engine EXCEPT ![i] = reload[i].engine]
    /\ gen' = [gen EXCEPT ![i] = @ + 1]
    /\ reload' = [reload EXCEPT ![i] = NoReload]
    /\ install' = [install EXCEPT ![i].queue = @ \cup {gen[i] + 1}]
    /\ UNCHANGED <<disk, up, sweep, op, dbVars, used, failedSaves>>

StartReset(i) ==
    /\ install[i].pc = "idle"
    /\ \E g \in install[i].queue : /\ \A h \in install[i].queue : g <= h
                                   /\ StartInstall(i, "reset", g, install[i].queue \ {g})
    /\ UNCHANGED <<disk, instVars, sweep, op, dbVars, used, failedSaves>>

\* The embedder became ready: install again with the objects in the registry.
CatchUp(i) ==
    /\ up[i] /\ install[i].pc = "idle" /\ used.resets < MaxResets
    /\ used' = [used EXCEPT !.resets = @ + 1]
    /\ StartInstall(i, "catchup", gen[i], install[i].queue)
    /\ UNCHANGED <<disk, instVars, sweep, op, dbVars, failedSaves>>

\* getMetadata registers what is on disk; a disposed object throws.
InstallMetadata(i) ==
    /\ install[i].pc = "metadata"
    /\ IF install[i].gen = gen[i]
       THEN /\ engine' = [engine EXCEPT ![i] = AllRegistered]
            /\ install' = [install EXCEPT ![i] =
                              [@ EXCEPT !.pc = "write", !.hashes = [c \in Classes |-> MetadataHash(c)]]]
       ELSE /\ install' = [install EXCEPT ![i] = EndInstall(i)]
            /\ UNCHANGED engine
    /\ UNCHANGED <<disk, gen, reload, up, sweep, op, dbVars, used, failedSaves>>

\* The install transaction.  A class that cannot be written keeps its node as it
\* was; the others are written.
InstallWrite(i, written) ==
    /\ install[i].pc = "write"
    /\ \/ written = Classes /\ UNCHANGED used
       \/ /\ written # Classes /\ used.fails < MaxFails
          /\ used' = [used EXCEPT !.fails = @ + 1]
    /\ hash' = [c \in Classes |-> IF c \in written THEN install[i].hashes[c] ELSE hash[c]]
    /\ install' = [install EXCEPT ![i].pc = "notify"]
    /\ UNCHANGED <<disk, instVars, sweep, op, bound, answers, findings, stamp, failedSaves>>

\* Nothing was written: a start carries on, any other install ends unannounced.
NothingInstalled(i) ==
    install' = [install EXCEPT ![i] = IF @.kind = "boot" THEN [@ EXCEPT !.pc = "notify"]
                                                        ELSE EndInstall(i)]

\* The skip gate: the module's content is unchanged since its last install and
\* no class reports a policy hash its node does not hold.  A reset has no gate.
InstallSkip(i) ==
    /\ install[i].pc = "write" /\ install[i].kind # "reset"
    /\ \A c \in Classes : install[i].hashes[c] \in {None, hash[c]}
    /\ NothingInstalled(i)
    /\ UNCHANGED <<disk, instVars, sweep, op, dbVars, used, failedSaves>>

InstallFail(i) ==
    /\ install[i].pc = "write" /\ used.fails < MaxFails
    /\ used' = [used EXCEPT !.fails = @ + 1]
    /\ NothingInstalled(i)
    /\ UNCHANGED <<disk, instVars, sweep, op, dbVars, failedSaves>>

InstallNotify(i) ==
    /\ install[i].pc = "notify"
    /\ sweep' = [sweep EXCEPT ![i] = Requested(@)]
    /\ up' = [up EXCEPT ![i] = TRUE]
    /\ install' = [install EXCEPT ![i] = EndInstall(i)]
    /\ UNCHANGED <<disk, engine, gen, reload, op, dbVars, used, failedSaves>>

\* The process dies: everything it holds in memory is lost.
Crash(i) ==
    /\ up[i] \/ install[i].pc # "idle"
    /\ used.crashes < MaxCrashes
    /\ used' = [used EXCEPT !.crashes = @ + 1]
    /\ up' = [up EXCEPT ![i] = FALSE]
    /\ reload' = [reload EXCEPT ![i] = NoReload]
    /\ op' = [o \in Ops |-> IF o[1] = i THEN IdleOp ELSE op[o]]
    /\ install' = [install EXCEPT ![i] = NoInstall]
    /\ sweep' = [sweep EXCEPT ![i] = NoSweep]
    /\ failedSaves' = failedSaves \cup {op[o].b : o \in {q \in Ops : q[1] = i /\ op[q].kind = "save"}}
    /\ UNCHANGED <<disk, engine, gen, dbVars>>

----------------------------------------------------------------------------
(* Operations on an element *)

Holds(o) == op[o].pc \notin {"idle", "wait"}

SameElement(a, b) == ElementOf[a] = ElementOf[b]

\* A user's mutation arrives: setInstantiationAttributes (with or without a
\* changed answer) or changeElementBinding to a class or to none.
Request(o, kind, b, write) ==
    /\ o[2] \in Workers /\ up[o[1]] /\ op[o].pc = "idle"
    /\ used.requests < MaxRequests
    /\ used' = [used EXCEPT !.requests = @ + 1]
    /\ op' = [op EXCEPT ![o] = [IdleOp EXCEPT !.pc = "wait", !.kind = kind,
                                              !.b = b, !.write = write]]
    /\ UNCHANGED <<disk, instVars, install, sweep, dbVars, failedSaves>>

FirstStep(kind) == CASE kind = "save" -> "attributes"
                     [] kind = "sweep" -> "reread"
                     [] OTHER -> "preflight"

\* Mutation: operations of one instance are not kept apart.
NotExcluded(o) == FALSE

\* Some operation of the instance holds the element operation o asks for.
Excluded(o) == \E q \in Ops : q[1] = o[1] /\ Holds(q) /\ SameElement(op[q].b, op[o].b)

\* runExclusive: at most one operation per element and instance.
Enter(o) ==
    /\ op[o].pc = "wait" /\ ~Excluded(o)
    /\ op' = [op EXCEPT ![o].pc = FirstStep(op[o].kind)]
    /\ UNCHANGED <<disk, instVars, install, sweep, dbVars, used, failedSaves>>

\* reevaluate re-reads the binding under the lock: unbound or current is done.
Reread(o) ==
    /\ op[o].pc = "reread"
    /\ op' = [op EXCEPT ![o].pc = IF Stale(op[o].b) THEN "attributes" ELSE "release"]
    /\ UNCHANGED <<disk, instVars, install, sweep, dbVars, used, failedSaves>>

Refuse(o) == op' = [op EXCEPT ![o] = [@ EXCEPT !.pc = "release", !.ok = FALSE]]

\* Mutation: a save that changes nothing counts as a change.
AlwaysNewAnswers(o) == answers[op[o].b] + 1

\* A sweep's save, and a save of the values already stored, change no answer.
NewAnswers(o) == IF op[o].write THEN answers[op[o].b] + 1 ELSE answers[op[o].b]

\* The first transaction of a save: write the answers, read the class's hash.
WriteAttributes(o) ==
    LET b == op[o].b IN
    /\ op[o].pc = "attributes"
    /\ IF b \in bound
       THEN /\ answers' = [answers EXCEPT ![b] = NewAnswers(o)]
            /\ op' = [op EXCEPT ![o] = [@ EXCEPT !.pc = "module", !.hash = hash[ClassOf[b]]]]
       ELSE /\ Refuse(o)
            /\ UNCHANGED answers
    /\ UNCHANGED <<disk, instVars, install, sweep, hash, bound, findings, stamp, used, failedSaves>>

\* changeElementBinding's reads: nothing to do, or the target class's hash.
Preflight(o) ==
    LET b == op[o].b
        done == IF op[o].kind = "bind" THEN b \in bound
                ELSE \A x \in bound : ~SameElement(x, b)
    IN
    /\ op[o].pc = "preflight"
    /\ op' = [op EXCEPT ![o] =
                 IF done THEN [@ EXCEPT !.pc = "release"]
                 ELSE IF @.kind = "bind"
                      THEN [@ EXCEPT !.pc = "module", !.hash = hash[ClassOf[b]]]
                      ELSE [@ EXCEPT !.pc = "rewire"]]
    /\ UNCHANGED <<disk, instVars, install, sweep, dbVars, used, failedSaves>>

GetModule(o) ==
    /\ op[o].pc = "module"
    /\ op' = [op EXCEPT ![o] = [@ EXCEPT !.pc = "answers", !.gen = gen[o[1]]]]
    /\ UNCHANGED <<disk, instVars, install, sweep, dbVars, used, failedSaves>>

ReadAnswers(o) ==
    /\ op[o].pc = "answers"
    /\ op' = [op EXCEPT ![o] = [@ EXCEPT !.pc = "evaluate",
                                       !.ans = IF op[o].b \in bound THEN answers[op[o].b] ELSE 0]]
    /\ UNCHANGED <<disk, instVars, install, sweep, dbVars, used, failedSaves>>

Evaluated(o, p) ==
    op' = [op EXCEPT ![o] = [@ EXCEPT !.pc = IF op[o].kind = "bind" THEN "vouch" ELSE "findings",
                                    !.pol = p]]

\* evaluatePolicy: no file means no findings; otherwise the compiled policy,
\* compiled on first use if need be; a disposed module object throws.
Evaluate(o) ==
    LET i == o[1]
        c == ClassOf[op[o].b]
        p == DiskPolicy(c)
        live == op[o].gen = gen[i]
    IN
    /\ op[o].pc = "evaluate"
    /\ \/ p = NoPolicy /\ Evaluated(o, NoPolicy) /\ UNCHANGED engine
       \/ /\ p # NoPolicy /\ live /\ engine[i][c] # NoPolicy
          /\ Evaluated(o, engine[i][c]) /\ UNCHANGED engine
       \/ /\ p # NoPolicy /\ live /\ engine[i][c] = NoPolicy /\ p \notin BrokenPolicies
          /\ Evaluated(o, p) /\ engine' = [engine EXCEPT ![i][c] = p]
       \/ /\ p # NoPolicy /\ (~live \/ (engine[i][c] = NoPolicy /\ p \in BrokenPolicies))
          /\ Refuse(o) /\ UNCHANGED engine
    /\ UNCHANGED <<disk, gen, reload, up, install, sweep, dbVars, used, failedSaves>>

\* The second transaction: upsert what the module emitted, delete the rest.
WriteFindings(o) ==
    /\ op[o].pc = "findings"
    /\ findings' = [findings EXCEPT ![op[o].b] = [pol |-> op[o].pol, ans |-> op[o].ans]]
    /\ op' = [op EXCEPT ![o].pc = "vouch"]
    /\ UNCHANGED <<disk, instVars, install, sweep, hash, bound, answers, stamp, used, failedSaves>>

\* Mutation: stamp whatever hash the class holds by now.
HashNow(o) == hash[ClassOf[op[o].b]]

\* Mutation: stamp the hash read first without asking the module.
HashUnchecked(o) == op[o].hash

\* policyHashToStamp: the hash read first, if the module still reports it.
HashToStamp(o) == IF ReportedHash(o) = op[o].hash THEN op[o].hash ELSE None

Vouch(o) ==
    /\ op[o].pc = "vouch"
    /\ op' = [op EXCEPT ![o] = [@ EXCEPT !.hash = HashToStamp(o),
                                       !.pc = IF op[o].kind = "bind" THEN "rewire" ELSE "stamp"]]
    /\ UNCHANGED <<disk, instVars, install, sweep, dbVars, used, failedSaves>>

\* The third transaction: stamp a binding that still exists, or remove its stamp.
Stamp(o) ==
    LET b == op[o].b IN
    /\ op[o].pc = "stamp"
    /\ stamp' = [stamp EXCEPT ![b] = IF op[o].hash = None \/ b \in bound
                                     THEN op[o].hash ELSE @]
    /\ op' = [op EXCEPT ![o].pc = "release"]
    /\ UNCHANGED <<disk, instVars, install, sweep, hash, bound, answers, findings, used, failedSaves>>

\* A stamp that cannot be written does not fail the save.
StampFail(o) ==
    /\ op[o].pc = "stamp" /\ used.fails < MaxFails
    /\ used' = [used EXCEPT !.fails = @ + 1]
    /\ op' = [op EXCEPT ![o].pc = "release"]
    /\ UNCHANGED <<disk, instVars, install, sweep, dbVars, failedSaves>>

\* Mutation: the findings of the classes left behind are kept.
NotSwept(o, x) == IF op[o].kind = "bind" /\ x = op[o].b
                  THEN [pol |-> op[o].pol, ans |-> op[o].ans] ELSE findings[x]

\* The findings of x after the binding change of operation o.
Swept(o, x) == CASE op[o].kind = "bind" /\ x = op[o].b -> [pol |-> op[o].pol, ans |-> op[o].ans]
                 [] SameElement(x, op[o].b) /\ ~(op[o].kind = "bind" /\ x = op[o].b) -> NoFindings
                 [] OTHER -> findings[x]

\* The one transaction of a binding change: sweep the other classes' findings,
\* rewire, write the new class's findings and its stamp.
Rewire(o) ==
    LET b == op[o].b
        mine == {x \in Bindings : SameElement(x, b)}
        keep == IF op[o].kind = "bind" THEN {b} ELSE {}
    IN
    /\ op[o].pc = "rewire"
    /\ op' = [op EXCEPT ![o].pc = "release"]
    /\ IF bound \cap mine = keep
       THEN UNCHANGED <<bound, answers, findings, stamp, failedSaves>>
       ELSE /\ bound' = (bound \ mine) \cup keep
            /\ answers' = [x \in Bindings |-> IF x \in mine THEN 0 ELSE answers[x]]
            /\ findings' = [x \in Bindings |-> Swept(o, x)]
            /\ stamp' = [x \in Bindings |-> IF x \in keep THEN op[o].hash ELSE stamp[x]]
            /\ failedSaves' = failedSaves \ mine
    /\ UNCHANGED <<disk, instVars, install, sweep, hash, used>>

\* A module or database failure: the operation ends, what is committed stays.
Fail(o) ==
    /\ op[o].pc \in {"reread", "attributes", "module", "evaluate", "findings", "rewire"}
    /\ used.fails < MaxFails
    /\ used' = [used EXCEPT !.fails = @ + 1]
    /\ Refuse(o)
    /\ UNCHANGED <<disk, instVars, install, sweep, dbVars, failedSaves>>

\* A binding that failed in a sweep's pages is kept for one retry at its end.
Retries(o) == IF o[2] = Sweeper /\ ~op[o].ok /\ sweep[o[1]].pc = "pages"
              THEN sweep[o[1]].retry \cup {op[o].b} ELSE sweep[o[1]].retry

\* The operation ends and gives the element back.
Release(o) ==
    /\ op[o].pc = "release"
    /\ op' = [op EXCEPT ![o] = IdleOp]
    /\ sweep' = [sweep EXCEPT ![o[1]].retry = Retries(o)]
    /\ failedSaves' = IF op[o].kind = "save" /\ ~op[o].ok THEN failedSaves \cup {op[o].b}
                      ELSE IF op[o].kind # "bind" /\ op[o].ok /\ op[o].pol # None
                           THEN failedSaves \ {op[o].b} ELSE failedSaves
    /\ UNCHANGED <<disk, instVars, install, dbVars, used>>

----------------------------------------------------------------------------

OpStep(o) ==
    \/ Enter(o) \/ Reread(o) \/ WriteAttributes(o) \/ Preflight(o)
    \/ GetModule(o) \/ ReadAnswers(o) \/ Evaluate(o) \/ WriteFindings(o)
    \/ Vouch(o) \/ Stamp(o) \/ Rewire(o) \/ Release(o)

SweepStep(i) ==
    SweepReadPage(i) \/ SweepEnd(i) \/ \E b \in Bindings : SweepNext(i, b)

InstallStep(i) ==
    \/ Swap(i) \/ StartReset(i) \/ InstallMetadata(i) \/ InstallNotify(i)
    \/ InstallSkip(i) \/ InstallWrite(i, Classes)

Environment ==
    \/ \E c \in Classes : Deploy(c) \/ MoveFile(c)
    \/ \E i \in Instances : \/ Probe(i) \/ Reload(i) \/ CatchUp(i) \/ Crash(i)
                            \/ InstallFail(i) \/ SweepFail(i)
                            \/ \E W \in (SUBSET Classes) \ {Classes} : InstallWrite(i, W)
    \/ \E o \in Ops : \/ StampFail(o) \/ Fail(o)
                      \/ \E b \in Bindings :
                            \/ \E write \in BOOLEAN : Request(o, "save", b, write)
                            \/ \E kind \in {"bind", "unbind"} : Request(o, kind, b, FALSE)

Next ==
    \/ \E o \in Ops : OpStep(o)
    \/ \E i \in Instances : Boot(i) \/ InstallStep(i) \/ SweepStep(i)
    \/ Environment

Spec == Init /\ [][Next]_vars

\* A started operation, sweep or install keeps going, and a process that died is
\* started again by its supervisor; what users, operators and failures do is
\* not owed.
Fairness ==
    /\ \A o \in Ops : WF_vars(OpStep(o))
    /\ \A i \in Instances : /\ WF_vars(Boot(i))
                            /\ WF_vars(InstallStep(i))
                            /\ WF_vars(SweepStep(i))

FairSpec == Spec /\ Fairness

----------------------------------------------------------------------------
(* Properties *)

Locked(b) == \E o \in Ops : Holds(o) /\ SameElement(op[o].b, b)

\* A stamp is never newer than the policy the binding's findings follow, at any
\* moment, whatever crashes or fails: a stamp that matched a newer class hash
\* would hide the binding from the sweep (setAttributes reads the hash before
\* it evaluates, policyHashToStamp compares it after).
StampNeverNewer ==
    \A b \in bound : stamp[b] <= findings[b].pol

\* While no operation runs on the element and nothing failed, a stamp names
\* exactly the policy the findings follow (the purpose of stampPolicy and of
\* removing a stamp nothing vouches for).
StampNamesThePolicy ==
    (used.fails = 0 /\ used.crashes = 0) =>
        \A b \in bound : (~Locked(b) /\ stamp[b] # None) => stamp[b] = findings[b].pol

\* The same bound at rest only: while no operation runs on the element and
\* nothing failed, its stamp is not newer than the policy its findings follow
\* (what the documentation says of policyHashToStamp, on any instance).
SettledStampNotNewer ==
    (used.fails = 0 /\ used.crashes = 0) =>
        \A b \in bound : ~Locked(b) => stamp[b] <= findings[b].pol

\* While no operation runs on the element, evaluated findings follow the
\* answers now stored unless the last save's caller was told it failed: two
\* saves of one element never leave the findings of the older answers behind
\* (the per-element exclusion of runExclusive around setAttributes).
FindingsFollowAnswers ==
    \A b \in bound \ failedSaves :
        (~Locked(b) /\ findings[b].pol # None) => findings[b].ans = answers[b]

\* No SYSTEM findings are left for a class the element is not bound to: a save
\* or a sweep racing a binding change never writes them back (the lock shared
\* by setAttributes and changeElementBinding).
NoFindingsOfOtherClasses ==
    \A b \in Bindings \ bound : findings[b] = NoFindings

\* Every binding whose findings follow an older policy than its class's is
\* brought up to date or unbound, across coalesced sweep requests, crashes and a
\* failure the sweep's retry covers.  (An element a user binds while the sweep is
\* at its last page may have to wait for the next one.)
EventuallyFollowsThePolicy ==
    \A b \in Bindings :
        LET c == ClassOf[b] IN
        (b \in bound /\ findings[b].pol < hash[c])
            ~> (b \notin bound \/ findings[b].pol >= hash[c])

=============================================================================
