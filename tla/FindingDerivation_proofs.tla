----------------------- MODULE FindingDerivation_proofs -----------------------
(*****************************************************************************)
(* Of one instance: it keeps no findings of a class an element is not bound  *)
(* to, and the findings it keeps are those of the answers it stored.  When   *)
(* its module directory, besides, is replaced only between reloads, the      *)
(* stamps it writes are never newer than the findings they vouch for, and a  *)
(* stamp names the policy the findings were derived under.                   *)
(*****************************************************************************)
EXTENDS FindingDerivation, FiniteSetTheorems, TLAPS

\* What the theorems assume of the deployment.
OneInstance == \A i, j \in Instances : i = j
SteadyDisk == DiskFaults = {}

----------------------------------------------------------------------------
(* The inductive invariant *)

\* Policy p of class c has reached instance i: it is no newer than the file and
\* no newer than the compiled policy, if there is one.
Reached(i, c, p) ==
    /\ p <= disk[c].ver
    /\ engine[i][c] = NoPolicy \/ p <= engine[i][c]

\* Files are there, and a loaded module object holds what is on disk.
DiskInv ==
    /\ \A c \in Classes : disk[c].present
    /\ \A i \in Instances, c \in Classes : engine[i][c] <= disk[c].ver
    /\ \A i \in Instances : reload[i].on =>
          \A c \in Classes : reload[i].engine[c] \in {NoPolicy, disk[c].ver}

\* Every hash written or about to be written is of a policy that has reached the
\* instance.
HashInv ==
    \A i \in Instances, c \in Classes :
        Reached(i, c, hash[c]) /\ Reached(i, c, install[i].hashes[c])

\* A running operation names its binding.
Named == \A o \in Ops : (op[o].pc # "idle" \/ op[o].kind # "none") => op[o].b \in Bindings

\* Two operations never hold one element.
LockInv ==
    \A o, q \in Ops :
        (Holds(o) /\ Holds(q) /\ SameElement(op[o].b, op[q].b)) => o = q

\* What an operation relies on between its transactions.
OpOK(o) ==
    LET r == op[o]
        c == ClassOf[r.b]
    IN
    /\ r.pc \in {"reread", "attributes"} => r.kind \notin {"bind", "unbind"}
    /\ r.pc \in {"module", "answers", "evaluate"} => Reached(o[1], c, r.hash)
    /\ r.pc \in {"module", "answers", "evaluate", "findings", "vouch", "stamp"}
          => (r.kind # "unbind" /\ (r.kind # "bind" => r.b \in bound))
    /\ (r.pc \in {"findings", "vouch", "stamp"} \/ (r.pc = "rewire" /\ r.kind = "bind"))
          => (Reached(o[1], c, r.pol) /\ r.hash <= r.pol)
    /\ r.pc = "findings" => (r.kind # "bind" /\ stamp[r.b] <= r.pol)
    /\ (r.pc \in {"vouch", "stamp"} /\ r.kind # "bind") => findings[r.b].pol = r.pol
    /\ r.pc = "stamp" => r.kind # "bind"

OpInv == \A o \in Ops : OpOK(o)

\* The database: findings follow policies that have reached the instance.
DbInv ==
    /\ \A i \in Instances, b \in Bindings : Reached(i, ClassOf[b], findings[b].pol)
    /\ StampNeverNewer
    /\ NoFindingsOfOtherClasses

\* Requests whose new answers are not written yet; there are never more of them
\* than requests counted, so the answers stay within their bound.
Pending == {o \in Ops : op[o].write /\ op[o].pc \in {"wait", "reread", "attributes"}}

AnswersInv ==
    \A b \in Bindings : answers[b] + Cardinality(Pending) <= used.requests

Inv == TypeOK /\ Named /\ AnswersInv /\ DiskInv /\ HashInv /\ LockInv /\ OpInv /\ DbInv

\* What an operation relies on for its findings to follow the stored answers:
\* nobody else writes the answers or the findings of the element it holds.
FollowOK(o) ==
    LET r == op[o] IN
    /\ r.write => r.kind = "save"
    /\ r.pol # None => /\ r.kind # "unbind"
                       /\ \/ r.pc \in {"findings", "vouch", "stamp", "release"}
                          \/ r.pc = "rewire" /\ r.kind = "bind"
    /\ r.pc \in {"reread", "attributes"} => r.kind \notin {"bind", "unbind"}
    /\ r.pc \in {"module", "answers", "evaluate", "findings", "vouch", "stamp"}
          => (r.kind # "unbind" /\ (r.kind # "bind" => r.b \in bound))
    /\ r.pc \in {"findings", "stamp"} => r.kind # "bind"
    /\ (r.kind = "bind" /\ r.pc \in {"module", "answers"}) => r.b \notin bound
    /\ (r.kind = "bind" /\ r.pc \in {"evaluate", "vouch", "rewire"}) => r.ans = 0
    /\ (r.kind # "bind" /\ r.pc \in {"evaluate", "findings"}) => r.ans = answers[r.b]
    /\ (r.kind # "bind" /\ (r.pc \in {"vouch", "stamp"}
                             \/ (r.pc = "release" /\ r.ok /\ r.pol # None)))
          => findings[r.b].ans = answers[r.b]

\* A save that has still to write its findings, or failed to.
Owes(o) ==
    /\ op[o].kind = "save"
    /\ \/ op[o].pc \in {"module", "answers", "evaluate", "findings"}
       \/ op[o].pc = "release" /\ ~op[o].ok

\* The findings of binding b follow its answers, or somebody knows they do not.
Follows(b) ==
    (b \in bound \ failedSaves) =>
        (findings[b].pol = None \/ findings[b].ans = answers[b]
             \/ \E o \in Ops : op[o].b = b /\ Owes(o))

FollowInv ==
    /\ \A o \in Ops : FollowOK(o)
    /\ \A b \in Bindings : Follows(b)
    /\ NoFindingsOfOtherClasses

\* The hash an operation is about to stamp names the policy it evaluated.
NamesPolicy(o) ==
    (op[o].pc = "stamp" \/ (op[o].pc = "rewire" /\ op[o].kind = "bind"))
        => op[o].hash \in {None, op[o].pol}

\* An operation that is about to replace or remove the stamp of its binding.
Corrects(o) == op[o].pc \in {"vouch", "stamp"} /\ op[o].kind # "bind"

\* The stamp of b names the policy of its findings, or is about to.
StampNamed(b) ==
    \/ stamp[b] \in {None, findings[b].pol}
    \/ \E o \in Ops : op[o].b = b /\ Corrects(o)

NothingFailed == used.fails = 0 /\ used.crashes = 0

\* Until something fails, every stamp names the policy of the findings.
NameInv ==
    /\ \A o \in Ops : NamesPolicy(o)
    /\ NothingFailed => \A b \in bound : StampNamed(b)

----------------------------------------------------------------------------
(* Types *)

\* Constants as the provers want them.
LEMMA Bounds ==
    /\ NBindings \in Nat /\ Bindings = 1..NBindings /\ InitBound \subseteq Bindings
    /\ ClassOf \in [Bindings -> Classes]
    /\ MaxPolicy \in Nat /\ MaxPolicy >= 1
    /\ MaxRequests \in Nat /\ MaxResets \in Nat /\ MaxCrashes \in Nat
    /\ MaxFails \in Nat /\ MaxSweepFails \in Nat
    /\ None = -1 /\ NoPolicy = 0 /\ Hashes = (-1)..MaxPolicy
BY BindingAssumption, BoundAssumption DEF Bindings, None, NoPolicy, Hashes

LEMMA RegisteredType == ASSUME TypeOK PROVE AllRegistered \in [Classes -> 0..MaxPolicy]
BY Bounds DEF TypeOK, AllRegistered, Registered, DiskPolicy

\* A save that changes an answer was counted when it arrived.
LEMMA NewAnswersType ==
    ASSUME TypeOK, AnswersInv, NEW o \in Ops, op[o].pc = "attributes", op[o].b \in Bindings
    PROVE  NewAnswers(o) \in Answers
<1>1. IsFiniteSet(Ops)
  BY ProcessAssumption, FS_Product, FS_AddElement, FS_Singleton, FS_Union DEF Ops
<1>2. IsFiniteSet(Pending) /\ Cardinality(Pending) \in Nat
  BY <1>1, FS_Subset, FS_CardinalityType DEF Pending
<1>3. answers[op[o].b] \in 0..MaxRequests /\ used.requests \in 0..MaxRequests
  BY DEF TypeOK, UsedType, Answers
<1>4. CASE op[o].write
  <2>1. Cardinality(Pending) >= 1
    <3>1. o \in Pending
      BY <1>4 DEF Pending
    <3>2. Cardinality(Pending) # 0
      BY <1>2, <3>1, FS_EmptySet
    <3> QED
      BY <1>2, <3>2
  <2>2. answers[op[o].b] + Cardinality(Pending) <= used.requests
    BY DEF AnswersInv
  <2>3. answers[op[o].b] + 1 \in 0..MaxRequests
    <3> DEFINE a == answers[op[o].b]
               c == Cardinality(Pending)
               u == used.requests
    <3>1. /\ a \in Nat /\ c \in Nat /\ u \in Nat /\ u <= MaxRequests /\ c >= 1 /\ a + c <= u
          /\ MaxRequests \in Nat
      BY <1>2, <1>3, <2>1, <2>2, Bounds
    <3> HIDE DEF a, c, u
    <3>2. a + 1 \in 0..MaxRequests
      BY <3>1
    <3> QED
      BY <3>2 DEF a
  <2> QED
    BY <1>4, <2>3 DEF NewAnswers, Answers
<1>5. CASE ~op[o].write
  BY <1>3, <1>5 DEF NewAnswers, Answers
<1> QED
  BY <1>4, <1>5

LEMMA IdleType == IdleOp \in OpType
BY Bounds DEF IdleOp, OpType, Pcs, Kinds, Answers

\* A bound that is not used up can be used once more.
LEMMA UseRequests ==
    ASSUME TypeOK, used.requests < MaxRequests, used' = [used EXCEPT !.requests = @ + 1]
    PROVE  used' \in UsedType
<1>1. used \in UsedType
  BY DEF TypeOK
<1>2. used.requests + 1 \in 0..MaxRequests
  BY <1>1, Bounds DEF UsedType
<1> QED
  BY <1>1, <1>2 DEF UsedType

LEMMA UseResets ==
    ASSUME TypeOK, used.resets < MaxResets, used' = [used EXCEPT !.resets = @ + 1]
    PROVE  used' \in UsedType
<1>1. used \in UsedType
  BY DEF TypeOK
<1>2. used.resets + 1 \in 0..MaxResets
  BY <1>1, Bounds DEF UsedType
<1> QED
  BY <1>1, <1>2 DEF UsedType

LEMMA UseCrashes ==
    ASSUME TypeOK, used.crashes < MaxCrashes, used' = [used EXCEPT !.crashes = @ + 1]
    PROVE  used' \in UsedType
<1>1. used \in UsedType
  BY DEF TypeOK
<1>2. used.crashes + 1 \in 0..MaxCrashes
  BY <1>1, Bounds DEF UsedType
<1> QED
  BY <1>1, <1>2 DEF UsedType

LEMMA UseFails ==
    ASSUME TypeOK, used.fails < MaxFails, used' = [used EXCEPT !.fails = @ + 1]
    PROVE  used' \in UsedType
<1>1. used \in UsedType
  BY DEF TypeOK
<1>2. used.fails + 1 \in 0..MaxFails
  BY <1>1, Bounds DEF UsedType
<1> QED
  BY <1>1, <1>2 DEF UsedType

LEMMA UseSweepFails ==
    ASSUME TypeOK, used.sweepFails < MaxSweepFails, used' = [used EXCEPT !.sweepFails = @ + 1]
    PROVE  used' \in UsedType
<1>1. used \in UsedType
  BY DEF TypeOK
<1>2. used.sweepFails + 1 \in 0..MaxSweepFails
  BY <1>1, Bounds DEF UsedType
<1> QED
  BY <1>1, <1>2 DEF UsedType

\* The processes' own steps keep every variable in its domain.
LEMMA TypeInstance ==
    ASSUME TypeOK, Named, NEW i \in Instances
    PROVE  /\ Boot(i) => TypeOK'
           /\ Reload(i) => TypeOK'
           /\ Swap(i) => TypeOK'
           /\ StartReset(i) => TypeOK'
           /\ CatchUp(i) => TypeOK'
           /\ InstallMetadata(i) => TypeOK'
           /\ \A W \in SUBSET Classes : InstallWrite(i, W) => TypeOK'
           /\ InstallSkip(i) \/ InstallFail(i) => TypeOK'
           /\ InstallNotify(i) => TypeOK'
           /\ Crash(i) => TypeOK'
<1>0. /\ install[i] \in InstallType /\ reload[i] \in ReloadType /\ sweep[i] \in SweepType
      /\ NoHashes \in [Classes -> Hashes] /\ NoInstall \in InstallType /\ NoReload \in ReloadType
      /\ EndInstall(i) \in InstallType /\ NoSweep \in SweepType /\ IdleOp \in OpType
  <2>1. NoHashes \in [Classes -> Hashes]
    BY Bounds DEF NoHashes
  <2>2. NoInstall \in InstallType
    BY <2>1 DEF NoInstall, InstallType
  <2>3. install[i] \in InstallType /\ reload[i] \in ReloadType /\ sweep[i] \in SweepType
    BY DEF TypeOK
  <2>4. NoReload \in ReloadType
    BY Bounds DEF NoReload, ReloadType
  <2>5. EndInstall(i) \in InstallType
    BY <2>2, <2>3 DEF EndInstall, NoInstall, InstallType
  <2>6. NoSweep \in SweepType
    BY Bounds DEF NoSweep, SweepType
  <2>7. IdleOp \in OpType
    BY IdleType
  <2> QED
    BY <2>1, <2>2, <2>3, <2>4, <2>5, <2>6, <2>7
<1>1. ASSUME Boot(i) PROVE TypeOK'
  <2>1. install' \in [Instances -> InstallType]
    BY <1>0, <1>1, Bounds DEF Boot, StartInstall, InstallType, TypeOK
  <2>2. AllRegistered \in [Classes -> 0..MaxPolicy]
    BY RegisteredType
  <2>3. engine' \in [Instances -> [Classes -> 0..MaxPolicy]] /\ gen' \in [Instances -> Nat]
    BY <1>1, <2>2 DEF Boot, TypeOK
  <2> QED
    BY <1>1, <2>1, <2>3 DEF Boot, TypeOK, dbVars
<1>2. ASSUME Reload(i) PROVE TypeOK'
  <2>1. reload' \in [Instances -> ReloadType]
    BY <1>2, RegisteredType DEF Reload, ReloadType, TypeOK
  <2>2. used' \in UsedType
    BY <1>2, UseResets DEF Reload
  <2> QED
    BY <1>2, <2>1, <2>2 DEF Reload, TypeOK, dbVars
<1>3. ASSUME Swap(i) PROVE TypeOK'
  <2>1. install[i].queue \cup {gen[i] + 1} \in SUBSET Nat
    BY <1>0 DEF TypeOK, InstallType
  <2>2. [install[i] EXCEPT !.queue = @ \cup {gen[i] + 1}] \in InstallType
    BY <1>0, <2>1 DEF InstallType
  <2>3. reload[i].engine \in [Classes -> 0..MaxPolicy]
    BY <1>0 DEF ReloadType
  <2> QED
    BY <1>0, <1>3, <2>2, <2>3 DEF Swap, TypeOK, dbVars
<1>4. ASSUME StartReset(i) PROVE TypeOK'
  <2>1. PICK g \in install[i].queue : StartInstall(i, "reset", g, install[i].queue \ {g})
    BY <1>4 DEF StartReset
  <2>2. g \in Nat /\ install[i].queue \ {g} \in SUBSET Nat
    BY <1>0 DEF InstallType
  <2>3. install' \in [Instances -> InstallType]
    BY <1>0, <2>1, <2>2 DEF StartInstall, InstallType, TypeOK
  <2> QED
    BY <1>4, <2>3 DEF StartReset, TypeOK, instVars, dbVars
<1>5. ASSUME CatchUp(i) PROVE TypeOK'
  <2>1. install[i].queue \in SUBSET Nat /\ gen[i] \in Nat
    BY <1>0 DEF InstallType, TypeOK
  <2>2. install' \in [Instances -> InstallType]
    BY <1>0, <1>5, <2>1 DEF CatchUp, StartInstall, InstallType, TypeOK
  <2>3. used' \in UsedType
    BY <1>5, UseResets DEF CatchUp
  <2> QED
    BY <1>5, <2>2, <2>3 DEF CatchUp, TypeOK, instVars, dbVars
<1>6. ASSUME InstallMetadata(i) PROVE TypeOK'
  <2>1. [c \in Classes |-> MetadataHash(c)] \in [Classes -> Hashes]
    BY Bounds DEF MetadataHash, DiskPolicy, TypeOK
  <2>2. [install[i] EXCEPT !.pc = "write", !.hashes = [c \in Classes |-> MetadataHash(c)]] \in InstallType
    BY <1>0, <2>1 DEF InstallType
  <2>3. CASE install[i].gen = gen[i]
    BY <1>6, <2>2, <2>3, RegisteredType DEF InstallMetadata, TypeOK, dbVars
  <2>4. CASE install[i].gen # gen[i]
    BY <1>0, <1>6, <2>4 DEF InstallMetadata, TypeOK, dbVars
  <2> QED
    BY <2>3, <2>4
<1>7. ASSUME NEW W \in SUBSET Classes, InstallWrite(i, W) PROVE TypeOK'
  <2>1. [install[i] EXCEPT !.pc = "notify"] \in InstallType
    BY <1>0 DEF InstallType
  <2>2. install' \in [Instances -> InstallType]
    BY <1>7, <2>1 DEF InstallWrite, TypeOK
  <2>3. hash' \in [Classes -> Hashes]
    BY <1>0, <1>7 DEF InstallWrite, InstallType, TypeOK
  <2>4. used' \in UsedType
    <3>1. CASE UNCHANGED used
      BY <3>1 DEF TypeOK
    <3>2. CASE used.fails < MaxFails /\ used' = [used EXCEPT !.fails = @ + 1]
      BY <3>2, UseFails
    <3> QED
      BY <1>7, <3>1, <3>2 DEF InstallWrite
  <2> QED
    BY <1>7, <2>2, <2>3, <2>4 DEF InstallWrite, TypeOK, instVars
<1>8. ASSUME InstallSkip(i) \/ InstallFail(i) PROVE TypeOK'
  <2>1. [install[i] EXCEPT !.pc = "notify"] \in InstallType
    BY <1>0 DEF InstallType
  <2>2. install' \in [Instances -> InstallType]
    BY <1>0, <1>8, <2>1 DEF InstallSkip, InstallFail, NothingInstalled, TypeOK
  <2>3. used' \in UsedType
    <3>1. CASE UNCHANGED used
      BY <3>1 DEF TypeOK
    <3>2. CASE used.fails < MaxFails /\ used' = [used EXCEPT !.fails = @ + 1]
      BY <3>2, UseFails
    <3> QED
      BY <1>8, <3>1, <3>2 DEF InstallSkip, InstallFail
  <2> QED
    BY <1>8, <2>2, <2>3 DEF InstallSkip, InstallFail, TypeOK, instVars, dbVars
<1>9. ASSUME InstallNotify(i) PROVE TypeOK'
  <2>1. Requested(sweep[i]) \in SweepType
    BY <1>0 DEF Requested, NoSweep, SweepType
  <2> QED
    BY <1>0, <1>9, <2>1 DEF InstallNotify, TypeOK, dbVars
<1>10. ASSUME Crash(i) PROVE TypeOK'
  <2>1. op' \in [Ops -> OpType]
    BY <1>0, <1>10 DEF Crash, TypeOK
  <2>2. failedSaves' \subseteq Bindings
    <3>1. \A o \in Ops : op[o].kind = "save" => op[o].b \in Bindings
      BY DEF Named
    <3> QED
      BY <1>10, <3>1 DEF Crash, TypeOK
  <2>3. used' \in UsedType
    BY <1>10, UseCrashes DEF Crash
  <2> QED
    BY <1>0, <1>10, <2>1, <2>2, <2>3 DEF Crash, TypeOK, dbVars
<1> QED
  BY <1>1, <1>2, <1>3, <1>4, <1>5, <1>6, <1>7, <1>8, <1>9, <1>10

\* The sweep's steps keep every variable in its domain.
LEMMA TypeSweep ==
    ASSUME TypeOK, NEW i \in Instances
    PROVE  /\ SweepReadPage(i) => TypeOK'
           /\ \A b \in Bindings : SweepNext(i, b) => TypeOK'
           /\ SweepEnd(i) => TypeOK'
           /\ SweepFail(i) => TypeOK'
<1>0. /\ sweep[i] \in SweepType /\ <<i, Sweeper>> \in Ops
      /\ NoSweep \in SweepType /\ [NoSweep EXCEPT !.pc = "pages"] \in SweepType
  <2>1. sweep[i] \in SweepType /\ <<i, Sweeper>> \in Ops
    BY DEF TypeOK, Ops
  <2>2. NoSweep \in SweepType
    BY Bounds DEF NoSweep, SweepType
  <2>3. [NoSweep EXCEPT !.pc = "pages"] \in SweepType
    BY <2>2 DEF NoSweep, SweepType
  <2> QED
    BY <2>1, <2>2, <2>3
<1>1. ASSUME SweepReadPage(i) PROVE TypeOK'
  <2>1. StalePage(sweep[i].after) \in SUBSET Bindings
    BY DEF StalePage
  <2>2. /\ [sweep[i] EXCEPT !.pc = "retry"] \in SweepType
        /\ [sweep[i] EXCEPT !.page = StalePage(sweep[i].after)] \in SweepType
    BY <1>0, <2>1 DEF SweepType
  <2>3. sweep' \in [Instances -> SweepType]
    BY <1>1, <2>2 DEF SweepReadPage, TypeOK
  <2> QED
    BY <1>1, <2>3 DEF SweepReadPage, TypeOK, instVars, dbVars
<1>2. ASSUME NEW b \in Bindings, SweepNext(i, b) PROVE TypeOK'
  <2>1. b \in 0..NBindings /\ b \in Bindings
    BY Bounds
  <2>2. /\ [sweep[i] EXCEPT !.page = @ \ {b}, !.after = b] \in SweepType
        /\ [sweep[i] EXCEPT !.retry = @ \ {b}] \in SweepType
    BY <1>0, <2>1 DEF SweepType
  <2>3. sweep' \in [Instances -> SweepType]
    BY <1>2, <2>2 DEF SweepNext, TypeOK
  <2>4. [IdleOp EXCEPT !.pc = "wait", !.kind = "sweep", !.b = b] \in OpType
    BY <2>1, IdleType DEF IdleOp, OpType, Pcs, Kinds
  <2>5. op' \in [Ops -> OpType]
    BY <1>0, <1>2, <2>4 DEF SweepNext, StartReevaluation, TypeOK
  <2> QED
    BY <1>2, <2>3, <2>5 DEF SweepNext, TypeOK, instVars, dbVars
<1>3. ASSUME EndSweep(i) PROVE sweep' \in [Instances -> SweepType]
  BY <1>0, <1>3 DEF EndSweep, TypeOK
<1>4. ASSUME SweepEnd(i) PROVE TypeOK'
  BY <1>3, <1>4 DEF SweepEnd, TypeOK, instVars, dbVars
<1>5. ASSUME SweepFail(i) PROVE TypeOK'
  <2>1. used' \in UsedType
    BY <1>5, UseSweepFails DEF SweepFail
  <2> QED
    BY <1>3, <1>5, <2>1 DEF SweepFail, TypeOK, instVars, dbVars
<1> QED
  BY <1>1, <1>2, <1>4, <1>5

\* The operations' steps keep every variable in its domain.
LEMMA TypeOp ==
    ASSUME TypeOK, Named, AnswersInv, NEW o \in Ops
    PROVE  /\ Enter(o) \/ Reread(o) \/ Preflight(o) \/ GetModule(o) \/ ReadAnswers(o) => TypeOK'
           /\ WriteAttributes(o) => TypeOK'
           /\ Evaluate(o) => TypeOK'
           /\ WriteFindings(o) => TypeOK'
           /\ Vouch(o) => TypeOK'
           /\ Stamp(o) => TypeOK'
           /\ StampFail(o) \/ Fail(o) => TypeOK'
           /\ Rewire(o) => TypeOK'
           /\ Release(o) => TypeOK'
           /\ \A kind \in Kinds, b \in Bindings, write \in BOOLEAN :
                Request(o, kind, b, write) => TypeOK'
<1>0. op[o] \in OpType /\ o[1] \in Instances /\ sweep[o[1]] \in SweepType
  BY DEF TypeOK, Ops
<1>a. ASSUME Refuse(o) PROVE op' \in [Ops -> OpType]
  <2>1. [op[o] EXCEPT !.pc = "release", !.ok = FALSE] \in OpType
    BY <1>0 DEF OpType, Pcs
  <2> QED
    BY <1>a, <2>1 DEF Refuse, TypeOK
<1>1. ASSUME Enter(o) \/ Reread(o) \/ Preflight(o) \/ GetModule(o) \/ ReadAnswers(o) PROVE TypeOK'
  <2>1. op' \in [Ops -> OpType]
    <3>1. CASE Enter(o)
      BY <1>0, <3>1 DEF Enter, FirstStep, OpType, Pcs, TypeOK
    <3>2. CASE Reread(o)
      BY <1>0, <3>2 DEF Reread, OpType, Pcs, TypeOK
    <3>3. CASE Preflight(o)
      <4>1. op[o].b \in Bindings
        BY <3>3 DEF Preflight, Named
      <4>2. hash[ClassOf[op[o].b]] \in Hashes
        BY <4>1, Bounds DEF TypeOK
      <4> QED
        BY <1>0, <3>3, <4>2 DEF Preflight, OpType, Pcs, TypeOK
    <3>4. CASE GetModule(o)
      BY <1>0, <3>4 DEF GetModule, OpType, Pcs, TypeOK
    <3>5. CASE ReadAnswers(o)
      <4>1. op[o].b \in Bindings
        BY <3>5 DEF ReadAnswers, Named
      <4>2. answers[op[o].b] \in Answers /\ 0 \in Answers
        BY <4>1, Bounds DEF TypeOK, Answers
      <4> QED
        BY <1>0, <3>5, <4>2 DEF ReadAnswers, OpType, Pcs, TypeOK
    <3> QED
      BY <1>1, <3>1, <3>2, <3>3, <3>4, <3>5
  <2> QED
    BY <1>1, <2>1 DEF Enter, Reread, Preflight, GetModule, ReadAnswers, TypeOK, instVars, dbVars
<1>2. ASSUME WriteAttributes(o) PROVE TypeOK'
  <2>1. op[o].b \in Bindings /\ NewAnswers(o) \in Answers
    BY <1>2, NewAnswersType DEF WriteAttributes, Named
  <2>2. hash[ClassOf[op[o].b]] \in Hashes
    BY <2>1, Bounds DEF TypeOK
  <2>3. op' \in [Ops -> OpType]
    <3>1. CASE op[o].b \in bound
      <4>1. [op[o] EXCEPT !.pc = "module", !.hash = hash[ClassOf[op[o].b]]] \in OpType
        BY <1>0, <2>2 DEF OpType, Pcs
      <4> QED
        BY <1>2, <3>1, <4>1 DEF WriteAttributes, TypeOK
    <3>2. CASE op[o].b \notin bound
      BY <1>2, <1>a, <3>2 DEF WriteAttributes
    <3> QED
      BY <3>1, <3>2
  <2>4. answers' \in [Bindings -> Answers]
    BY <1>2, <2>1 DEF WriteAttributes, TypeOK
  <2> QED
    BY <1>2, <2>3, <2>4 DEF WriteAttributes, TypeOK, instVars
<1>3. ASSUME Evaluate(o) PROVE TypeOK'
  <2>1. op[o].b \in Bindings /\ ClassOf[op[o].b] \in Classes
    BY <1>3, Bounds DEF Evaluate, Named
  <2>2. ASSUME NEW p \in Hashes, Evaluated(o, p) PROVE op' \in [Ops -> OpType]
    <3>1. /\ [op[o] EXCEPT !.pc = "vouch", !.pol = p] \in OpType
          /\ [op[o] EXCEPT !.pc = "findings", !.pol = p] \in OpType
      BY <1>0 DEF OpType, Pcs
    <3> QED
      BY <2>2, <3>1 DEF Evaluated, TypeOK
  <2>3. /\ DiskPolicy(ClassOf[op[o].b]) \in 0..MaxPolicy
        /\ engine[o[1]][ClassOf[op[o].b]] \in 0..MaxPolicy
    <3>1. disk[ClassOf[op[o].b]].ver \in 1..MaxPolicy
      BY <2>1 DEF TypeOK
    <3>2. engine[o[1]] \in [Classes -> 0..MaxPolicy]
      BY <1>0 DEF TypeOK
    <3>3. DiskPolicy(ClassOf[op[o].b]) \in 0..MaxPolicy
      BY <3>1, Bounds DEF DiskPolicy
    <3> QED
      BY <2>1, <3>2, <3>3
  <2>4. NoPolicy \in Hashes /\ 0..MaxPolicy \subseteq Hashes
    BY Bounds
  <2>5. op' \in [Ops -> OpType]
    BY <1>3, <1>a, <2>2, <2>3, <2>4 DEF Evaluate
  <2>6. engine' \in [Instances -> [Classes -> 0..MaxPolicy]]
    <3>1. engine \in [Instances -> [Classes -> 0..MaxPolicy]]
      BY DEF TypeOK
    <3>2. [engine EXCEPT ![o[1]][ClassOf[op[o].b]] = DiskPolicy(ClassOf[op[o].b])]
             \in [Instances -> [Classes -> 0..MaxPolicy]]
      BY <1>0, <2>1, <2>3, <3>1
    <3> QED
      BY <1>3, <3>1, <3>2 DEF Evaluate
  <2> QED
    BY <1>3, <2>5, <2>6 DEF Evaluate, TypeOK, dbVars
<1>4. ASSUME WriteFindings(o) PROVE TypeOK'
  <2>1. op' \in [Ops -> OpType]
    BY <1>0, <1>4 DEF WriteFindings, OpType, Pcs, TypeOK
  <2>2. [pol |-> op[o].pol, ans |-> op[o].ans] \in [pol : Hashes, ans : Answers]
    BY <1>0 DEF OpType
  <2> QED
    BY <1>4, <2>1, <2>2 DEF WriteFindings, TypeOK, instVars
<1>5. ASSUME Vouch(o) PROVE TypeOK'
  <2>1. HashToStamp(o) \in Hashes
    BY <1>0, Bounds DEF HashToStamp, OpType
  <2>2. op' \in [Ops -> OpType]
    BY <1>0, <1>5, <2>1 DEF Vouch, OpType, Pcs, TypeOK
  <2> QED
    BY <1>5, <2>2 DEF Vouch, TypeOK, instVars, dbVars
<1>6. ASSUME Stamp(o) PROVE TypeOK'
  <2>1. op' \in [Ops -> OpType]
    BY <1>0, <1>6 DEF Stamp, OpType, Pcs, TypeOK
  <2>2. stamp' \in [Bindings -> Hashes]
    BY <1>0, <1>6 DEF Stamp, OpType, TypeOK
  <2> QED
    BY <1>6, <2>1, <2>2 DEF Stamp, TypeOK, instVars
<1>7. ASSUME StampFail(o) \/ Fail(o) PROVE TypeOK'
  <2>1. op' \in [Ops -> OpType]
    <3>1. CASE StampFail(o)
      BY <1>0, <3>1 DEF StampFail, OpType, Pcs, TypeOK
    <3>2. CASE Fail(o)
      BY <1>a, <3>2 DEF Fail
    <3> QED
      BY <1>7, <3>1, <3>2
  <2>2. used' \in UsedType
    BY <1>7, UseFails DEF StampFail, Fail
  <2> QED
    BY <1>7, <2>1, <2>2 DEF StampFail, Fail, TypeOK, instVars, dbVars
<1>8. ASSUME Rewire(o) PROVE TypeOK'
  <2>0. op[o].b \in Bindings
    BY <1>8 DEF Rewire, Named
  <2>1. op' \in [Ops -> OpType]
    BY <1>0, <1>8 DEF Rewire, OpType, Pcs, TypeOK
  <2>2. bound' \subseteq Bindings
    BY <1>8, <2>0 DEF Rewire, TypeOK
  <2>3. answers' \in [Bindings -> Answers]
    <3>1. 0 \in Answers
      BY Bounds DEF Answers
    <3> QED
      BY <1>8, <3>1 DEF Rewire, TypeOK
  <2>4. \A x \in Bindings : Swept(o, x) \in [pol : Hashes, ans : Answers]
    BY <1>0, Bounds DEF Swept, NoFindings, Answers, OpType, TypeOK
  <2>5. findings' \in [Bindings -> [pol : Hashes, ans : Answers]]
    BY <1>8, <2>4 DEF Rewire, TypeOK
  <2>6. stamp' \in [Bindings -> Hashes]
    BY <1>0, <1>8 DEF Rewire, OpType, TypeOK
  <2>7. failedSaves' \subseteq Bindings
    BY <1>8 DEF Rewire, TypeOK
  <2> QED
    BY <1>8, <2>1, <2>2, <2>3, <2>5, <2>6, <2>7 DEF Rewire, TypeOK, instVars
<1>9. ASSUME Release(o) PROVE TypeOK'
  <2>1. op[o].b \in Bindings
    BY <1>9 DEF Release, Named
  <2>2. op' \in [Ops -> OpType]
    BY <1>9, IdleType DEF Release, TypeOK
  <2>3. Retries(o) \in SUBSET Bindings
    BY <1>0, <2>1 DEF Retries, SweepType
  <2>4. [sweep[o[1]] EXCEPT !.retry = Retries(o)] \in SweepType
    BY <1>0, <2>3 DEF SweepType
  <2>5. sweep' \in [Instances -> SweepType]
    BY <1>0, <1>9, <2>4 DEF Release, TypeOK
  <2>6. failedSaves' \subseteq Bindings
    BY <1>9, <2>1 DEF Release, TypeOK
  <2> QED
    BY <1>9, <2>2, <2>5, <2>6 DEF Release, TypeOK, instVars, dbVars
<1>10. ASSUME NEW kind \in Kinds, NEW b \in Bindings, NEW write \in BOOLEAN,
              Request(o, kind, b, write)
       PROVE  TypeOK'
  <2>1. b \in 0..NBindings
    BY Bounds
  <2>2. [IdleOp EXCEPT !.pc = "wait", !.kind = kind, !.b = b, !.write = write] \in OpType
    BY <2>1, IdleType DEF IdleOp, OpType, Pcs
  <2>3. op' \in [Ops -> OpType]
    BY <1>10, <2>2 DEF Request, TypeOK
  <2>4. used' \in UsedType
    BY <1>10, UseRequests DEF Request
  <2> QED
    BY <1>10, <2>3, <2>4 DEF Request, TypeOK, instVars, dbVars
<1> QED
  BY <1>1, <1>2, <1>3, <1>4, <1>5, <1>6, <1>7, <1>8, <1>9, <1>10

\* Every step keeps every variable in its domain.
LEMMA TypeStep ==
    ASSUME TypeOK, Named, AnswersInv, [Next]_vars
    PROVE  TypeOK'
<1>1. ASSUME NEW c \in Classes, Deploy(c) PROVE TypeOK'
  <2>1. disk' \in [Classes -> [ver : 1..MaxPolicy, present : BOOLEAN]]
    BY <1>1, Bounds DEF Deploy, TypeOK
  <2> QED
    BY <1>1, <2>1 DEF Deploy, TypeOK, instVars, dbVars
<1>2. ASSUME NEW c \in Classes, MoveFile(c) PROVE TypeOK'
  BY <1>2 DEF MoveFile, TypeOK, instVars, dbVars
<1>3. ASSUME NEW i \in Instances, Probe(i) PROVE TypeOK'
  <2>1. AllRegistered \in [Classes -> 0..MaxPolicy]
    BY RegisteredType
  <2> QED
    BY <1>3, <2>1 DEF Probe, TypeOK, dbVars
<1>4. "save" \in Kinds /\ "bind" \in Kinds /\ "unbind" \in Kinds /\ FALSE \in BOOLEAN
  BY DEF Kinds
<1>5. CASE UNCHANGED vars
  BY <1>5 DEF vars, instVars, dbVars, TypeOK
<1>6. ASSUME NEW o \in Ops, OpStep(o) \/ StampFail(o) \/ Fail(o) PROVE TypeOK'
  BY <1>6, TypeOp DEF OpStep
<1>7. ASSUME NEW o \in Ops, NEW kind \in Kinds, NEW b \in Bindings, NEW write \in BOOLEAN,
             Request(o, kind, b, write)
      PROVE  TypeOK'
  BY <1>7, TypeOp
<1>8. ASSUME NEW i \in Instances, Boot(i) \/ InstallStep(i) \/ Reload(i) \/ CatchUp(i)
                                 \/ Crash(i) \/ InstallFail(i)
      PROVE  TypeOK'
  BY <1>8, TypeInstance DEF InstallStep
<1>9. ASSUME NEW i \in Instances, NEW W \in SUBSET Classes, InstallWrite(i, W) PROVE TypeOK'
  BY <1>9, TypeInstance
<1>10. ASSUME NEW i \in Instances, SweepStep(i) \/ SweepFail(i) PROVE TypeOK'
  BY <1>10, TypeSweep DEF SweepStep
<1> QED
  BY <1>1, <1>2, <1>3, <1>4, <1>5, <1>6, <1>7, <1>8, <1>9, <1>10 DEF Next, Environment

----------------------------------------------------------------------------
(* How a step changes the operations *)

\* A step that touches no operation and nothing an operation writes.
Background ==
    /\ UNCHANGED <<op, bound, answers, findings, stamp, failedSaves>>
    /\ used'.requests = used.requests

\* A step of an operation that holds its element before and after.
Work(o) ==
    \/ Reread(o) \/ WriteAttributes(o) \/ Preflight(o) \/ GetModule(o) \/ ReadAnswers(o)
    \/ Evaluate(o) \/ WriteFindings(o) \/ Vouch(o) \/ Stamp(o) \/ StampFail(o)
    \/ Rewire(o) \/ Fail(o)

\* Such a step changes that operation only, and not what it is about.
Continues(o) ==
    /\ \A q \in Ops : q # o => op'[q] = op[q]
    /\ op'[o].b = op[o].b /\ op'[o].kind = op[o].kind /\ op'[o].write = op[o].write
    /\ op[o].pc \notin {"idle", "wait"} /\ op'[o].pc \notin {"idle", "wait", "reread"}
    /\ op'[o].pc = "attributes" => op[o].pc = "reread"

\* Every step is in the background, a crash, or a step of one operation.
LEMMA StepCases ==
    ASSUME TypeOK, [Next]_vars
    PROVE  \/ Background
           \/ \E i \in Instances : Crash(i)
           \/ \E i \in Instances, b \in Bindings : SweepNext(i, b)
           \/ \E o \in Ops : Enter(o) \/ Release(o) \/ Work(o)
           \/ \E o \in Ops, kind \in Kinds, b \in Bindings, write \in BOOLEAN :
                 (write => kind = "save") /\ Request(o, kind, b, write)
<1>0. used \in UsedType
  BY DEF TypeOK
<1>1. ASSUME NEW c \in Classes, Deploy(c) \/ MoveFile(c) PROVE Background
  BY <1>1 DEF Deploy, MoveFile, Background, dbVars
<1>2. ASSUME NEW i \in Instances,
             Probe(i) \/ Boot(i) \/ Swap(i) \/ StartReset(i) \/ InstallMetadata(i) \/ InstallNotify(i)
             \/ InstallSkip(i) \/ SweepReadPage(i) \/ SweepEnd(i)
      PROVE  Background
  BY <1>2 DEF Probe, Boot, Swap, StartReset, InstallMetadata, InstallNotify, InstallSkip,
              SweepReadPage, SweepEnd, Background, dbVars
<1>3. ASSUME NEW i \in Instances, Reload(i) \/ CatchUp(i) \/ InstallFail(i) \/ SweepFail(i)
      PROVE  Background
  BY <1>0, <1>3 DEF Reload, CatchUp, InstallFail, SweepFail, Background, UsedType, dbVars
<1>4. ASSUME NEW i \in Instances, NEW W \in SUBSET Classes, InstallWrite(i, W) PROVE Background
  BY <1>0, <1>4 DEF InstallWrite, Background, UsedType
<1>5. CASE UNCHANGED vars
  BY <1>5 DEF vars, dbVars, Background
<1>6. "save" \in Kinds /\ "bind" \in Kinds /\ "unbind" \in Kinds /\ FALSE \in BOOLEAN
  BY DEF Kinds
<1> QED
  BY <1>1, <1>2, <1>3, <1>4, <1>5, <1>6
     DEF Next, OpStep, InstallStep, SweepStep, Environment, Work

\* The steps that write two fields of an operation.
LEMMA RefuseEffect ==
  ASSUME op \in [Ops -> OpType], NEW o \in Ops, Refuse(o)
  PROVE  /\ \A q \in Ops : q # o => op'[q] = op[q]
         /\ op'[o].pc = "release" /\ ~op'[o].ok
         /\ op'[o].b = op[o].b /\ op'[o].kind = op[o].kind /\ op'[o].write = op[o].write
         /\ op'[o].hash = op[o].hash /\ op'[o].ans = op[o].ans /\ op'[o].pol = op[o].pol
<1> DEFINE r == [op[o] EXCEPT !.pc = "release", !.ok = FALSE]
<1>1. op[o] \in OpType
  OBVIOUS
<1>2. /\ r.pc = "release" /\ r.ok = FALSE /\ r.b = op[o].b /\ r.kind = op[o].kind /\ r.write = op[o].write
      /\ r.hash = op[o].hash /\ r.ans = op[o].ans /\ r.pol = op[o].pol
  BY <1>1 DEF OpType
<1>3. op' = [op EXCEPT ![o] = r]
  BY DEF Refuse
<1> HIDE DEF r
<1> QED
  BY <1>2, <1>3

LEMMA EvaluatedEffect ==
  ASSUME op \in [Ops -> OpType], NEW o \in Ops, NEW p, Evaluated(o, p)
  PROVE  /\ \A q \in Ops : q # o => op'[q] = op[q]
         /\ op'[o].pc = (IF op[o].kind = "bind" THEN "vouch" ELSE "findings") /\ op'[o].pol = p
         /\ op'[o].b = op[o].b /\ op'[o].kind = op[o].kind /\ op'[o].write = op[o].write
         /\ op'[o].hash = op[o].hash /\ op'[o].ans = op[o].ans
<1> DEFINE pc == IF op[o].kind = "bind" THEN "vouch" ELSE "findings"
           r == [op[o] EXCEPT !.pc = pc, !.pol = p]
<1>1. op[o] \in OpType
  OBVIOUS
<1>2. /\ r.pc = pc /\ r.pol = p /\ r.b = op[o].b /\ r.kind = op[o].kind /\ r.write = op[o].write
      /\ r.hash = op[o].hash /\ r.ans = op[o].ans
  <2> HIDE DEF pc
  <2> QED
    BY <1>1 DEF OpType
<1>3. op' = [op EXCEPT ![o] = r]
  BY DEF Evaluated
<1> HIDE DEF r
<1> QED
  BY <1>2, <1>3

LEMMA WriteAttributesEffect ==
  ASSUME op \in [Ops -> OpType], NEW o \in Ops, WriteAttributes(o)
  PROVE  IF op[o].b \in bound
         THEN /\ \A q \in Ops : q # o => op'[q] = op[q]
              /\ op'[o].pc = "module" /\ op'[o].hash = hash[ClassOf[op[o].b]]
              /\ op'[o].b = op[o].b /\ op'[o].kind = op[o].kind /\ op'[o].write = op[o].write
              /\ op'[o].ok = op[o].ok /\ op'[o].ans = op[o].ans /\ op'[o].pol = op[o].pol
         ELSE Refuse(o)
<1>1. CASE op[o].b \in bound
  <2> DEFINE h == hash[ClassOf[op[o].b]]
             r == [op[o] EXCEPT !.pc = "module", !.hash = h]
  <2>1. op[o] \in OpType
    OBVIOUS
  <2>2. /\ r.pc = "module" /\ r.hash = h /\ r.b = op[o].b /\ r.kind = op[o].kind /\ r.write = op[o].write
        /\ r.ok = op[o].ok /\ r.ans = op[o].ans /\ r.pol = op[o].pol
    <3> HIDE DEF h
    <3> QED
      BY <2>1 DEF OpType
  <2>3. op' = [op EXCEPT ![o] = r]
    BY <1>1 DEF WriteAttributes
  <2> HIDE DEF r
  <2> QED
    BY <1>1, <2>2, <2>3
<1>2. CASE op[o].b \notin bound
  BY <1>2 DEF WriteAttributes
<1> QED
  BY <1>1, <1>2

LEMMA WorkContinues == ASSUME TypeOK, NEW o \in Ops, Work(o) PROVE Continues(o)
<1>0. op \in [Ops -> OpType] /\ op[o] \in OpType
  BY DEF TypeOK
<1>1. CASE Reread(o)
  BY <1>0, <1>1 DEF Reread, Continues, OpType
<1>2. CASE WriteAttributes(o)
  <2>1. op[o].pc = "attributes"
    BY <1>2 DEF WriteAttributes
  <2> QED
    BY <1>0, <1>2, <2>1, WriteAttributesEffect, RefuseEffect DEF Continues
<1>3. CASE Preflight(o)
  BY <1>0, <1>3 DEF Preflight, Continues, OpType
<1>4. CASE GetModule(o)
  BY <1>0, <1>4 DEF GetModule, Continues, OpType
<1>5. CASE ReadAnswers(o)
  BY <1>0, <1>5 DEF ReadAnswers, Continues, OpType
<1>6. CASE Evaluate(o)
  <2>1. op[o].pc = "evaluate" /\ (Refuse(o) \/ \E p : Evaluated(o, p))
    BY <1>6 DEF Evaluate
  <2> QED
    BY <1>0, <2>1, EvaluatedEffect, RefuseEffect DEF Continues
<1>7. CASE WriteFindings(o)
  BY <1>0, <1>7 DEF WriteFindings, Continues, OpType
<1>8. CASE Vouch(o)
  BY <1>0, <1>8 DEF Vouch, Continues, OpType
<1>9. CASE Stamp(o) \/ StampFail(o)
  BY <1>0, <1>9 DEF Stamp, StampFail, Continues, OpType
<1>10. CASE Rewire(o)
  BY <1>0, <1>10 DEF Rewire, Continues, OpType
<1>11. CASE Fail(o)
  BY <1>0, <1>11 DEF Fail, Refuse, Continues, OpType
<1> QED
  BY <1>1, <1>2, <1>3, <1>4, <1>5, <1>6, <1>7, <1>8, <1>9, <1>10, <1>11 DEF Work

\* Running operations name their bindings.
LEMMA NamedStep == ASSUME TypeOK, Named, [Next]_vars PROVE Named'
<1>0. op \in [Ops -> OpType]
  BY DEF TypeOK
<1>1. CASE Background
  BY <1>1 DEF Background, Named
<1>2. ASSUME NEW i \in Instances, Crash(i) PROVE Named'
  <2>1. \A o \in Ops : op'[o] = op[o] \/ op'[o] = IdleOp
    BY <1>2 DEF Crash
  <2> QED
    BY <2>1 DEF Named, IdleOp
<1>3. ASSUME NEW i \in Instances, NEW b \in Bindings, SweepNext(i, b) PROVE Named'
  <2>1. /\ \A o \in Ops : o # <<i, Sweeper>> => op'[o] = op[o]
        /\ op'[<<i, Sweeper>>] = [IdleOp EXCEPT !.pc = "wait", !.kind = "sweep", !.b = b]
    BY <1>0, <1>3 DEF SweepNext, StartReevaluation, Ops
  <2>2. op'[<<i, Sweeper>>].b = b
    BY <2>1 DEF IdleOp
  <2> QED
    BY <2>1, <2>2 DEF Named
<1>4. ASSUME NEW o \in Ops, Enter(o) PROVE Named'
  <2>1. /\ \A q \in Ops : q # o => op'[q] = op[q]
        /\ op'[o].b = op[o].b /\ op[o].pc = "wait"
    BY <1>0, <1>4 DEF Enter, OpType
  <2> QED
    BY <2>1 DEF Named
<1>5. ASSUME NEW o \in Ops, Release(o) PROVE Named'
  <2>1. op'[o] = IdleOp /\ \A q \in Ops : q # o => op'[q] = op[q]
    BY <1>0, <1>5 DEF Release
  <2> QED
    BY <2>1 DEF Named, IdleOp
<1>6. ASSUME NEW o \in Ops, Work(o) PROVE Named'
  BY <1>6, WorkContinues DEF Continues, Named
<1>7. ASSUME NEW o \in Ops, NEW kind \in Kinds, NEW b \in Bindings, NEW write \in BOOLEAN,
             Request(o, kind, b, write)
      PROVE  Named'
  <2>1. /\ \A q \in Ops : q # o => op'[q] = op[q]
        /\ op'[o] = [IdleOp EXCEPT !.pc = "wait", !.kind = kind, !.b = b, !.write = write]
    BY <1>0, <1>7 DEF Request
  <2>2. op'[o].b = b
    BY <2>1 DEF IdleOp
  <2> QED
    BY <2>1, <2>2 DEF Named
<1> QED
  BY <1>1, <1>2, <1>3, <1>4, <1>5, <1>6, <1>7, StepCases

\* Every operation that holds its element after the step is as it was, and held
\* it before, so no two do.
LEMMA NobodyEnters ==
    ASSUME LockInv, \A o \in Ops : Holds(o)' => (Holds(o) /\ op'[o].b = op[o].b)
    PROVE  LockInv'
BY DEF LockInv, SameElement

\* No two operations hold one element.
LEMMA LockStep ==
    ASSUME OneInstance, TypeOK, LockInv, [Next]_vars
    PROVE  LockInv'
<1>0. op \in [Ops -> OpType]
  BY DEF TypeOK
<1>1. CASE Background
  BY <1>1, NobodyEnters DEF Background, Holds
<1>2. ASSUME NEW i \in Instances, Crash(i) PROVE LockInv'
  <2>1. \A o \in Ops : op'[o] = op[o] \/ op'[o] = IdleOp
    BY <1>2 DEF Crash
  <2>2. \A o \in Ops : Holds(o)' => (Holds(o) /\ op'[o].b = op[o].b)
    BY <2>1 DEF Holds, IdleOp
  <2> QED
    BY <2>2, NobodyEnters
<1>3. ASSUME NEW i \in Instances, NEW b \in Bindings, SweepNext(i, b) PROVE LockInv'
  <2>1. /\ \A o \in Ops : o # <<i, Sweeper>> => op'[o] = op[o]
        /\ op'[<<i, Sweeper>>] = [IdleOp EXCEPT !.pc = "wait", !.kind = "sweep", !.b = b]
    BY <1>0, <1>3 DEF SweepNext, StartReevaluation, Ops
  <2>2. op'[<<i, Sweeper>>].pc = "wait"
    BY <2>1 DEF IdleOp
  <2>3. \A o \in Ops : Holds(o)' => (Holds(o) /\ op'[o].b = op[o].b)
    BY <2>1, <2>2 DEF Holds
  <2> QED
    BY <2>3, NobodyEnters
<1>4. ASSUME NEW o \in Ops, Enter(o) PROVE LockInv'
  <2>1. /\ \A q \in Ops : q # o => op'[q] = op[q]
        /\ op'[o].b = op[o].b
    BY <1>0, <1>4 DEF Enter, OpType
  <2>2. \A q \in Ops : Holds(q) => ~SameElement(op[q].b, op[o].b)
    BY <1>4 DEF Enter, Excluded, OneInstance, Ops
  <2> QED
    BY <2>1, <2>2 DEF LockInv, Holds, SameElement
<1>5. ASSUME NEW o \in Ops, Release(o) PROVE LockInv'
  <2>1. op'[o] = IdleOp /\ \A q \in Ops : q # o => op'[q] = op[q]
    BY <1>0, <1>5 DEF Release
  <2>2. \A q \in Ops : Holds(q)' => (Holds(q) /\ op'[q].b = op[q].b)
    BY <2>1 DEF Holds, IdleOp
  <2> QED
    BY <2>2, NobodyEnters
<1>6. ASSUME NEW o \in Ops, Work(o) PROVE LockInv'
  <2>1. \A q \in Ops : Holds(q)' => (Holds(q) /\ op'[q].b = op[q].b)
    BY <1>6, WorkContinues DEF Continues, Holds
  <2> QED
    BY <2>1, NobodyEnters
<1>7. ASSUME NEW o \in Ops, NEW kind \in Kinds, NEW b \in Bindings, NEW write \in BOOLEAN,
             Request(o, kind, b, write)
      PROVE  LockInv'
  <2>1. /\ \A q \in Ops : q # o => op'[q] = op[q]
        /\ op'[o] = [IdleOp EXCEPT !.pc = "wait", !.kind = kind, !.b = b, !.write = write]
    BY <1>0, <1>7 DEF Request
  <2>2. op'[o].pc = "wait"
    BY <2>1 DEF IdleOp
  <2>3. \A q \in Ops : Holds(q)' => (Holds(q) /\ op'[q].b = op[q].b)
    BY <2>1, <2>2 DEF Holds
  <2> QED
    BY <2>3, NobodyEnters
<1> QED
  BY <1>1, <1>2, <1>3, <1>4, <1>5, <1>6, <1>7, StepCases

----------------------------------------------------------------------------
(* Answers stay within their bound *)

LEMMA PendingFinite ==
    IsFiniteSet(Pending) /\ Cardinality(Pending) \in Nat
<1>1. IsFiniteSet(Ops)
  BY ProcessAssumption, FS_Product, FS_AddElement, FS_Singleton, FS_Union DEF Ops
<1> QED
  BY <1>1, FS_Subset, FS_CardinalityType DEF Pending

\* A step that starts no pending request and writes no new answer.
LEMMA AnswersKept ==
    ASSUME TypeOK, AnswersInv, Pending' \subseteq Pending,
           used'.requests = used.requests,
           \A b \in Bindings : answers'[b] \in {0, answers[b]}
    PROVE  AnswersInv'
<1>1. Cardinality(Pending') <= Cardinality(Pending) /\ Cardinality(Pending') \in Nat
  BY PendingFinite, FS_Subset, FS_CardinalityType
<1>2. \A b \in Bindings : answers[b] \in 0..MaxRequests
  BY DEF TypeOK, Answers
<1>3. used.requests \in 0..MaxRequests
  BY DEF TypeOK, UsedType
<1> SUFFICES ASSUME NEW b \in Bindings
             PROVE  answers'[b] + Cardinality(Pending') <= used'.requests
  BY DEF AnswersInv
<1>4. answers[b] + Cardinality(Pending) <= used.requests
  BY DEF AnswersInv
<1> QED
  BY <1>1, <1>2, <1>3, <1>4, PendingFinite, Bounds

\* The answers written and the requests still to write one never exceed the
\* requests counted.
LEMMA AnswersStep ==
    ASSUME TypeOK, Named, AnswersInv, [Next]_vars
    PROVE  AnswersInv'
<1>0. op \in [Ops -> OpType] /\ answers \in [Bindings -> Answers] /\ used \in UsedType
  BY DEF TypeOK
<1>1. CASE Background
  <2>1. Pending' = Pending /\ answers' = answers
    BY <1>1 DEF Background, Pending
  <2> QED
    BY <1>1, <2>1, AnswersKept DEF Background
<1>2. ASSUME NEW i \in Instances, Crash(i) PROVE AnswersInv'
  <2>1. \A o \in Ops : op'[o] = op[o] \/ op'[o] = IdleOp
    BY <1>2 DEF Crash
  <2>2. Pending' \subseteq Pending
    BY <2>1 DEF Pending, IdleOp
  <2>3. used'.requests = used.requests /\ answers' = answers
    BY <1>0, <1>2 DEF Crash, dbVars, UsedType
  <2> QED
    BY <2>2, <2>3, AnswersKept
<1>3. ASSUME NEW i \in Instances, NEW b \in Bindings, SweepNext(i, b) PROVE AnswersInv'
  <2>1. /\ \A o \in Ops : o # <<i, Sweeper>> => op'[o] = op[o]
        /\ op'[<<i, Sweeper>>] = [IdleOp EXCEPT !.pc = "wait", !.kind = "sweep", !.b = b]
    BY <1>0, <1>3 DEF SweepNext, StartReevaluation, Ops
  <2>2. op'[<<i, Sweeper>>].write = FALSE
    BY <2>1 DEF IdleOp
  <2>3. Pending' \subseteq Pending
    BY <2>1, <2>2 DEF Pending
  <2>4. used' = used /\ answers' = answers
    BY <1>3 DEF SweepNext, dbVars
  <2> QED
    BY <2>3, <2>4, AnswersKept
<1>4. ASSUME NEW o \in Ops, Enter(o) PROVE AnswersInv'
  <2>1. /\ \A q \in Ops : q # o => op'[q] = op[q]
        /\ op'[o].write = op[o].write /\ op[o].pc = "wait"
    BY <1>0, <1>4 DEF Enter, OpType
  <2>2. Pending' \subseteq Pending
    BY <2>1 DEF Pending
  <2>3. used' = used /\ answers' = answers
    BY <1>4 DEF Enter, dbVars
  <2> QED
    BY <2>2, <2>3, AnswersKept
<1>5. ASSUME NEW o \in Ops, Release(o) PROVE AnswersInv'
  <2>1. op'[o] = IdleOp /\ \A q \in Ops : q # o => op'[q] = op[q]
    BY <1>0, <1>5 DEF Release
  <2>2. Pending' \subseteq Pending
    BY <2>1 DEF Pending, IdleOp
  <2>3. used' = used /\ answers' = answers
    BY <1>5 DEF Release, dbVars
  <2> QED
    BY <2>2, <2>3, AnswersKept
<1>6. ASSUME NEW o \in Ops, Work(o) PROVE AnswersInv'
  <2>1. Continues(o)
    BY <1>6, WorkContinues
  <2>2. Pending' \subseteq Pending
    BY <2>1 DEF Continues, Pending
  <2>3. used'.requests = used.requests
    BY <1>0, <1>6 DEF Work, Reread, WriteAttributes, Preflight, GetModule, ReadAnswers, Evaluate,
       WriteFindings, Vouch, Stamp, StampFail, Rewire, Fail, UsedType
  <2>4. CASE ~WriteAttributes(o)
    <3>1. \A b \in Bindings : answers'[b] \in {0, answers[b]}
      BY <1>0, <1>6, <2>4 DEF Work, Reread, Preflight, GetModule, ReadAnswers, Evaluate,
         WriteFindings, Vouch, Stamp, StampFail, Rewire, Fail, dbVars
    <3> QED
      BY <2>2, <2>3, <3>1, AnswersKept
  <2>5. CASE WriteAttributes(o) /\ (op[o].b \notin bound \/ ~op[o].write)
    <3>1. answers' = answers
      BY <1>0, <2>5 DEF WriteAttributes, NewAnswers
    <3> QED
      BY <2>2, <2>3, <3>1, AnswersKept
  <2>6. CASE WriteAttributes(o) /\ op[o].b \in bound /\ op[o].write
    <3>1. o \in Pending /\ Pending' \subseteq Pending \ {o}
      <4>1. op'[o].pc = "module"
        BY <1>0, <2>6, WriteAttributesEffect
      <4>2. o \notin Pending'
        BY <4>1 DEF Pending
      <4> QED
        BY <2>2, <2>6, <4>2 DEF Pending, WriteAttributes
    <3>2. /\ IsFiniteSet(Pending \ {o})
          /\ Cardinality(Pending \ {o}) = Cardinality(Pending) - 1
      BY <3>1, PendingFinite, FS_RemoveElement
    <3>3. /\ Cardinality(Pending') <= Cardinality(Pending) - 1
          /\ Cardinality(Pending') \in Nat
      BY <3>1, <3>2, FS_Subset, FS_CardinalityType
    <3> SUFFICES ASSUME NEW b \in Bindings
                 PROVE  answers'[b] + Cardinality(Pending') <= used'.requests
      BY DEF AnswersInv
    <3>4. answers[b] + Cardinality(Pending) <= used.requests
      BY DEF AnswersInv
    <3>5. answers'[b] = answers[b] \/ answers'[b] = answers[b] + 1
      BY <1>0, <2>6 DEF WriteAttributes, NewAnswers
    <3>6. answers[b] \in 0..MaxRequests /\ used.requests \in 0..MaxRequests
      BY <1>0 DEF Answers, UsedType
    <3> QED
      BY <2>3, <3>3, <3>4, <3>5, <3>6, PendingFinite, Bounds
  <2> QED
    BY <2>4, <2>5, <2>6
<1>7. ASSUME NEW o \in Ops, NEW kind \in Kinds, NEW b \in Bindings, NEW write \in BOOLEAN,
             Request(o, kind, b, write)
      PROVE  AnswersInv'
  <2>1. \A q \in Ops : q # o => op'[q] = op[q]
    BY <1>0, <1>7 DEF Request
  <2>2. Pending' \subseteq Pending \cup {o}
    BY <2>1 DEF Pending
  <2>3. IsFiniteSet(Pending \cup {o}) /\ Cardinality(Pending \cup {o}) <= Cardinality(Pending) + 1
    <3>1. /\ IsFiniteSet(Pending \cup {o})
          /\ Cardinality(Pending \cup {o}) = IF o \in Pending THEN Cardinality(Pending)
                                                              ELSE Cardinality(Pending) + 1
      BY PendingFinite, FS_AddElement, Zenon
    <3> QED
      BY <3>1, PendingFinite
  <2>4. Cardinality(Pending') <= Cardinality(Pending \cup {o}) /\ Cardinality(Pending') \in Nat
    BY <2>2, <2>3, FS_Subset, FS_CardinalityType
  <2>5. Cardinality(Pending \cup {o}) \in Nat
    BY <2>3, FS_CardinalityType
  <2>6. used'.requests = used.requests + 1 /\ answers' = answers
    BY <1>0, <1>7 DEF Request, UsedType, dbVars
  <2> SUFFICES ASSUME NEW x \in Bindings
               PROVE  answers[x] + Cardinality(Pending') <= used.requests + 1
    BY <2>6 DEF AnswersInv
  <2>7. answers[x] + Cardinality(Pending) <= used.requests
    BY DEF AnswersInv
  <2>8. answers[x] \in 0..MaxRequests /\ used.requests \in 0..MaxRequests
    BY <1>0 DEF Answers, UsedType
  <2> QED
    BY <2>3, <2>4, <2>5, <2>7, <2>8, PendingFinite, Bounds
<1> QED
  BY <1>1, <1>2, <1>3, <1>4, <1>5, <1>6, <1>7, StepCases

----------------------------------------------------------------------------
(* Policies only move forward *)

\* Files are only replaced by newer ones, and an engine keeps its policy, loses
\* it or gets the one on disk.
Advance ==
    /\ \A c \in Classes : disk[c].ver <= disk'[c].ver
    /\ \A i \in Instances, c \in Classes :
          engine'[i][c] \in {engine[i][c], NoPolicy, disk'[c].ver}

\* A class registered from disk has the policy on disk or none.
LEMMA RegisteredFromDisk ==
    ASSUME TypeOK, DiskInv, NEW c \in Classes
    PROVE  /\ Registered(c) \in {NoPolicy, disk[c].ver}
           /\ MetadataHash(c) \in {None, disk[c].ver}
           /\ MetadataHash(c) # None => Registered(c) = disk[c].ver
BY Bounds DEF DiskInv, TypeOK, Registered, MetadataHash, DiskPolicy

\* Which steps touch files, engines and loaded module objects.
LEMMA PolicyCases ==
    ASSUME SteadyDisk, TypeOK, [Next]_vars
    PROVE  \/ UNCHANGED <<disk, engine, reload>>
           \/ \E c \in Classes : Deploy(c)
           \/ \E i \in Instances : Probe(i) \/ Boot(i) \/ InstallMetadata(i) \/ Reload(i)
                                   \/ Swap(i) \/ Crash(i)
           \/ \E o \in Ops : Evaluate(o)
<1>1. ASSUME NEW i \in Instances, SweepReadPage(i) \/ SweepEnd(i) \/ SweepFail(i) \/ StartReset(i)
                \/ CatchUp(i) \/ InstallSkip(i) \/ InstallFail(i) \/ InstallNotify(i)
      PROVE  UNCHANGED <<disk, engine, reload>>
  BY <1>1 DEF SweepReadPage, SweepEnd, SweepFail, StartReset, CatchUp, InstallSkip, InstallFail,
              InstallNotify, instVars
<1>2. ASSUME NEW i \in Instances, NEW b \in Bindings, SweepNext(i, b)
      PROVE  UNCHANGED <<disk, engine, reload>>
  BY <1>2 DEF SweepNext, instVars
<1>3. ASSUME NEW i \in Instances, NEW W \in SUBSET Classes, InstallWrite(i, W)
      PROVE  UNCHANGED <<disk, engine, reload>>
  BY <1>3 DEF InstallWrite, instVars
<1>4. ASSUME NEW o \in Ops, Enter(o) \/ Reread(o) \/ WriteAttributes(o) \/ Preflight(o) \/ GetModule(o)
                \/ ReadAnswers(o) \/ WriteFindings(o) \/ Vouch(o) \/ Stamp(o) \/ Rewire(o)
                \/ Release(o) \/ StampFail(o) \/ Fail(o)
      PROVE  UNCHANGED <<disk, engine, reload>>
  BY <1>4 DEF Enter, Reread, WriteAttributes, Preflight, GetModule, ReadAnswers, WriteFindings,
              Vouch, Stamp, Rewire, Release, StampFail, Fail, instVars
<1>5. ASSUME NEW o \in Ops, NEW kind, NEW b, NEW write, Request(o, kind, b, write)
      PROVE  UNCHANGED <<disk, engine, reload>>
  BY <1>5 DEF Request, instVars
<1>6. ASSUME NEW c \in Classes PROVE ~MoveFile(c)
  BY DEF MoveFile, SteadyDisk
<1>7. CASE UNCHANGED vars
  BY <1>7 DEF vars, instVars
<1>8. ASSUME Next PROVE \/ UNCHANGED <<disk, engine, reload>>
                        \/ \E c \in Classes : Deploy(c)
                        \/ \E i \in Instances : Probe(i) \/ Boot(i) \/ InstallMetadata(i) \/ Reload(i)
                                                \/ Swap(i) \/ Crash(i)
                        \/ \E o \in Ops : Evaluate(o)
  BY <1>1, <1>2, <1>3, <1>4, <1>5, <1>6, <1>8
     DEF Next, OpStep, InstallStep, SweepStep, Environment
<1> QED
  BY <1>7, <1>8

\* Policies only move forward, and a loaded module object is not outdated by a
\* release before it replaces the one in the registry.
LEMMA PolicyStep ==
    ASSUME SteadyDisk, TypeOK, Named, DiskInv, [Next]_vars
    PROVE  DiskInv' /\ Advance
<1>0. /\ disk \in [Classes -> [ver : 1..MaxPolicy, present : BOOLEAN]]
      /\ engine \in [Instances -> [Classes -> 0..MaxPolicy]]
      /\ reload \in [Instances -> ReloadType]
  BY DEF TypeOK
<1>a. \A c \in Classes : disk[c].ver \in 1..MaxPolicy
  BY <1>0
<1>b. \A i \in Instances, c \in Classes : engine[i][c] \in 0..MaxPolicy
  BY <1>0
<1>1. CASE UNCHANGED <<disk, engine, reload>>
  BY <1>1, <1>a, Bounds DEF DiskInv, Advance
<1>2. ASSUME NEW c \in Classes, Deploy(c) PROVE DiskInv' /\ Advance
  <2>1. /\ \A i \in Instances : ~reload[i].on
        /\ engine' = engine /\ reload' = reload
    BY <1>2 DEF Deploy, SteadyDisk, instVars
  <2>2. /\ disk'[c].ver = disk[c].ver + 1 /\ disk'[c].present
        /\ \A d \in Classes : d # c => disk'[d] = disk[d]
    BY <1>0, <1>2 DEF Deploy
  <2>3. \A d \in Classes : disk'[d].present /\ disk[d].ver <= disk'[d].ver /\ disk'[d].ver \in Int
    BY <1>a, <2>2, Bounds DEF DiskInv
  <2>4. \A i \in Instances, d \in Classes : engine[i][d] <= disk'[d].ver
    BY <1>a, <1>b, <2>3, Bounds DEF DiskInv
  <2> QED
    BY <2>1, <2>3, <2>4 DEF DiskInv, Advance
<1>3. ASSUME NEW i \in Instances, Probe(i) \/ Boot(i) \/ InstallMetadata(i) \/ Reload(i)
                                  \/ Swap(i) \/ Crash(i)
      PROVE  DiskInv' /\ Advance
  <2>1. disk' = disk
    BY <1>3 DEF Probe, Boot, InstallMetadata, Reload, Swap, Crash
  <2>2. \A j \in Instances, c \in Classes : engine'[j][c] \in {engine[j][c], NoPolicy, disk[c].ver}
    <3>1. ASSUME engine' = [engine EXCEPT ![i] = AllRegistered]
          PROVE  \A j \in Instances, c \in Classes :
                    engine'[j][c] \in {engine[j][c], NoPolicy, disk[c].ver}
      BY <1>0, <3>1, RegisteredFromDisk DEF AllRegistered
    <3>2. CASE Swap(i)
      BY <1>0, <3>2 DEF Swap, DiskInv
    <3>3. CASE engine' = engine
      BY <3>3
    <3>4. ASSUME ~Swap(i) PROVE engine' = engine \/ engine' = [engine EXCEPT ![i] = AllRegistered]
      BY <1>3, <3>4 DEF Probe, Boot, InstallMetadata, Reload, Crash
    <3> QED
      BY <3>1, <3>2, <3>3, <3>4
  <2>3. \A j \in Instances : reload'[j].on =>
           \A c \in Classes : reload'[j].engine[c] \in {NoPolicy, disk[c].ver}
    <3>1. CASE Reload(i)
      <4>1. \A j \in Instances : j # i => reload'[j] = reload[j]
        BY <1>0, <3>1 DEF Reload
      <4>2. reload'[i].engine = AllRegistered
        BY <1>0, <3>1 DEF Reload
      <4> QED
        BY <4>1, <4>2, RegisteredFromDisk DEF AllRegistered, DiskInv
    <3>2. CASE Swap(i) \/ Crash(i)
      <4>1. \A j \in Instances : j # i => reload'[j] = reload[j]
        BY <1>0, <3>2 DEF Swap, Crash
      <4>2. reload'[i] = NoReload
        BY <1>0, <3>2 DEF Swap, Crash
      <4>3. ~reload'[i].on
        BY <4>2 DEF NoReload
      <4> QED
        BY <4>1, <4>3 DEF DiskInv
    <3>3. CASE Probe(i) \/ Boot(i) \/ InstallMetadata(i)
      BY <3>3 DEF Probe, Boot, InstallMetadata, DiskInv
    <3> QED
      BY <1>3, <3>1, <3>2, <3>3
  <2>4. \A j \in Instances, c \in Classes : engine'[j][c] <= disk[c].ver
    BY <1>a, <1>b, <2>2, Bounds DEF DiskInv
  <2> QED
    BY <1>a, <2>1, <2>2, <2>3, <2>4, Bounds DEF DiskInv, Advance
<1>4. ASSUME NEW o \in Ops, Evaluate(o) PROVE DiskInv' /\ Advance
  <2>1. disk' = disk /\ reload' = reload
    BY <1>4 DEF Evaluate
  <2>2. op[o].b \in Bindings /\ ClassOf[op[o].b] \in Classes /\ o[1] \in Instances
    BY <1>4, Bounds DEF Evaluate, Named, Ops
  <2>3. DiskPolicy(ClassOf[op[o].b]) = disk[ClassOf[op[o].b]].ver
    BY <2>2 DEF DiskPolicy, DiskInv
  <2>4. engine' = engine \/ engine' = [engine EXCEPT ![o[1]][ClassOf[op[o].b]] = disk[ClassOf[op[o].b]].ver]
    BY <1>4, <2>3 DEF Evaluate
  <2>5. \A j \in Instances, c \in Classes : engine'[j][c] \in {engine[j][c], disk[c].ver}
    BY <1>0, <2>2, <2>4
  <2> QED
    BY <1>a, <1>b, <2>1, <2>5, Bounds DEF DiskInv, Advance
<1> QED
  BY <1>1, <1>2, <1>3, <1>4, PolicyCases

\* Policy p of class c has reached instance i after the step.
ReachedNext(i, c, p) ==
    /\ p <= disk'[c].ver
    /\ engine'[i][c] = NoPolicy \/ p <= engine'[i][c]

\* A policy that has reached an instance stays so.
LEMMA ReachedKept ==
    ASSUME TypeOK, TypeOK', Advance, NEW i \in Instances, NEW c \in Classes, NEW p \in Hashes,
           Reached(i, c, p)
    PROVE  ReachedNext(i, c, p)
<1>1. disk[c].ver \in 1..MaxPolicy /\ disk'[c].ver \in 1..MaxPolicy
  BY DEF TypeOK
<1>2. p <= disk'[c].ver
  BY <1>1, Bounds DEF Reached, Advance
<1> QED
  BY <1>2 DEF Reached, ReachedNext, Advance

\* No hash is reached everywhere.
LEMMA ReachedNone ==
    ASSUME TypeOK', NEW i \in Instances, NEW c \in Classes
    PROVE  ReachedNext(i, c, None)
<1>1. disk'[c].ver \in 1..MaxPolicy /\ engine'[i][c] \in 0..MaxPolicy
  BY DEF TypeOK
<1> QED
  BY <1>1, Bounds DEF ReachedNext

\* The class hashes stay, and an install keeps its hashes or has none.
HashesKept ==
    /\ hash' = hash
    /\ \A i \in Instances : install'[i].hashes \in {NoHashes, install[i].hashes}

\* Which steps touch the class hashes and an install's hashes.
LEMMA HashCases ==
    ASSUME TypeOK, [Next]_vars
    PROVE  \/ HashesKept
           \/ \E i \in Instances : InstallMetadata(i)
           \/ \E i \in Instances, W \in SUBSET Classes : InstallWrite(i, W)
<1>0. install \in [Instances -> InstallType] /\ \A i \in Instances : install[i] \in InstallType
  BY DEF TypeOK
<1>1. ASSUME UNCHANGED <<hash, install>> PROVE HashesKept
  BY <1>1 DEF HashesKept
<1>2. ASSUME NEW i \in Instances, hash' = hash, NEW k, NEW g, NEW queue, StartInstall(i, k, g, queue)
      PROVE  HashesKept
  BY <1>0, <1>2 DEF StartInstall, HashesKept
<1>3. ASSUME NEW i \in Instances, hash' = hash,
             install' = [install EXCEPT ![i] = EndInstall(i)] \/ install' = [install EXCEPT ![i] = NoInstall]
      PROVE  HashesKept
  <2>1. EndInstall(i).hashes = NoHashes /\ NoInstall.hashes = NoHashes
    BY DEF EndInstall, NoInstall
  <2> QED
    BY <1>0, <1>3, <2>1 DEF HashesKept
<1>4. ASSUME NEW i \in Instances,
             Boot(i) \/ Swap(i) \/ StartReset(i) \/ CatchUp(i) \/ InstallSkip(i) \/ InstallFail(i)
             \/ InstallNotify(i) \/ Crash(i)
      PROVE  HashesKept
  <2>1. hash' = hash
    BY <1>4 DEF Boot, Swap, StartReset, CatchUp, InstallSkip, InstallFail, InstallNotify, Crash, dbVars
  <2>2. CASE Boot(i) \/ StartReset(i) \/ CatchUp(i)
    BY <1>2, <2>1, <2>2 DEF Boot, StartReset, CatchUp
  <2>3. CASE InstallNotify(i) \/ Crash(i)
    BY <1>3, <2>1, <2>3 DEF InstallNotify, Crash
  <2>4. CASE InstallSkip(i) \/ InstallFail(i)
    <3>1. CASE install[i].kind = "boot"
      <4>1. install' = [install EXCEPT ![i] = [install[i] EXCEPT !.pc = "notify"]]
        BY <2>4, <3>1 DEF InstallSkip, InstallFail, NothingInstalled
      <4> QED
        BY <1>0, <2>1, <4>1 DEF HashesKept, InstallType
    <3>2. CASE install[i].kind # "boot"
      BY <1>3, <2>1, <2>4, <3>2 DEF InstallSkip, InstallFail, NothingInstalled
    <3> QED
      BY <3>1, <3>2
  <2>5. CASE Swap(i)
    BY <1>0, <2>1, <2>5 DEF Swap, HashesKept, InstallType
  <2> QED
    BY <1>4, <2>2, <2>3, <2>4, <2>5
<1>5. ASSUME NEW i \in Instances, Probe(i) \/ Reload(i) \/ SweepReadPage(i) \/ SweepEnd(i) \/ SweepFail(i)
      PROVE  HashesKept
  BY <1>1, <1>5 DEF Probe, Reload, SweepReadPage, SweepEnd, SweepFail, dbVars
<1>6. ASSUME NEW i \in Instances, NEW b \in Bindings, SweepNext(i, b) PROVE HashesKept
  BY <1>1, <1>6 DEF SweepNext, dbVars
<1>7. ASSUME NEW o \in Ops, OpStep(o) \/ StampFail(o) \/ Fail(o) PROVE HashesKept
  BY <1>1, <1>7 DEF OpStep, Enter, Reread, WriteAttributes, Preflight, GetModule, ReadAnswers, Evaluate,
     WriteFindings, Vouch, Stamp, Rewire, Release, StampFail, Fail, dbVars
<1>8. ASSUME NEW o \in Ops, NEW kind, NEW b, NEW write, Request(o, kind, b, write) PROVE HashesKept
  BY <1>1, <1>8 DEF Request, dbVars
<1>9. ASSUME NEW c \in Classes, Deploy(c) \/ MoveFile(c) PROVE HashesKept
  BY <1>1, <1>9 DEF Deploy, MoveFile, dbVars
<1>10. CASE UNCHANGED vars
  BY <1>1, <1>10 DEF vars, dbVars
<1> QED
  BY <1>4, <1>5, <1>6, <1>7, <1>8, <1>9, <1>10 DEF Next, InstallStep, SweepStep, Environment

\* The hashes in the database and in a running install have reached the instance.
LEMMA HashStep ==
    ASSUME OneInstance, TypeOK, TypeOK', DiskInv, Advance, HashInv, [Next]_vars
    PROVE  HashInv'
<1>0. /\ install \in [Instances -> InstallType]
      /\ engine \in [Instances -> [Classes -> 0..MaxPolicy]]
      /\ disk \in [Classes -> [ver : 1..MaxPolicy, present : BOOLEAN]]
      /\ \A i \in Instances : install[i] \in InstallType
      /\ hash \in [Classes -> Hashes]
      /\ \A i \in Instances, c \in Classes : install[i].hashes[c] \in Hashes
  BY DEF TypeOK, InstallType
<1>1. \A i \in Instances, c \in Classes :
         ReachedNext(i, c, None) /\ ReachedNext(i, c, hash[c]) /\ ReachedNext(i, c, install[i].hashes[c])
  BY <1>0, ReachedNone, ReachedKept DEF HashInv
<1>2. SUFFICES \A i \in Instances, c \in Classes :
         ReachedNext(i, c, hash'[c]) /\ ReachedNext(i, c, install'[i].hashes[c])
  BY DEF HashInv, Reached, ReachedNext
<1>4. ASSUME HashesKept
      PROVE  \A j \in Instances, c \in Classes :
                ReachedNext(j, c, hash'[c]) /\ ReachedNext(j, c, install'[j].hashes[c])
  BY <1>1, <1>4 DEF HashesKept, NoHashes
<1>5. ASSUME NEW i \in Instances, InstallMetadata(i)
      PROVE  \A j \in Instances, c \in Classes :
                ReachedNext(j, c, hash'[c]) /\ ReachedNext(j, c, install'[j].hashes[c])
  <2>1. CASE install[i].gen # gen[i]
    <3>1. hash' = hash /\ install' = [install EXCEPT ![i] = EndInstall(i)]
      BY <1>5, <2>1 DEF InstallMetadata, dbVars
    <3>2. EndInstall(i).hashes = NoHashes
      BY DEF EndInstall, NoInstall
    <3> QED
      BY <1>0, <1>4, <3>1, <3>2 DEF HashesKept
  <2>2. CASE install[i].gen = gen[i]
    <3>1. /\ hash' = hash /\ disk' = disk
          /\ \A c \in Classes : engine'[i][c] = Registered(c)
          /\ \A j \in Instances : j # i => install'[j] = install[j]
      BY <1>0, <1>5, <2>2 DEF InstallMetadata, AllRegistered, dbVars
    <3>2. install'[i].hashes = [c \in Classes |-> MetadataHash(c)]
      BY <1>0, <1>5, <2>2 DEF InstallMetadata, InstallType
    <3>3. ASSUME NEW c \in Classes PROVE ReachedNext(i, c, MetadataHash(c))
      <4>1. disk[c].ver \in 1..MaxPolicy
        BY <1>0
      <4>2. CASE MetadataHash(c) = None
        BY <1>1, <4>2
      <4>3. CASE MetadataHash(c) # None
        <5>1. MetadataHash(c) = disk[c].ver /\ Registered(c) = disk[c].ver
          BY <4>3, RegisteredFromDisk
        <5> QED
          BY <3>1, <4>1, <5>1 DEF ReachedNext
      <4> QED
        BY <4>2, <4>3
    <3>4. ASSUME NEW j \in Instances, NEW c \in Classes
          PROVE  ReachedNext(j, c, install'[j].hashes[c])
      BY <1>1, <3>1, <3>2, <3>3 
    <3> QED
      BY <1>1, <3>1, <3>4
  <2> QED
    BY <2>1, <2>2
<1>6. ASSUME NEW i \in Instances, NEW W \in SUBSET Classes, InstallWrite(i, W)
      PROVE  \A j \in Instances, c \in Classes :
                ReachedNext(j, c, hash'[c]) /\ ReachedNext(j, c, install'[j].hashes[c])
  <2>1. \A c \in Classes : hash'[c] \in {hash[c], install[i].hashes[c], None}
    BY <1>0, <1>6 DEF InstallWrite
  <2>2. \A j \in Instances : install'[j].hashes = install[j].hashes
    BY <1>0, <1>6 DEF InstallWrite, InstallType
  <2> QED
    BY <1>1, <2>1, <2>2 DEF OneInstance
<1> QED
  BY <1>4, <1>5, <1>6, HashCases

----------------------------------------------------------------------------
(* What operations rely on, and the database *)

\* Binding x is as it was.
Untouched(x) ==
    /\ x \in bound' <=> x \in bound
    /\ findings'[x] = findings[x] /\ stamp'[x] = stamp[x]

\* What operation o relies on, after the step.
OpOKNext(o) ==
    LET r == op'[o]
        c == ClassOf[r.b]
    IN
    /\ r.pc \in {"reread", "attributes"} => r.kind \notin {"bind", "unbind"}
    /\ r.pc \in {"module", "answers", "evaluate"} => ReachedNext(o[1], c, r.hash)
    /\ r.pc \in {"module", "answers", "evaluate", "findings", "vouch", "stamp"}
          => (r.kind # "unbind" /\ (r.kind # "bind" => r.b \in bound'))
    /\ (r.pc \in {"findings", "vouch", "stamp"} \/ (r.pc = "rewire" /\ r.kind = "bind"))
          => (ReachedNext(o[1], c, r.pol) /\ r.hash <= r.pol)
    /\ r.pc = "findings" => (r.kind # "bind" /\ stamp'[r.b] <= r.pol)
    /\ (r.pc \in {"vouch", "stamp"} /\ r.kind # "bind") => findings'[r.b].pol = r.pol
    /\ r.pc = "stamp" => r.kind # "bind"

LEMMA OpInvNext == (\A o \in Ops : OpOKNext(o)) => OpInv'
BY DEF OpInv, OpOK, OpOKNext, Reached, ReachedNext

\* An operation that does not hold its element relies on nothing, and neither
\* does one that only has to give it back.
LEMMA RelaxedOp ==
    ASSUME NEW o \in Ops, op'[o].pc \in {"idle", "wait", "preflight", "release"}
    PROVE  OpOKNext(o)
BY DEF OpOKNext

\* Types of what an operation refers to.
LEMMA OpFields ==
    ASSUME TypeOK, Named, NEW o \in Ops, op[o].pc # "idle"
    PROVE  /\ o[1] \in Instances /\ op[o].b \in Bindings /\ ClassOf[op[o].b] \in Classes
           /\ op[o].hash \in Hashes /\ op[o].pol \in Hashes
<1>1. op[o] \in OpType /\ o[1] \in Instances
  BY DEF TypeOK, Ops
<1>2. op[o].b \in Bindings
  BY DEF Named
<1> QED
  BY <1>1, <1>2, Bounds DEF OpType

\* An operation that a step leaves alone, with its binding, relies on what it did.
LEMMA OtherOp ==
    ASSUME TypeOK, TypeOK', Named, OpInv, Advance, NEW o \in Ops, op'[o] = op[o],
           Holds(o) => Untouched(op[o].b)
    PROVE  OpOKNext(o)
<1>1. CASE op[o].pc \in {"idle", "wait"}
  BY <1>1, RelaxedOp
<1>2. CASE op[o].pc \notin {"idle", "wait"}
  <2>1. /\ o[1] \in Instances /\ op[o].b \in Bindings /\ ClassOf[op[o].b] \in Classes
        /\ op[o].hash \in Hashes /\ op[o].pol \in Hashes
    BY <1>2, OpFields
  <2>2. Untouched(op[o].b)
    BY <1>2 DEF Holds
  <2>3. /\ Reached(o[1], ClassOf[op[o].b], op[o].hash) => ReachedNext(o[1], ClassOf[op[o].b], op[o].hash)
        /\ Reached(o[1], ClassOf[op[o].b], op[o].pol) => ReachedNext(o[1], ClassOf[op[o].b], op[o].pol)
    BY <2>1, ReachedKept
  <2>4. OpOK(o)
    BY DEF OpInv
  <2> QED
    BY <2>2, <2>3, <2>4 DEF OpOK, OpOKNext, Untouched
<1> QED
  BY <1>1, <1>2

\* Findings and stamps a step leaves alone stay right.
LEMMA DbKept ==
    ASSUME TypeOK, TypeOK', DbInv, Advance, NEW x \in Bindings, Untouched(x)
    PROVE  /\ \A i \in Instances : ReachedNext(i, ClassOf[x], findings'[x].pol)
           /\ x \in bound' => stamp'[x] <= findings'[x].pol
           /\ x \notin bound' => findings'[x] = NoFindings
<1>1. ClassOf[x] \in Classes /\ findings[x].pol \in Hashes
  BY Bounds DEF TypeOK
<1>2. \A i \in Instances : Reached(i, ClassOf[x], findings[x].pol)
  BY DEF DbInv
<1>3. \A i \in Instances : ReachedNext(i, ClassOf[x], findings[x].pol)
  BY <1>1, <1>2, ReachedKept
<1> QED
  BY <1>3 DEF DbInv, StampNeverNewer, NoFindingsOfOtherClasses, Untouched

LEMMA DbInvNext ==
    ASSUME TypeOK',
           \A x \in Bindings :
              /\ \A i \in Instances : ReachedNext(i, ClassOf[x], findings'[x].pol)
              /\ x \in bound' => stamp'[x] <= findings'[x].pol
              /\ x \notin bound' => findings'[x] = NoFindings
    PROVE  DbInv'
<1>1. bound' \subseteq Bindings
  BY DEF TypeOK
<1> QED
  BY <1>1 DEF DbInv, StampNeverNewer, NoFindingsOfOtherClasses, Reached, ReachedNext

\* A step of o touches only the bindings of the element o holds, so what the
\* other operations rely on, and the database elsewhere, stays.
LEMMA Others ==
    ASSUME TypeOK, TypeOK', Named, LockInv, OpInv, DbInv, Advance,
           NEW o \in Ops, Continues(o), OpOKNext(o),
           \A x \in Bindings : ~SameElement(x, op[o].b) => Untouched(x),
           \A x \in Bindings : SameElement(x, op[o].b) =>
              /\ \A i \in Instances : ReachedNext(i, ClassOf[x], findings'[x].pol)
              /\ x \in bound' => stamp'[x] <= findings'[x].pol
              /\ x \notin bound' => findings'[x] = NoFindings
    PROVE  OpInv' /\ DbInv'
<1>1. ASSUME NEW q \in Ops PROVE OpOKNext(q)
  <2>1. CASE q = o
    BY <2>1
  <2>2. CASE q # o
    <3>1. op'[q] = op[q]
      BY <2>2 DEF Continues
    <3>2. ASSUME Holds(q) PROVE Untouched(op[q].b)
      <4>1. Holds(o)
        BY DEF Continues, Holds
      <4>2. ~SameElement(op[q].b, op[o].b)
        BY <2>2, <3>2, <4>1 DEF LockInv
      <4>3. op[q].b \in Bindings
        BY <3>2 DEF Holds, Named
      <4> QED
        BY <4>2, <4>3
    <3> QED
      BY <3>1, <3>2, OtherOp
  <2> QED
    BY <2>1, <2>2
<1>2. OpInv'
  BY <1>1, OpInvNext
<1>3. DbInv'
  BY DbKept, DbInvNext
<1> QED
  BY <1>2, <1>3

\* A step of o that writes nothing an operation relies on.
LEMMA OthersQuiet ==
    ASSUME TypeOK, TypeOK', Named, LockInv, OpInv, DbInv, Advance,
           NEW o \in Ops, Continues(o), OpOKNext(o), UNCHANGED <<bound, findings, stamp>>
    PROVE  OpInv' /\ DbInv'
<1>1. \A x \in Bindings : Untouched(x)
  BY DEF Untouched
<1>2. \A x \in Bindings :
              /\ \A i \in Instances : ReachedNext(i, ClassOf[x], findings'[x].pol)
              /\ x \in bound' => stamp'[x] <= findings'[x].pol
              /\ x \notin bound' => findings'[x] = NoFindings
  BY <1>1, DbKept
<1> QED
  BY <1>1, <1>2, Others

\* What holds when an operation takes a step.
WorkContext(o) ==
    /\ OneInstance /\ TypeOK /\ TypeOK' /\ Named /\ LockInv /\ DiskInv /\ HashInv
    /\ OpInv /\ DbInv /\ Advance /\ Continues(o)

\* Reading: the binding, the class's hash, the module object, the answers.
LEMMA ReadStep ==
    ASSUME NEW o \in Ops, WorkContext(o),
           Reread(o) \/ WriteAttributes(o) \/ Preflight(o) \/ GetModule(o) \/ ReadAnswers(o)
    PROVE  OpInv' /\ DbInv'
<1>0. /\ o[1] \in Instances /\ op[o].b \in Bindings /\ ClassOf[op[o].b] \in Classes
      /\ op[o].hash \in Hashes /\ op[o].pol \in Hashes
  BY OpFields DEF WorkContext, Continues
<1>1. UNCHANGED <<bound, findings, stamp>>
  BY DEF Reread, WriteAttributes, Preflight, GetModule, ReadAnswers, dbVars
<1>2. OpOK(o)
  BY DEF WorkContext, OpInv
<1>3. op \in [Ops -> OpType] /\ op[o] \in OpType
  BY DEF WorkContext, TypeOK
<1>4. ReachedNext(o[1], ClassOf[op[o].b], hash[ClassOf[op[o].b]])
  <2>1. hash[ClassOf[op[o].b]] \in Hashes
    BY <1>0 DEF WorkContext, TypeOK
  <2>2. Reached(o[1], ClassOf[op[o].b], hash[ClassOf[op[o].b]])
    BY <1>0 DEF WorkContext, HashInv
  <2> QED
    BY <1>0, <2>1, <2>2, ReachedKept DEF WorkContext
<1>5. Reached(o[1], ClassOf[op[o].b], op[o].hash) => ReachedNext(o[1], ClassOf[op[o].b], op[o].hash)
  BY <1>0, ReachedKept DEF WorkContext
<1>6. CASE Reread(o)
  <2>1. op'[o].pc \in {"attributes", "release"} /\ op'[o].kind = op[o].kind /\ op[o].pc = "reread"
    BY <1>3, <1>6 DEF Reread, OpType
  <2>2. OpOKNext(o)
    BY <1>2, <2>1 DEF OpOK, OpOKNext
  <2> QED
    BY <1>1, <2>2, OthersQuiet DEF WorkContext
<1>7. CASE WriteAttributes(o)
  <2>1. CASE op[o].b \in bound
    <3>1. /\ op'[o].pc = "module" /\ op'[o].hash = hash[ClassOf[op[o].b]] /\ op'[o].b = op[o].b
          /\ op'[o].kind = op[o].kind /\ op[o].pc = "attributes"
      BY <1>3, <1>7, <2>1 DEF WriteAttributes, OpType
    <3>2. OpOKNext(o)
      BY <1>1, <1>2, <1>4, <2>1, <3>1 DEF OpOK, OpOKNext
    <3> QED
      BY <1>1, <3>2, OthersQuiet DEF WorkContext
  <2>2. CASE op[o].b \notin bound
    <3>1. op'[o].pc = "release"
      BY <1>3, <1>7, <2>2 DEF WriteAttributes, Refuse, OpType
    <3> QED
      BY <1>1, <3>1, RelaxedOp, OthersQuiet DEF WorkContext
  <2> QED
    BY <2>1, <2>2
<1>8. CASE Preflight(o)
  <2>1. /\ op'[o].b = op[o].b /\ op'[o].kind = op[o].kind
        /\ op'[o].pc \in {"release", "module", "rewire"}
        /\ op'[o].pc = "module" => (op[o].kind = "bind" /\ op'[o].hash = hash[ClassOf[op[o].b]])
        /\ op'[o].pc = "rewire" => op[o].kind # "bind"
    BY <1>3, <1>8 DEF Preflight, OpType
  <2>2. OpOKNext(o)
    BY <1>4, <2>1 DEF OpOKNext
  <2> QED
    BY <1>1, <2>2, OthersQuiet DEF WorkContext
<1>9. CASE GetModule(o) \/ ReadAnswers(o)
  <2>1. /\ op'[o].pc \in {"answers", "evaluate"} /\ op[o].pc \in {"module", "answers"}
        /\ op'[o].b = op[o].b /\ op'[o].kind = op[o].kind /\ op'[o].hash = op[o].hash
    BY <1>3, <1>9 DEF GetModule, ReadAnswers, OpType
  <2>2. OpOKNext(o)
    BY <1>1, <1>2, <1>5, <2>1 DEF OpOK, OpOKNext
  <2> QED
    BY <1>1, <2>2, OthersQuiet DEF WorkContext
<1> QED
  BY <1>6, <1>7, <1>8, <1>9

\* Evaluation: the policy it uses is no older than the hash read before it, the
\* findings and the stamp it will replace.
LEMMA EvaluateStep ==
    ASSUME NEW o \in Ops, WorkContext(o), Evaluate(o)
    PROVE  OpInv' /\ DbInv'
<1> DEFINE i == o[1]
           b == op[o].b
           c == ClassOf[b]
<1>0. /\ i \in Instances /\ b \in Bindings /\ c \in Classes
      /\ op[o].hash \in Hashes /\ op[o].pol \in Hashes
  BY OpFields DEF WorkContext, Continues
<1>1. UNCHANGED <<bound, findings, stamp>> /\ disk' = disk
  BY DEF Evaluate, dbVars
<1>2. op \in [Ops -> OpType] /\ op[o] \in OpType /\ engine \in [Instances -> [Classes -> 0..MaxPolicy]]
  BY DEF WorkContext, TypeOK
<1>3. /\ engine[i][c] \in 0..MaxPolicy /\ disk[c].ver \in 1..MaxPolicy
      /\ stamp[b] \in Hashes /\ findings[b].pol \in Hashes
  BY <1>0 DEF WorkContext, TypeOK
<1>4. engine[i][c] <= disk[c].ver /\ DiskPolicy(c) = disk[c].ver /\ DiskPolicy(c) # NoPolicy
  BY <1>0, <1>3, Bounds DEF WorkContext, DiskInv, DiskPolicy
<1>5. /\ Reached(i, c, op[o].hash) /\ op[o].kind # "unbind" /\ (op[o].kind # "bind" => b \in bound)
  <2>1. OpOK(o) /\ op[o].pc = "evaluate"
    BY DEF WorkContext, OpInv, Evaluate
  <2> QED
    BY <2>1 DEF OpOK
<1>6. Reached(i, c, findings[b].pol) /\ (b \in bound => stamp[b] <= findings[b].pol)
  BY <1>0 DEF WorkContext, DbInv, StampNeverNewer
<1>7. ASSUME NEW p \in 1..MaxPolicy, Evaluated(o, p), p <= disk[c].ver, engine'[i][c] = p,
             engine[i][c] \in {NoPolicy, p}, engine[i][c] = NoPolicy => p = disk[c].ver
      PROVE  OpOKNext(o)
  <2>1. /\ op'[o].b = b /\ op'[o].kind = op[o].kind /\ op'[o].hash = op[o].hash /\ op'[o].pol = p
        /\ op'[o].pc = IF op[o].kind = "bind" THEN "vouch" ELSE "findings"
    BY <1>2, <1>7 DEF Evaluated, OpType
  <2>2. ReachedNext(i, c, p)
    BY <1>1, <1>7 DEF ReachedNext
  <2>3. op[o].hash <= p
    BY <1>0, <1>3, <1>5, <1>7, Bounds DEF Reached
  <2>4. findings[b].pol <= p
    BY <1>3, <1>6, <1>7, Bounds DEF Reached
  <2>5. op[o].kind # "bind" => stamp[b] <= p
    <3>1. op[o].kind # "bind" => stamp[b] <= findings[b].pol
      BY <1>5, <1>6
    <3>2. stamp[b] \in Int /\ findings[b].pol \in Int /\ p \in Int
      BY <1>3, Bounds
    <3> QED
      BY <2>4, <3>1, <3>2
  <2> QED
    BY <1>1, <1>5, <2>1, <2>2, <2>3, <2>5 DEF OpOKNext
<1>8. CASE engine[i][c] # NoPolicy /\ Evaluated(o, engine[i][c]) /\ engine' = engine
  <2>1. engine[i][c] \in 1..MaxPolicy
    <3>1. \A x \in 0..MaxPolicy : x # NoPolicy => x \in 1..MaxPolicy
      BY Bounds
    <3>2. engine[i][c] \in 0..MaxPolicy /\ engine[i][c] # NoPolicy
      BY <1>3, <1>8
    <3> QED
      BY <3>1, <3>2
  <2>2. OpOKNext(o)
    BY <1>4, <1>7, <1>8, <2>1
  <2> QED
    BY <1>1, <2>2, OthersQuiet DEF WorkContext
<1>9. CASE engine[i][c] = NoPolicy /\ Evaluated(o, disk[c].ver) /\ engine' = [engine EXCEPT ![i][c] = disk[c].ver]
  <2>1. engine'[i][c] = disk[c].ver
    BY <1>0, <1>2, <1>9
  <2>2. disk[c].ver <= disk[c].ver
    BY <1>3
  <2>3. OpOKNext(o)
    BY <1>3, <1>7, <1>9, <2>1, <2>2
  <2> QED
    BY <1>1, <2>3, OthersQuiet DEF WorkContext
<1>10. CASE Refuse(o)
  <2>1. op'[o].pc = "release"
    BY <1>2, <1>10 DEF Refuse, OpType
  <2> QED
    BY <1>1, <2>1, RelaxedOp, OthersQuiet DEF WorkContext
<1> QED
  BY <1>4, <1>8, <1>9, <1>10 DEF Evaluate

\* Writing: the findings, the policy hash to stamp, the stamp.
LEMMA WriteStep ==
    ASSUME NEW o \in Ops, WorkContext(o),
           WriteFindings(o) \/ Vouch(o) \/ Stamp(o) \/ StampFail(o) \/ Fail(o)
    PROVE  OpInv' /\ DbInv'
<1> DEFINE i == o[1]
           b == op[o].b
           c == ClassOf[b]
<1>0. /\ i \in Instances /\ b \in Bindings /\ c \in Classes
      /\ op[o].hash \in Hashes /\ op[o].pol \in Hashes
  BY OpFields DEF WorkContext, Continues
<1>1. /\ op \in [Ops -> OpType] /\ op[o] \in OpType /\ stamp \in [Bindings -> Hashes]
      /\ findings \in [Bindings -> [pol : Hashes, ans : Answers]]
  BY DEF WorkContext, TypeOK
<1>2. OpOK(o)
  BY DEF WorkContext, OpInv
<1>3. Reached(i, c, op[o].pol) => \A j \in Instances : ReachedNext(j, c, op[o].pol)
  BY <1>0, ReachedKept DEF WorkContext, OneInstance
<1>4. ASSUME NEW x \in Bindings, Untouched(x)
      PROVE  /\ \A j \in Instances : ReachedNext(j, ClassOf[x], findings'[x].pol)
             /\ x \in bound' => stamp'[x] <= findings'[x].pol
             /\ x \notin bound' => findings'[x] = NoFindings
  BY <1>4, DbKept DEF WorkContext
<1>5. CASE WriteFindings(o)
  <2>1. /\ bound' = bound /\ stamp' = stamp /\ findings'[b].pol = op[o].pol
        /\ \A x \in Bindings : x # b => findings'[x] = findings[x]
    BY <1>0, <1>1, <1>5 DEF WriteFindings
  <2>2. /\ op'[o].pc = "vouch" /\ op[o].pc = "findings" /\ op'[o].b = b /\ op'[o].kind = op[o].kind
        /\ op'[o].pol = op[o].pol /\ op'[o].hash = op[o].hash
    BY <1>1, <1>5 DEF WriteFindings, OpType
  <2>3. /\ Reached(i, c, op[o].pol) /\ b \in bound /\ stamp[b] <= op[o].pol
        /\ op[o].kind \notin {"bind", "unbind"} /\ op[o].hash <= op[o].pol
    BY <1>2, <2>2 DEF OpOK
  <2>4. OpOKNext(o)
    BY <1>0, <1>3, <2>1, <2>2, <2>3 DEF OpOKNext
  <2>5. \A x \in Bindings : x # b => Untouched(x)
    BY <2>1 DEF Untouched
  <2>6. /\ \A j \in Instances : ReachedNext(j, ClassOf[b], findings'[b].pol)
        /\ b \in bound' => stamp'[b] <= findings'[b].pol
        /\ b \notin bound' => findings'[b] = NoFindings
    BY <1>3, <2>1, <2>3
  <2>7. \A x \in Bindings : ~SameElement(x, op[o].b) => Untouched(x)
    BY <2>5 DEF SameElement
  <2>8. \A x \in Bindings : SameElement(x, op[o].b) =>
              /\ \A j \in Instances : ReachedNext(j, ClassOf[x], findings'[x].pol)
              /\ x \in bound' => stamp'[x] <= findings'[x].pol
              /\ x \notin bound' => findings'[x] = NoFindings
    BY <1>4, <2>5, <2>6
  <2> QED
    BY <2>4, <2>7, <2>8, Others DEF WorkContext
<1>6. CASE Vouch(o)
  <2>1. /\ op[o].pc = "vouch" /\ op'[o].pc = IF op[o].kind = "bind" THEN "rewire" ELSE "stamp"
        /\ op'[o].b = b /\ op'[o].kind = op[o].kind /\ op'[o].pol = op[o].pol
        /\ op'[o].hash = HashToStamp(o) /\ UNCHANGED <<bound, findings, stamp>>
    BY <1>1, <1>6 DEF Vouch, OpType, dbVars
  <2>2. HashToStamp(o) <= op[o].pol
    <3>1. op[o].hash <= op[o].pol /\ Reached(i, c, op[o].pol)
      BY <1>2, <2>1 DEF OpOK
    <3>2. HashToStamp(o) = op[o].hash \/ HashToStamp(o) = None
      BY DEF HashToStamp
    <3>3. None <= op[o].pol
      BY <1>0, Bounds
    <3> QED
      BY <3>1, <3>2, <3>3
  <2>3. OpOKNext(o)
    BY <1>0, <1>2, <1>3, <2>1, <2>2 DEF OpOK, OpOKNext
  <2> QED
    BY <2>1, <2>3, OthersQuiet DEF WorkContext
<1>7. CASE Stamp(o)
  <2>1. /\ bound' = bound /\ findings' = findings /\ stamp'[b] \in {op[o].hash, stamp[b]}
        /\ \A x \in Bindings : x # b => stamp'[x] = stamp[x]
    BY <1>0, <1>1, <1>7 DEF Stamp
  <2>2. op'[o].pc = "release" /\ op[o].pc = "stamp"
    BY <1>1, <1>7 DEF Stamp, OpType
  <2>3. op[o].hash <= op[o].pol /\ findings[b].pol = op[o].pol
    BY <1>2, <2>2 DEF OpOK
  <2>4. \A x \in Bindings : x # b => Untouched(x)
    BY <2>1 DEF Untouched
  <2>5. /\ \A j \in Instances : ReachedNext(j, ClassOf[b], findings'[b].pol)
        /\ b \in bound' => stamp'[b] <= findings'[b].pol
        /\ b \notin bound' => findings'[b] = NoFindings
    <3>1. Reached(i, c, op[o].pol)
      BY <1>2, <2>2 DEF OpOK
    <3>2. b \in bound => stamp[b] <= findings[b].pol
      BY DEF WorkContext, DbInv, StampNeverNewer
    <3>3. b \notin bound => findings[b] = NoFindings
      BY <1>0 DEF WorkContext, DbInv, NoFindingsOfOtherClasses
    <3> QED
      BY <1>3, <2>1, <2>3, <3>1, <3>2, <3>3
  <2>6. \A x \in Bindings : ~SameElement(x, op[o].b) => Untouched(x)
    BY <2>4 DEF SameElement
  <2>7. \A x \in Bindings : SameElement(x, op[o].b) =>
              /\ \A j \in Instances : ReachedNext(j, ClassOf[x], findings'[x].pol)
              /\ x \in bound' => stamp'[x] <= findings'[x].pol
              /\ x \notin bound' => findings'[x] = NoFindings
    BY <1>4, <2>4, <2>5
  <2> QED
    BY <2>2, <2>6, <2>7, RelaxedOp, Others DEF WorkContext
<1>8. CASE StampFail(o) \/ Fail(o)
  <2>1. op'[o].pc = "release" /\ UNCHANGED <<bound, findings, stamp>>
    BY <1>1, <1>8 DEF StampFail, Fail, Refuse, OpType, dbVars
  <2> QED
    BY <2>1, RelaxedOp, OthersQuiet DEF WorkContext
<1> QED
  BY <1>5, <1>6, <1>7, <1>8

\* A binding change removes the findings of the classes left behind with the
\* bindings, and writes those of the new class with a stamp they justify.
LEMMA RewireStep ==
    ASSUME NEW o \in Ops, WorkContext(o), Rewire(o)
    PROVE  OpInv' /\ DbInv'
<1> DEFINE i == o[1]
           b == op[o].b
           c == ClassOf[b]
<1>0. /\ i \in Instances /\ b \in Bindings /\ c \in Classes
      /\ op[o].hash \in Hashes /\ op[o].pol \in Hashes
  BY OpFields DEF WorkContext, Continues
<1>1. op \in [Ops -> OpType] /\ op[o] \in OpType
  BY DEF WorkContext, TypeOK
<1>2. op'[o].pc = "release" /\ op[o].pc = "rewire"
  BY <1>1 DEF Rewire, OpType
<1>3. OpOKNext(o)
  BY <1>2, RelaxedOp
<1>4. op[o].kind = "bind" => Reached(i, c, op[o].pol) /\ op[o].hash <= op[o].pol
  <2>1. OpOK(o)
    BY DEF WorkContext, OpInv
  <2> QED
    BY <1>2, <2>1 DEF OpOK
<1>5. CASE UNCHANGED <<bound, findings, stamp>>
  BY <1>3, <1>5, OthersQuiet DEF WorkContext
<1>6. CASE ~UNCHANGED <<bound, findings, stamp>>
  <2>1. /\ bound' = (bound \ {x \in Bindings : SameElement(x, b)})
                      \cup (IF op[o].kind = "bind" THEN {b} ELSE {})
        /\ \A x \in Bindings : findings'[x] = Swept(o, x)
        /\ \A x \in Bindings :
              stamp'[x] = IF op[o].kind = "bind" /\ x = b THEN op[o].hash ELSE stamp[x]
    BY <1>6 DEF Rewire
  <2>2. ASSUME NEW x \in Bindings, ~SameElement(x, b) PROVE Untouched(x)
    <3>1. x # b
      BY <2>2 DEF SameElement
    <3>2. findings'[x] = findings[x]
      BY <2>1, <2>2, <3>1 DEF Swept
    <3> QED
      BY <2>1, <2>2, <3>1, <3>2 DEF Untouched
  <2>3. ASSUME NEW x \in Bindings, SameElement(x, b)
        PROVE  /\ \A j \in Instances : ReachedNext(j, ClassOf[x], findings'[x].pol)
               /\ x \in bound' => stamp'[x] <= findings'[x].pol
               /\ x \notin bound' => findings'[x] = NoFindings
    <3>1. CASE op[o].kind = "bind" /\ x = b
      <4>1. findings'[x].pol = op[o].pol
        BY <2>1, <3>1 DEF Swept
      <4>2. stamp'[x] = op[o].hash /\ x \in bound'
        BY <2>1, <3>1
      <4>3. \A j \in Instances : ReachedNext(j, c, op[o].pol)
        BY <1>0, <1>4, <3>1, ReachedKept DEF WorkContext, OneInstance
      <4> QED
        BY <1>4, <3>1, <4>1, <4>2, <4>3
    <3>2. CASE ~(op[o].kind = "bind" /\ x = b)
      <4>1. findings'[x] = NoFindings
        BY <2>1, <2>3, <3>2 DEF Swept
      <4>2. x \notin bound'
        BY <2>1, <2>3, <3>2
      <4>3. findings'[x].pol = None
        BY <4>1 DEF NoFindings
      <4>4. ClassOf[x] \in Classes
        BY Bounds
      <4> QED
        BY <4>1, <4>2, <4>3, <4>4, ReachedNone DEF WorkContext
    <3> QED
      BY <3>1, <3>2
  <2> QED
    BY <1>3, <2>2, <2>3, Others DEF WorkContext
<1> QED
  BY <1>5, <1>6

\* A step that leaves the findings, stamps and bindings alone, and every
\* operation either alone or without claims.
LEMMA QuietStep ==
    ASSUME TypeOK, TypeOK', Named, OpInv, DbInv, Advance,
           UNCHANGED <<bound, findings, stamp>>,
           \A o \in Ops : op'[o] = op[o] \/ OpOKNext(o)
    PROVE  OpInv' /\ DbInv'
<1>1. \A x \in Bindings : Untouched(x)
  BY DEF Untouched
<1>2. ASSUME NEW o \in Ops PROVE OpOKNext(o)
  <2>1. CASE op'[o] = op[o]
    <3>1. Holds(o) => Untouched(op[o].b)
      BY <1>1 DEF Holds, Named
    <3> QED
      BY <2>1, <3>1, OtherOp
  <2> QED
    BY <2>1
<1>3. OpInv'
  BY <1>2, OpInvNext
<1>4. DbInv'
  BY <1>1, DbKept, DbInvNext
<1> QED
  BY <1>3, <1>4

\* Every step keeps what operations rely on and the database right.
LEMMA DataStep ==
    ASSUME OneInstance, TypeOK, TypeOK', Named, LockInv, DiskInv, HashInv, OpInv, DbInv,
           Advance, [Next]_vars
    PROVE  OpInv' /\ DbInv'
<1>0. op \in [Ops -> OpType]
  BY DEF TypeOK
<1>1. CASE Background
  BY <1>1, QuietStep DEF Background
<1>2. ASSUME NEW i \in Instances, Crash(i) PROVE OpInv' /\ DbInv'
  <2>1. \A o \in Ops : op'[o] = op[o] \/ op'[o] = IdleOp
    BY <1>2 DEF Crash
  <2>2. IdleOp.pc = "idle"
    BY DEF IdleOp
  <2>3. \A o \in Ops : op'[o] = op[o] \/ OpOKNext(o)
    BY <2>1, <2>2, RelaxedOp
  <2>4. UNCHANGED <<bound, findings, stamp>>
    BY <1>2 DEF Crash, dbVars
  <2> QED
    BY <2>3, <2>4, QuietStep
<1>3. ASSUME NEW i \in Instances, NEW b \in Bindings, SweepNext(i, b) PROVE OpInv' /\ DbInv'
  <2>1. /\ \A o \in Ops : o # <<i, Sweeper>> => op'[o] = op[o]
        /\ op'[<<i, Sweeper>>] = [IdleOp EXCEPT !.pc = "wait", !.kind = "sweep", !.b = b]
    BY <1>0, <1>3 DEF SweepNext, StartReevaluation, Ops
  <2>2. op'[<<i, Sweeper>>].pc = "wait"
    BY <2>1 DEF IdleOp
  <2>3. \A o \in Ops : op'[o] = op[o] \/ OpOKNext(o)
    BY <2>1, <2>2, RelaxedOp
  <2>4. UNCHANGED <<bound, findings, stamp>>
    BY <1>3 DEF SweepNext, dbVars
  <2> QED
    BY <2>3, <2>4, QuietStep
<1>4. ASSUME NEW o \in Ops, Enter(o) PROVE OpInv' /\ DbInv'
  <2>1. \A q \in Ops : q # o => op'[q] = op[q]
    BY <1>0, <1>4 DEF Enter
  <2>2. op'[o].kind = op[o].kind /\ op'[o].pc = FirstStep(op[o].kind)
    BY <1>0, <1>4 DEF Enter, OpType
  <2>3. OpOKNext(o)
    BY <2>2 DEF FirstStep, OpOKNext
  <2>4. UNCHANGED <<bound, findings, stamp>>
    BY <1>4 DEF Enter, dbVars
  <2> QED
    BY <2>1, <2>3, <2>4, QuietStep
<1>5. ASSUME NEW o \in Ops, Release(o) PROVE OpInv' /\ DbInv'
  <2>1. op'[o] = IdleOp /\ \A q \in Ops : q # o => op'[q] = op[q]
    BY <1>0, <1>5 DEF Release
  <2>2. op'[o].pc = "idle"
    BY <2>1 DEF IdleOp
  <2>3. UNCHANGED <<bound, findings, stamp>>
    BY <1>5 DEF Release, dbVars
  <2> QED
    BY <2>1, <2>2, <2>3, RelaxedOp, QuietStep
<1>6. ASSUME NEW o \in Ops, Work(o) PROVE OpInv' /\ DbInv'
  <2>1. WorkContext(o)
    BY <1>6, WorkContinues DEF WorkContext
  <2> QED
    BY <1>6, <2>1, ReadStep, EvaluateStep, WriteStep, RewireStep DEF Work
<1>7. ASSUME NEW o \in Ops, NEW kind \in Kinds, NEW b \in Bindings, NEW write \in BOOLEAN,
             Request(o, kind, b, write)
      PROVE  OpInv' /\ DbInv'
  <2>1. /\ \A q \in Ops : q # o => op'[q] = op[q]
        /\ op'[o] = [IdleOp EXCEPT !.pc = "wait", !.kind = kind, !.b = b, !.write = write]
    BY <1>0, <1>7 DEF Request
  <2>2. op'[o].pc = "wait"
    BY <2>1 DEF IdleOp
  <2>3. UNCHANGED <<bound, findings, stamp>>
    BY <1>7 DEF Request, dbVars
  <2> QED
    BY <2>1, <2>2, <2>3, RelaxedOp, QuietStep
<1> QED
  BY <1>1, <1>2, <1>3, <1>4, <1>5, <1>6, <1>7, StepCases

----------------------------------------------------------------------------
(* Findings follow the stored answers *)

\* Binding x is left alone: it stays bound or unbound, with its answers and its
\* findings, and nobody is told anything about its saves.
LeftAlone(x) ==
    /\ (x \in bound') <=> (x \in bound)
    /\ (x \in failedSaves') <=> (x \in failedSaves)
    /\ answers'[x] = answers[x] /\ findings'[x] = findings[x]

\* What an operation relies on is kept while it does nothing and its binding is
\* left alone.
LEMMA FollowKept ==
    ASSUME FollowInv, NEW o \in Ops, op'[o] = op[o], Holds(o) => LeftAlone(op[o].b)
    PROVE  FollowOK(o)'
<1>1. FollowOK(o)
  BY DEF FollowInv
<1>2. CASE Holds(o)
  BY <1>1, <1>2 DEF FollowOK, LeftAlone
<1>3. CASE ~Holds(o)
  BY <1>1, <1>3 DEF FollowOK, Holds
<1> QED
  BY <1>2, <1>3

\* A binding left alone follows its answers as it did, as long as nobody stops
\* owing it findings.
LEMMA FollowsKept ==
    ASSUME FollowInv, NEW x \in Bindings, LeftAlone(x),
           \A o \in Ops : (op[o].b = x /\ Owes(o)) => (op'[o].b = x /\ Owes(o)')
    PROVE  Follows(x)' /\ (x \notin bound' => findings'[x] = NoFindings)
<1>1. Follows(x) /\ (x \notin bound => findings[x] = NoFindings)
  BY DEF FollowInv, NoFindingsOfOtherClasses
<1>2. (\E o \in Ops : op[o].b = x /\ Owes(o)) => \E o \in Ops : op'[o].b = x /\ Owes(o)'
  OBVIOUS
<1> QED
  BY <1>1, <1>2 DEF Follows, LeftAlone

LEMMA FollowInvNext ==
    ASSUME TypeOK', \A o \in Ops : FollowOK(o)',
           \A x \in Bindings : Follows(x)' /\ (x \notin bound' => findings'[x] = NoFindings)
    PROVE  FollowInv'
BY DEF FollowInv, NoFindingsOfOtherClasses

\* A step that leaves every binding alone and starts, ends or continues one
\* operation that owes nobody findings, or still does.
LEMMA FollowQuiet ==
    ASSUME TypeOK', FollowInv, UNCHANGED <<bound, answers, findings, failedSaves>>, NEW o \in Ops,
           \A q \in Ops : q # o => op'[q] = op[q],
           FollowOK(o)',
           Owes(o) => (op'[o].b = op[o].b /\ Owes(o)')
    PROVE  FollowInv'
<1>1. \A x : LeftAlone(x)
  BY DEF LeftAlone
<1>2. \A q \in Ops : FollowOK(q)'
  BY <1>1, FollowKept
<1>3. \A q \in Ops : Owes(q) => (op'[q].b = op[q].b /\ Owes(q)')
  BY DEF Owes
<1>4. \A x \in Bindings : Follows(x)' /\ (x \notin bound' => findings'[x] = NoFindings)
  BY <1>1, <1>3, FollowsKept
<1> QED
  BY <1>2, <1>4, FollowInvNext

\* The same for a step that writes the element it holds: the bindings of other
\* elements are left alone, and so are the operations on them.
LEMMA FollowWrite ==
    ASSUME TypeOK', Named, LockInv, FollowInv, NEW o \in Ops, Continues(o), FollowOK(o)',
           \A x \in Bindings : ~SameElement(x, op[o].b) => LeftAlone(x),
           \A x \in Bindings : SameElement(x, op[o].b) =>
              Follows(x)' /\ (x \notin bound' => findings'[x] = NoFindings)
    PROVE  FollowInv'
<1>1. \A q \in Ops : q # o => op'[q] = op[q]
  BY DEF Continues
<1>2. ASSUME NEW q \in Ops, q # o, Holds(q) PROVE LeftAlone(op[q].b)
  <2>1. ~SameElement(op[q].b, op[o].b) /\ op[q].b \in Bindings
    BY <1>2 DEF LockInv, Holds, Continues, Named
  <2> QED
    BY <2>1
<1>3. \A q \in Ops : FollowOK(q)'
  BY <1>1, <1>2, FollowKept
<1>4. ASSUME NEW x \in Bindings, ~SameElement(x, op[o].b)
      PROVE  Follows(x)' /\ (x \notin bound' => findings'[x] = NoFindings)
  <2>1. \A q \in Ops : (op[q].b = x /\ Owes(q)) => (op'[q].b = x /\ Owes(q)')
    <3>1. op[o].b # x
      BY <1>4 DEF SameElement
    <3> QED
      BY <1>1, <3>1 DEF Owes
  <2> QED
    BY <1>4, <2>1, FollowsKept
<1>5. \A x \in Bindings : Follows(x)' /\ (x \notin bound' => findings'[x] = NoFindings)
  BY <1>4
<1> QED
  BY <1>3, <1>5, FollowInvNext

\* What holds when an operation takes a step.
FollowContext(o) ==
    /\ TypeOK /\ TypeOK' /\ Named /\ LockInv /\ FollowInv /\ Continues(o)
    /\ op[o] \in OpType /\ op[o].b \in Bindings /\ FollowOK(o)

\* The steps of an operation that write nothing.
LEMMA FollowRead ==
    ASSUME NEW o \in Ops, FollowContext(o),
           Reread(o) \/ Preflight(o) \/ GetModule(o) \/ ReadAnswers(o) \/ Evaluate(o) \/ Vouch(o)
           \/ Stamp(o) \/ StampFail(o) \/ Fail(o)
    PROVE  FollowInv'
<1>0. /\ op \in [Ops -> OpType] /\ op[o] \in OpType /\ FollowOK(o)
      /\ op'[o].b = op[o].b /\ op'[o].kind = op[o].kind /\ op'[o].write = op[o].write
      /\ \A q \in Ops : q # o => op'[q] = op[q]
  BY DEF FollowContext, TypeOK, Continues
<1>1. UNCHANGED <<bound, answers, findings, failedSaves>>
  BY DEF Reread, Preflight, GetModule, ReadAnswers, Evaluate, Vouch, Stamp, StampFail, Fail, dbVars
<1>2. ASSUME FollowOK(o)', Owes(o) => Owes(o)' PROVE FollowInv'
  BY <1>0, <1>1, <1>2, FollowQuiet DEF FollowContext
<1>3. CASE Reread(o)
  <2>1. /\ op[o].pc = "reread" /\ op'[o].pc \in {"attributes", "release"}
        /\ op'[o].pol = op[o].pol
    BY <1>0, <1>3 DEF Reread, OpType
  <2>2. FollowOK(o)'
    BY <1>0, <2>1 DEF FollowOK
  <2> QED
    BY <1>2, <2>1, <2>2 DEF Owes
<1>4. CASE Preflight(o)
  <2>1. /\ op[o].pc = "preflight" /\ op'[o].pol = op[o].pol
        /\ op'[o].pc \in {"release", "module", "rewire"}
        /\ op'[o].pc = "module" => (op[o].kind = "bind" /\ op[o].b \notin bound)
        /\ op'[o].pc = "rewire" => op[o].kind # "bind"
    BY <1>0, <1>4 DEF Preflight, OpType
  <2>2. FollowOK(o)'
    BY <1>0, <1>1, <2>1 DEF FollowOK
  <2> QED
    BY <1>2, <2>1, <2>2 DEF Owes
<1>5. CASE GetModule(o)
  <2>1. /\ op[o].pc = "module" /\ op'[o].pc = "answers" /\ op'[o].pol = op[o].pol
    BY <1>0, <1>5 DEF GetModule, OpType
  <2>2. FollowOK(o)'
    BY <1>0, <1>1, <2>1 DEF FollowOK
  <2> QED
    BY <1>0, <1>2, <2>1, <2>2 DEF Owes
<1>6. CASE ReadAnswers(o)
  <2>1. /\ op[o].pc = "answers" /\ op'[o].pc = "evaluate" /\ op'[o].pol = op[o].pol
        /\ op'[o].ans = IF op[o].b \in bound THEN answers[op[o].b] ELSE 0
    BY <1>0, <1>6 DEF ReadAnswers, OpType
  <2>2. FollowOK(o)'
    BY <1>0, <1>1, <2>1 DEF FollowOK
  <2> QED
    BY <1>0, <1>2, <2>1, <2>2 DEF Owes
<1>7. CASE Evaluate(o)
  <2>1. /\ op[o].pc = "evaluate" /\ op'[o].ans = op[o].ans
        /\ op'[o].pc \in {"vouch", "findings", "release"}
        /\ op'[o].pc = "vouch" => op[o].kind = "bind"
        /\ op'[o].pc = "findings" => op[o].kind # "bind"
        /\ op'[o].pc = "release" => ~op'[o].ok
    <3>1. op[o].pc = "evaluate" /\ (Refuse(o) \/ \E p : Evaluated(o, p))
      BY <1>7 DEF Evaluate
    <3> QED
      BY <1>0, <3>1, EvaluatedEffect, RefuseEffect
  <2>2. FollowOK(o)'
    BY <1>0, <1>1, <2>1 DEF FollowOK
  <2> QED
    BY <1>0, <1>2, <2>1, <2>2 DEF Owes
<1>8. CASE Vouch(o)
  <2>1. /\ op[o].pc = "vouch" /\ op'[o].pol = op[o].pol /\ op'[o].ans = op[o].ans
        /\ op'[o].pc = IF op[o].kind = "bind" THEN "rewire" ELSE "stamp"
    BY <1>0, <1>8 DEF Vouch, OpType
  <2>2. FollowOK(o)'
    BY <1>0, <1>1, <2>1 DEF FollowOK
  <2> QED
    BY <1>2, <2>1, <2>2 DEF Owes
<1>9. CASE Stamp(o) \/ StampFail(o)
  <2>1. /\ op[o].pc = "stamp" /\ op'[o].pol = op[o].pol /\ op'[o].pc = "release"
    BY <1>0, <1>9 DEF Stamp, StampFail, OpType
  <2>2. FollowOK(o)'
    BY <1>0, <1>1, <2>1 DEF FollowOK
  <2> QED
    BY <1>2, <2>1, <2>2 DEF Owes
<1>10. CASE Fail(o)
  <2>1. /\ op'[o].pol = op[o].pol /\ op'[o].pc = "release" /\ ~op'[o].ok
        /\ op[o].pc \in {"reread", "attributes", "module", "evaluate", "findings", "rewire"}
    BY <1>0, <1>10 DEF Fail, Refuse, OpType
  <2>2. FollowOK(o)'
    BY <1>0, <1>1, <2>1 DEF FollowOK
  <2> QED
    BY <1>0, <1>2, <2>1, <2>2 DEF Owes
<1> QED
  BY <1>3, <1>4, <1>5, <1>6, <1>7, <1>8, <1>9, <1>10

\* The steps of a save that write: the answers, then the findings derived from
\* them, with nobody in between.
LEMMA FollowSave ==
    ASSUME NEW o \in Ops, FollowContext(o), WriteAttributes(o) \/ WriteFindings(o)
    PROVE  FollowInv'
<1>b. PICK b \in Bindings : b = op[o].b
  BY DEF FollowContext
<1>0. /\ op \in [Ops -> OpType] /\ op[o] \in OpType /\ FollowOK(o)
      /\ op[o].b = b /\ op'[o].b = b /\ op'[o].kind = op[o].kind /\ op'[o].write = op[o].write
      /\ \A q \in Ops : q # o => op'[q] = op[q]
  BY <1>b DEF FollowContext, TypeOK, Continues
<1>1. answers \in [Bindings -> Answers] /\ findings \in [Bindings -> [pol : Hashes, ans : Answers]]
  BY DEF FollowContext, TypeOK
<1>2. ASSUME FollowOK(o)', \A x \in Bindings : x # b => LeftAlone(x), Follows(b)',
             b \in bound', bound' = bound
      PROVE  FollowInv'
  <2>1. \A x \in Bindings : x # b => (Follows(x)' /\ (x \notin bound' => findings'[x] = NoFindings))
    <3> SUFFICES ASSUME NEW x \in Bindings, x # b
                 PROVE  Follows(x)' /\ (x \notin bound' => findings'[x] = NoFindings)
      OBVIOUS
    <3>1. \A q \in Ops : (op[q].b = x /\ Owes(q)) => (op'[q].b = x /\ Owes(q)')
      BY <1>0 DEF Owes
    <3> QED
      BY <1>2, <3>1, FollowsKept DEF FollowContext
  <2>2. \A x \in Bindings : ~SameElement(x, b) => LeftAlone(x)
    BY <1>2 DEF SameElement
  <2>3. \A x \in Bindings : Follows(x)' /\ (x \notin bound' => findings'[x] = NoFindings)
    BY <1>2, <2>1
  <2> QED
    BY <1>0, <1>2, <2>2, <2>3, FollowWrite DEF FollowContext
<1>3. CASE WriteAttributes(o) /\ b \in bound
  <2>1. /\ op[o].pc = "attributes" /\ op'[o].pc = "module" /\ op'[o].pol = op[o].pol
        /\ answers'[b] = NewAnswers(o) /\ UNCHANGED <<bound, findings, failedSaves>>
        /\ \A x \in Bindings : x # b => answers'[x] = answers[x]
    BY <1>0, <1>1, <1>3 DEF WriteAttributes, OpType
  <2>2. FollowOK(o)'
    BY <1>0, <1>3, <2>1 DEF FollowOK
  <2>3. \A x \in Bindings : x # b => LeftAlone(x)
    BY <2>1 DEF LeftAlone
  <2>4. Follows(b)'
    <3>1. CASE op[o].kind = "save"
      <4>1. Owes(o)'
        BY <1>0, <2>1, <3>1 DEF Owes
      <4> QED
        BY <1>0, <4>1 DEF Follows
    <3>2. CASE op[o].kind # "save"
      <4>1. answers'[b] = answers[b]
        BY <1>0, <2>1, <3>2 DEF FollowOK, NewAnswers
      <4>2. LeftAlone(b)
        BY <2>1, <4>1 DEF LeftAlone
      <4>3. \A q \in Ops : (op[q].b = b /\ Owes(q)) => (op'[q].b = b /\ Owes(q)')
        BY <1>0, <3>2 DEF Owes
      <4> QED
        BY <1>0, <4>2, <4>3, FollowsKept DEF FollowContext
    <3> QED
      BY <3>1, <3>2
  <2> QED
    BY <1>2, <1>3, <2>1, <2>2, <2>3, <2>4
<1>4. CASE WriteAttributes(o) /\ b \notin bound
  <2>1. /\ op[o].pc = "attributes" /\ op'[o].pc = "release" /\ op'[o].pol = op[o].pol /\ ~op'[o].ok
        /\ UNCHANGED <<bound, answers, findings, failedSaves>>
    BY <1>0, <1>4, WriteAttributesEffect, RefuseEffect DEF WriteAttributes
  <2>2. FollowOK(o)'
    BY <1>0, <2>1 DEF FollowOK
  <2>3. Owes(o) => Owes(o)'
    BY <2>1 DEF Owes
  <2> QED
    BY <1>0, <2>1, <2>2, <2>3, FollowQuiet DEF FollowContext
<1>5. CASE WriteFindings(o)
  <2>1. /\ op[o].pc = "findings" /\ op'[o].pc = "vouch" /\ op'[o].pol = op[o].pol
        /\ UNCHANGED <<bound, answers, failedSaves>>
        /\ findings'[b].ans = op[o].ans
        /\ \A x \in Bindings : x # b => findings'[x] = findings[x]
    BY <1>0, <1>1, <1>5 DEF WriteFindings, OpType
  <2>2. op[o].ans = answers[b] /\ b \in bound /\ op[o].kind # "bind"
    BY <1>0, <2>1 DEF FollowOK
  <2>3. FollowOK(o)'
    BY <1>0, <2>1, <2>2 DEF FollowOK
  <2>4. \A x \in Bindings : x # b => LeftAlone(x)
    BY <2>1 DEF LeftAlone
  <2>5. Follows(b)'
    BY <2>1, <2>2 DEF Follows
  <2> QED
    BY <1>2, <2>1, <2>2, <2>3, <2>4, <2>5
<1> QED
  BY <1>3, <1>4, <1>5

\* A binding change starts over: no answers, and findings derived from none.
LEMMA FollowRewire ==
    ASSUME NEW o \in Ops, FollowContext(o), Rewire(o)
    PROVE  FollowInv'
<1> DEFINE b == op[o].b
<1>0. /\ op \in [Ops -> OpType] /\ op[o] \in OpType /\ FollowOK(o) /\ b \in Bindings
      /\ op'[o].b = op[o].b /\ op'[o].kind = op[o].kind /\ op'[o].write = op[o].write
      /\ \A q \in Ops : q # o => op'[q] = op[q]
  BY DEF FollowContext, TypeOK, Continues
<1>1. /\ op[o].pc = "rewire" /\ op'[o].pc = "release" /\ op'[o].pol = op[o].pol
  BY <1>0 DEF Rewire, OpType
<1>2. op[o].kind = "bind" => op[o].ans = 0
  BY <1>0, <1>1 DEF FollowOK
<1>3. FollowOK(o)'
  <2>1. op[o].kind # "bind" => op[o].pol = None
    BY <1>0, <1>1 DEF FollowOK
  <2> QED
    BY <1>0, <1>1, <2>1 DEF FollowOK
<1>4. CASE UNCHANGED <<bound, answers, findings, failedSaves>>
  <2>1. ~Owes(o)
    BY <1>1 DEF Owes
  <2> QED
    BY <1>0, <1>3, <1>4, <2>1, FollowQuiet DEF FollowContext
<1>5. CASE ~UNCHANGED <<bound, answers, findings, failedSaves>>
  <2>1. /\ bound' = (bound \ {x \in Bindings : SameElement(x, b)})
                      \cup (IF op[o].kind = "bind" THEN {b} ELSE {})
        /\ \A x \in Bindings : findings'[x] = Swept(o, x)
        /\ \A x \in Bindings : answers'[x] = IF SameElement(x, b) THEN 0 ELSE answers[x]
        /\ failedSaves' = failedSaves \ {x \in Bindings : SameElement(x, b)}
    BY <1>5 DEF Rewire
  <2>2. ASSUME NEW x \in Bindings, ~SameElement(x, b) PROVE LeftAlone(x)
    <3>1. x # b
      BY <2>2 DEF SameElement
    <3>2. findings'[x] = findings[x]
      BY <2>1, <2>2, <3>1 DEF Swept
    <3> QED
      BY <2>1, <2>2, <3>1, <3>2 DEF LeftAlone
  <2>3. ASSUME NEW x \in Bindings, SameElement(x, b)
        PROVE  Follows(x)' /\ (x \notin bound' => findings'[x] = NoFindings)
    <3>1. CASE op[o].kind = "bind" /\ x = b
      <4>1. findings'[x].ans = op[o].ans
        BY <2>1, <3>1 DEF Swept
      <4>2. answers'[x] = 0 /\ x \in bound'
        BY <2>1, <2>3, <3>1
      <4> QED
        BY <1>2, <3>1, <4>1, <4>2 DEF Follows
    <3>2. CASE ~(op[o].kind = "bind" /\ x = b)
      <4>1. findings'[x] = NoFindings /\ x \notin bound'
        BY <2>1, <2>3, <3>2 DEF Swept
      <4> QED
        BY <4>1 DEF Follows
    <3> QED
      BY <3>1, <3>2
  <2> QED
    BY <1>3, <2>2, <2>3, FollowWrite DEF FollowContext
<1> QED
  BY <1>4, <1>5

\* Every step keeps the findings behind the answers they were derived from.
LEMMA FollowStep ==
    ASSUME TypeOK, TypeOK', Named, LockInv, FollowInv, [Next]_vars
    PROVE  FollowInv'
<1>0. op \in [Ops -> OpType]
  BY DEF TypeOK
<1>1. CASE Background
  <2>1. \A x : LeftAlone(x)
    BY <1>1 DEF Background, LeftAlone
  <2>2. \A q \in Ops : FollowOK(q)'
    BY <1>1, <2>1, FollowKept DEF Background
  <2>3. \A q \in Ops : Owes(q) => (op'[q].b = op[q].b /\ Owes(q)')
    BY <1>1 DEF Owes, Background
  <2>4. \A x \in Bindings : Follows(x)' /\ (x \notin bound' => findings'[x] = NoFindings)
    BY <2>1, <2>3, FollowsKept
  <2> QED
    BY <2>2, <2>4, FollowInvNext
<1>2. ASSUME NEW i \in Instances, Crash(i) PROVE FollowInv'
  <2>1. /\ \A o \in Ops : op'[o] = IF o[1] = i THEN IdleOp ELSE op[o]
        /\ UNCHANGED <<bound, answers, findings>>
        /\ \A x : x \in failedSaves' <=>
              (x \in failedSaves \/ \E o \in Ops : o[1] = i /\ op[o].kind = "save" /\ op[o].b = x)
    BY <1>2 DEF Crash, dbVars
  <2>2. ASSUME NEW o \in Ops PROVE FollowOK(o)'
    <3>1. CASE o[1] = i
      <4>1. op'[o] = IdleOp
        BY <2>1, <3>1
      <4> QED
        BY <4>1 DEF FollowOK, IdleOp
    <3>2. CASE o[1] # i
      <4>1. FollowOK(o) /\ op'[o] = op[o]
        BY <2>1, <3>2 DEF FollowInv
      <4> QED
        BY <2>1, <4>1 DEF FollowOK
    <3> QED
      BY <3>1, <3>2
  <2>3. ASSUME NEW x \in Bindings PROVE Follows(x)' /\ (x \notin bound' => findings'[x] = NoFindings)
    <3>1. Follows(x) /\ (x \notin bound => findings[x] = NoFindings)
      BY DEF FollowInv, NoFindingsOfOtherClasses
    <3>2. ASSUME NEW o \in Ops, op[o].b = x, Owes(o), x \notin failedSaves'
          PROVE  op'[o].b = x /\ Owes(o)'
      <4>1. o[1] # i
        BY <2>1, <3>2 DEF Owes
      <4> QED
        BY <2>1, <3>2, <4>1 DEF Owes
    <3> QED
      BY <2>1, <3>1, <3>2 DEF Follows
  <2> QED
    BY <2>2, <2>3, FollowInvNext
<1>3. ASSUME NEW i \in Instances, NEW b \in Bindings, SweepNext(i, b) PROVE FollowInv'
  <2> DEFINE o == <<i, Sweeper>>
  <2>1. /\ o \in Ops /\ \A q \in Ops : q # o => op'[q] = op[q]
        /\ op'[o] = [IdleOp EXCEPT !.pc = "wait", !.kind = "sweep", !.b = b]
        /\ op[o].pc = "idle"
    BY <1>0, <1>3 DEF SweepNext, StartReevaluation, Ops
  <2>2. op'[o].pc = "wait" /\ ~op'[o].write /\ op'[o].pol = None
    BY <2>1 DEF IdleOp
  <2>3. FollowOK(o)'
    BY <2>2 DEF FollowOK
  <2>4. UNCHANGED <<bound, answers, findings, failedSaves>> /\ ~Owes(o)
    BY <1>3, <2>1 DEF SweepNext, dbVars, Owes
  <2> HIDE DEF o
  <2> QED
    BY <2>1, <2>3, <2>4, FollowQuiet
<1>4. ASSUME NEW o \in Ops, Enter(o) PROVE FollowInv'
  <2>1. /\ \A q \in Ops : q # o => op'[q] = op[q]
        /\ op[o].pc = "wait" /\ op'[o].pc = FirstStep(op[o].kind) /\ op'[o].kind = op[o].kind
        /\ op'[o].write = op[o].write /\ op'[o].pol = op[o].pol
    BY <1>0, <1>4 DEF Enter, OpType
  <2>2. FollowOK(o)
    BY DEF FollowInv
  <2>3. FollowOK(o)'
    BY <2>1, <2>2 DEF FollowOK, FirstStep
  <2>4. UNCHANGED <<bound, answers, findings, failedSaves>> /\ ~Owes(o)
    BY <1>4, <2>1 DEF Enter, dbVars, Owes
  <2> QED
    BY <2>1, <2>3, <2>4, FollowQuiet
<1>5. ASSUME NEW o \in Ops, Release(o) PROVE FollowInv'
  <2>1. /\ op'[o] = IdleOp /\ op[o].pc = "release" /\ \A q \in Ops : q # o => op'[q] = op[q]
        /\ UNCHANGED <<bound, answers, findings>>
    BY <1>0, <1>5 DEF Release, dbVars
  <2>2. ASSUME NEW q \in Ops PROVE FollowOK(q)'
    <3>1. CASE q = o
      BY <2>1, <3>1 DEF FollowOK, IdleOp
    <3>2. CASE q # o
      <4>1. FollowOK(q) /\ op'[q] = op[q]
        BY <2>1, <3>2 DEF FollowInv
      <4> QED
        BY <2>1, <4>1 DEF FollowOK
    <3> QED
      BY <3>1, <3>2
  <2>3. ASSUME NEW x \in Bindings PROVE Follows(x)' /\ (x \notin bound' => findings'[x] = NoFindings)
    <3>1. Follows(x) /\ (x \notin bound => findings[x] = NoFindings)
      BY DEF FollowInv, NoFindingsOfOtherClasses
    <3>2. FollowOK(o)
      BY DEF FollowInv
    <3>3. ASSUME NEW q \in Ops, op[q].b = x, Owes(q), x \notin failedSaves'
          PROVE  op'[q].b = x /\ Owes(q)'
      <4>1. q # o
        BY <1>5, <2>1, <3>3 DEF Owes, Release
      <4> QED
        BY <2>1, <3>3, <4>1 DEF Owes
    <3>4. CASE x \in failedSaves /\ x \notin failedSaves'
      <4>1. op[o].kind # "bind" /\ op[o].ok /\ op[o].pol # None /\ op[o].b = x
        BY <1>5, <3>4 DEF Release
      <4>2. findings[x].ans = answers[x]
        BY <2>1, <3>2, <4>1 DEF FollowOK
      <4> QED
        BY <2>1, <3>1, <4>2 DEF Follows
    <3>5. CASE x \notin failedSaves \/ x \in failedSaves'
      BY <2>1, <3>1, <3>3, <3>5 DEF Follows
    <3> QED
      BY <3>4, <3>5
  <2> QED
    BY <2>2, <2>3, FollowInvNext
<1>6. ASSUME NEW o \in Ops, Work(o) PROVE FollowInv'
  <2>1. FollowContext(o)
    <3>1. Continues(o) /\ op[o] \in OpType /\ FollowOK(o)
      BY <1>0, <1>6, WorkContinues DEF FollowInv
    <3>2. op[o].b \in Bindings
      BY <3>1 DEF Continues, Named
    <3> QED
      BY <3>1, <3>2 DEF FollowContext
  <2> QED
    BY <1>6, <2>1, FollowRead, FollowSave, FollowRewire DEF Work
<1>7. ASSUME NEW o \in Ops, NEW kind \in Kinds, NEW b \in Bindings, NEW write \in BOOLEAN,
             write => kind = "save", Request(o, kind, b, write)
      PROVE  FollowInv'
  <2>1. /\ \A q \in Ops : q # o => op'[q] = op[q]
        /\ op'[o] = [IdleOp EXCEPT !.pc = "wait", !.kind = kind, !.b = b, !.write = write]
        /\ op[o].pc = "idle"
    BY <1>0, <1>7 DEF Request
  <2>2. op'[o].pc = "wait" /\ op'[o].write = write /\ op'[o].kind = kind /\ op'[o].pol = None
    BY <2>1 DEF IdleOp
  <2>3. FollowOK(o)'
    BY <1>7, <2>2 DEF FollowOK
  <2>4. UNCHANGED <<bound, answers, findings, failedSaves>> /\ ~Owes(o)
    BY <1>7, <2>1 DEF Request, dbVars, Owes
  <2> QED
    BY <2>1, <2>3, <2>4, FollowQuiet
<1> QED
  BY <1>1, <1>2, <1>3, <1>4, <1>5, <1>6, <1>7, StepCases

LEMMA InitFollow == Init => FollowInv
<1> SUFFICES ASSUME Init PROVE FollowInv
  OBVIOUS
<1>1. \A o \in Ops : op[o].write = FALSE /\ op[o].pol = None /\ op[o].pc = "idle"
  BY DEF Init, IdleOp
<1>2. \A b \in Bindings : findings[b] = NoFindings /\ findings[b].pol = None
  BY DEF Init, NoFindings
<1>3. \A o \in Ops : FollowOK(o)
  BY <1>1 DEF FollowOK
<1> QED
  BY <1>2, <1>3 DEF FollowInv, Follows, NoFindingsOfOtherClasses

----------------------------------------------------------------------------
(* The invariant is inductive *)

\* Initially no process runs and nothing has been derived.
LEMMA InitInv == Init => Inv
<1> SUFFICES ASSUME Init PROVE Inv
  OBVIOUS
<1>1. TypeOK
  <2>1. /\ disk \in [Classes -> [ver : 1..MaxPolicy, present : BOOLEAN]]
        /\ engine \in [Instances -> [Classes -> 0..MaxPolicy]]
        /\ gen \in [Instances -> Nat] /\ up \in [Instances -> BOOLEAN]
    BY Bounds DEF Init
  <2>2. NoReload \in ReloadType /\ NoSweep \in SweepType
    BY Bounds DEF NoReload, ReloadType, NoSweep, SweepType
  <2>3. NoHashes \in [Classes -> Hashes]
    BY Bounds DEF NoHashes
  <2>4. NoInstall \in InstallType
    BY <2>3 DEF NoInstall, InstallType
  <2>5. NoFindings \in [pol : Hashes, ans : Answers] /\ 0 \in Answers /\ None \in Hashes
    BY Bounds DEF NoFindings, Answers
  <2>6. used \in UsedType
    BY Bounds DEF Init, UsedType
  <2> QED
    BY <2>1, <2>2, <2>4, <2>5, <2>6, IdleType, Bounds DEF Init, TypeOK
<1>2. \A o \in Ops : op[o] = IdleOp
  BY DEF Init
<1>3. IdleOp.pc = "idle" /\ IdleOp.kind = "none" /\ IdleOp.write = FALSE
  BY DEF IdleOp
<1>4. Named /\ LockInv
  BY <1>2, <1>3 DEF Named, LockInv, Holds
<1>5. OpInv
  BY <1>2, <1>3 DEF OpInv, OpOK
<1>6. AnswersInv
  <2>1. Pending = {}
    BY <1>2, <1>3 DEF Pending
  <2>2. Cardinality(Pending) = 0
    BY <2>1, FS_EmptySet
  <2>3. used.requests = 0 /\ \A b \in Bindings : answers[b] = 0
    BY DEF Init
  <2> QED
    BY <2>2, <2>3 DEF AnswersInv
<1>7. /\ \A c \in Classes : disk[c].ver = 1 /\ disk[c].present /\ hash[c] = None
      /\ \A i \in Instances, c \in Classes : engine[i][c] = 0 /\ install[i].hashes[c] = None
      /\ \A i \in Instances : ~reload[i].on
  BY Bounds DEF Init, NoInstall, NoHashes, NoReload
<1>8. DiskInv
  BY <1>7 DEF DiskInv
<1>9. \A i \in Instances, c \in Classes : Reached(i, c, None)
  BY <1>7, Bounds DEF Reached
<1>10. HashInv
  BY <1>7, <1>9 DEF HashInv
<1>11. DbInv
  <2>1. \A b \in Bindings : findings[b] = NoFindings /\ findings[b].pol = None /\ stamp[b] = None
    BY DEF Init, NoFindings
  <2>2. bound \subseteq Bindings /\ \A b \in Bindings : ClassOf[b] \in Classes
    BY Bounds DEF Init
  <2> QED
    BY <1>9, <2>1, <2>2, Bounds DEF DbInv, StampNeverNewer, NoFindingsOfOtherClasses
<1> QED
  BY <1>1, <1>4, <1>5, <1>6, <1>8, <1>10, <1>11 DEF Inv

\* The invariant is inductive.
LEMMA InvStep ==
    ASSUME OneInstance, SteadyDisk, Inv, [Next]_vars
    PROVE  Inv'
<1>1. TypeOK'
  BY TypeStep DEF Inv
<1>2. Named' /\ LockInv'
  BY NamedStep, LockStep DEF Inv
<1>3. AnswersInv'
  BY AnswersStep DEF Inv
<1>4. DiskInv' /\ Advance
  BY PolicyStep DEF Inv
<1>5. HashInv'
  BY <1>1, <1>4, HashStep DEF Inv
<1>6. OpInv' /\ DbInv'
  BY <1>1, <1>4, DataStep DEF Inv
<1> QED
  BY <1>1, <1>2, <1>3, <1>4, <1>5, <1>6 DEF Inv

----------------------------------------------------------------------------
(* Stamps name the policy of the findings *)

\* A failure is never forgotten.
LEMMA FailuresCounted ==
    ASSUME TypeOK, TypeOK', [Next]_vars, NothingFailed'
    PROVE  /\ NothingFailed
           /\ \A i \in Instances : ~Crash(i)
           /\ \A o \in Ops : ~StampFail(o) /\ ~Fail(o)
<1>0. used \in UsedType /\ used' \in UsedType
  BY DEF TypeOK
<1>1. \/ used' = used
      \/ used' = [used EXCEPT !.requests = @ + 1]
      \/ used' = [used EXCEPT !.resets = @ + 1]
      \/ used' = [used EXCEPT !.crashes = @ + 1]
      \/ used' = [used EXCEPT !.fails = @ + 1]
      \/ used' = [used EXCEPT !.sweepFails = @ + 1]
  <2>1. ASSUME NEW o \in Ops, OpStep(o) PROVE used' = used
    BY <2>1 DEF OpStep, Enter, Reread, WriteAttributes, Preflight, GetModule, ReadAnswers, Evaluate,
                WriteFindings, Vouch, Stamp, Rewire, Release
  <2>2. ASSUME NEW i \in Instances, Boot(i) \/ InstallStep(i) \/ SweepStep(i)
        PROVE  used' = used \/ used' = [used EXCEPT !.fails = @ + 1]
    BY <2>2 DEF Boot, InstallStep, SweepStep, Swap, StartReset, InstallMetadata, InstallNotify,
                InstallSkip, InstallWrite, SweepReadPage, SweepEnd, SweepNext
  <2>3. ASSUME NEW c \in Classes, Deploy(c) \/ MoveFile(c) PROVE used' = used
    BY <2>3 DEF Deploy, MoveFile
  <2>4. ASSUME NEW i \in Instances, Probe(i) PROVE used' = used
    BY <2>4 DEF Probe
  <2>5. ASSUME NEW i \in Instances, Reload(i) \/ CatchUp(i)
        PROVE  used' = [used EXCEPT !.resets = @ + 1]
    BY <2>5 DEF Reload, CatchUp
  <2>6. ASSUME NEW i \in Instances, Crash(i) PROVE used' = [used EXCEPT !.crashes = @ + 1]
    BY <2>6 DEF Crash
  <2>7. ASSUME NEW i \in Instances, InstallFail(i) PROVE used' = [used EXCEPT !.fails = @ + 1]
    BY <2>7 DEF InstallFail
  <2>8. ASSUME NEW i \in Instances, SweepFail(i) PROVE used' = [used EXCEPT !.sweepFails = @ + 1]
    BY <2>8 DEF SweepFail
  <2>9. ASSUME NEW i \in Instances, NEW W \in SUBSET Classes, InstallWrite(i, W)
        PROVE  used' = used \/ used' = [used EXCEPT !.fails = @ + 1]
    BY <2>9 DEF InstallWrite
  <2>10. ASSUME NEW o \in Ops, StampFail(o) \/ Fail(o) PROVE used' = [used EXCEPT !.fails = @ + 1]
    BY <2>10 DEF StampFail, Fail
  <2>11. ASSUME NEW o \in Ops, NEW kind, NEW b, NEW write, Request(o, kind, b, write)
         PROVE  used' = [used EXCEPT !.requests = @ + 1]
    BY <2>11 DEF Request
  <2>12. CASE UNCHANGED vars
    BY <2>12 DEF vars
  <2> QED
    BY <2>1, <2>2, <2>3, <2>4, <2>5, <2>6, <2>7, <2>8, <2>9, <2>10, <2>11, <2>12
       DEF Next, Environment
<1>2. NothingFailed
  BY <1>0, <1>1 DEF NothingFailed, UsedType
<1>3. ASSUME NEW i \in Instances, Crash(i) PROVE FALSE
  BY <1>0, <1>2, <1>3 DEF Crash, NothingFailed, UsedType
<1>4. ASSUME NEW o \in Ops, StampFail(o) \/ Fail(o) PROVE FALSE
  BY <1>0, <1>2, <1>4 DEF StampFail, Fail, NothingFailed, UsedType
<1> QED
  BY <1>2, <1>3, <1>4

\* What the module vouches for is the policy that was evaluated: the hash read
\* first is not newer, the compiled policy is not older, and they are equal.
LEMMA VouchNames ==
    ASSUME Inv, NEW o \in Ops, op[o].pc = "vouch"
    PROVE  HashToStamp(o) \in {None, op[o].pol}
<1> DEFINE i == o[1]
           c == ClassOf[op[o].b]
<1>0. /\ i \in Instances /\ op[o].b \in Bindings /\ c \in Classes
      /\ op[o].hash \in Hashes /\ op[o].pol \in Hashes
  BY OpFields DEF Inv, Holds
<1>1. Reached(i, c, op[o].pol) /\ op[o].hash <= op[o].pol
  BY DEF Inv, OpInv, OpOK
<1>2. /\ engine[i][c] \in 0..MaxPolicy /\ disk[c].ver \in 1..MaxPolicy /\ disk[c].present
  BY <1>0 DEF Inv, TypeOK, DiskInv
<1>3. DiskPolicy(c) # NoPolicy
  BY <1>2, Bounds DEF DiskPolicy
<1>4. ReportedHash(o) # None => ReportedHash(o) = engine[i][c] /\ engine[i][c] # NoPolicy
  BY <1>3 DEF ReportedHash
<1>5. CASE ReportedHash(o) = op[o].hash /\ op[o].hash # None
  BY <1>0, <1>1, <1>2, <1>4, <1>5, Bounds DEF Reached, HashToStamp
<1>6. CASE ~(ReportedHash(o) = op[o].hash /\ op[o].hash # None)
  BY <1>6 DEF HashToStamp
<1> QED
  BY <1>5, <1>6

\* A binding whose stamp and findings are left alone stays named, as long as
\* nobody stops correcting it.
LEMMA StampNamedKept ==
    ASSUME NEW x, StampNamed(x), Untouched(x),
           \A o \in Ops : (op[o].b = x /\ Corrects(o)) => (op'[o].b = x /\ Corrects(o)')
    PROVE  StampNamed(x)'
<1>1. (\E o \in Ops : op[o].b = x /\ Corrects(o)) => \E o \in Ops : op'[o].b = x /\ Corrects(o)'
  OBVIOUS
<1> QED
  BY <1>1 DEF StampNamed, Untouched

\* A step that leaves every binding alone, by an operation that corrects no
\* stamp or still does.
LEMMA NameQuiet ==
    ASSUME NameInv, NothingFailed' => NothingFailed, UNCHANGED <<bound, findings, stamp>>,
           \A o \in Ops : op'[o] = op[o] \/
              (NamesPolicy(o)' /\ (Corrects(o) => (op'[o].b = op[o].b /\ Corrects(o)')))
    PROVE  NameInv'
<1>1. \A x : Untouched(x)
  BY DEF Untouched
<1>2. \A o \in Ops : NamesPolicy(o)'
  BY DEF NameInv, NamesPolicy
<1>3. \A o \in Ops : Corrects(o) => (op'[o].b = op[o].b /\ Corrects(o)')
  BY DEF Corrects
<1>4. ASSUME NothingFailed', NEW x \in bound' PROVE StampNamed(x)'
  <2>1. StampNamed(x)
    BY <1>4 DEF NameInv
  <2> QED
    BY <1>1, <1>3, <2>1, StampNamedKept
<1> QED
  BY <1>2, <1>4 DEF NameInv

\* The steps of an operation.
LEMMA NameWork ==
    ASSUME OneInstance, Inv, NameInv, TypeOK', NEW o \in Ops, Work(o),
           NothingFailed' => NothingFailed /\ ~StampFail(o) /\ ~Fail(o)
    PROVE  NameInv'
<1>0. /\ op \in [Ops -> OpType] /\ op[o] \in OpType /\ NamesPolicy(o) /\ OpOK(o)
      /\ stamp \in [Bindings -> Hashes] /\ findings \in [Bindings -> [pol : Hashes, ans : Answers]]
  BY DEF Inv, TypeOK, NameInv, OpInv
<1>1. /\ op'[o].b = op[o].b /\ op'[o].kind = op[o].kind
      /\ \A q \in Ops : q # o => op'[q] = op[q]
      /\ op[o].b \in Bindings
  BY WorkContinues DEF Inv, Continues, Named
<1>b. PICK b \in Bindings : b = op[o].b
  BY <1>1
<1>2. ASSUME UNCHANGED <<bound, findings, stamp>>, NamesPolicy(o)', Corrects(o) => Corrects(o)'
      PROVE  NameInv'
  BY <1>1, <1>2, NameQuiet
<1>3. ASSUME NEW x \in Bindings, x # b, Untouched(x), StampNamed(x) PROVE StampNamed(x)'
  <2>1. \A q \in Ops : (op[q].b = x /\ Corrects(q)) => (op'[q].b = x /\ Corrects(q)')
    BY <1>1, <1>3, <1>b DEF Corrects
  <2> QED
    BY <1>3, <2>1, StampNamedKept
<1>4. CASE Reread(o) \/ WriteAttributes(o) \/ GetModule(o) \/ ReadAnswers(o) \/ Preflight(o)
  <2>1. /\ UNCHANGED <<bound, findings, stamp>> /\ ~Corrects(o)
        /\ op'[o].pc \in {"attributes", "release", "module", "answers", "evaluate", "rewire"}
        /\ op'[o].pc = "rewire" => op[o].kind # "bind"
    <3>1. UNCHANGED <<bound, findings, stamp>> /\ ~Corrects(o)
      BY <1>4 DEF Reread, WriteAttributes, GetModule, ReadAnswers, Preflight, dbVars, Corrects
    <3>2. CASE Reread(o) \/ GetModule(o) \/ ReadAnswers(o)
      BY <1>0, <3>1, <3>2 DEF Reread, GetModule, ReadAnswers, OpType
    <3>3. CASE WriteAttributes(o)
      BY <1>0, <3>1, <3>3 DEF WriteAttributes, Refuse, OpType
    <3>4. CASE Preflight(o)
      BY <1>0, <3>1, <3>4 DEF Preflight, OpType
    <3> QED
      BY <1>4, <3>1, <3>2, <3>3, <3>4
  <2>2. NamesPolicy(o)'
    BY <1>1, <2>1 DEF NamesPolicy
  <2> QED
    BY <1>2, <2>1, <2>2
<1>5. CASE Evaluate(o)
  <2>1. /\ UNCHANGED <<bound, findings, stamp>> /\ ~Corrects(o)
        /\ op'[o].pc \in {"vouch", "findings", "release"}
    <3>1. /\ op[o].pc = "evaluate" /\ (Refuse(o) \/ \E p : Evaluated(o, p))
          /\ UNCHANGED <<bound, findings, stamp>>
      BY <1>5 DEF Evaluate, dbVars
    <3>2. op'[o].pc \in {"vouch", "findings", "release"}
      BY <1>0, <3>1, EvaluatedEffect, RefuseEffect
    <3> QED
      BY <3>1, <3>2 DEF Corrects
  <2>2. NamesPolicy(o)'
    BY <2>1 DEF NamesPolicy
  <2> QED
    BY <1>2, <2>1, <2>2
<1>6. CASE WriteFindings(o)
  <2>1. /\ op[o].pc = "findings" /\ op'[o].pc = "vouch" /\ bound' = bound /\ stamp' = stamp
        /\ \A x \in Bindings : x # b => findings'[x] = findings[x]
    BY <1>0, <1>6, <1>b DEF WriteFindings, OpType
  <2>2. Corrects(o)'
    BY <1>0, <1>1, <2>1 DEF OpOK, Corrects
  <2>3. \A q \in Ops : NamesPolicy(q)'
    BY <1>1, <2>1 DEF NamesPolicy, NameInv
  <2>4. ASSUME NothingFailed', NEW x \in bound' PROVE StampNamed(x)'
    <3>1. CASE x = b
      BY <1>1, <1>b, <2>2, <3>1 DEF StampNamed
    <3>2. CASE x # b
      <4>1. x \in Bindings /\ StampNamed(x) /\ Untouched(x)
        BY <2>1, <2>4, <3>2 DEF NameInv, Untouched, Inv, TypeOK
      <4> QED
        BY <1>3, <3>2, <4>1
    <3> QED
      BY <3>1, <3>2
  <2> QED
    BY <2>3, <2>4 DEF NameInv
<1>7. CASE Vouch(o)
  <2>1. /\ op[o].pc = "vouch" /\ op'[o].pc = IF op[o].kind = "bind" THEN "rewire" ELSE "stamp"
        /\ op'[o].pol = op[o].pol /\ op'[o].hash = HashToStamp(o)
        /\ UNCHANGED <<bound, findings, stamp>>
    BY <1>0, <1>7 DEF Vouch, OpType, dbVars
  <2>2. NamesPolicy(o)'
    BY <2>1, VouchNames DEF NamesPolicy
  <2>3. Corrects(o) => Corrects(o)'
    BY <1>1, <2>1 DEF Corrects
  <2> QED
    BY <1>2, <2>1, <2>2, <2>3
<1>8. CASE Stamp(o)
  <2>1. /\ op[o].pc = "stamp" /\ op'[o].pc = "release" /\ bound' = bound /\ findings' = findings
        /\ \A x \in Bindings : x # b => stamp'[x] = stamp[x]
        /\ b \in bound => stamp'[b] = op[o].hash
    BY <1>0, <1>8, <1>b DEF Stamp, OpType
  <2>2. op[o].hash \in {None, op[o].pol} /\ findings[b].pol = op[o].pol
    BY <1>0, <1>b, <2>1 DEF NamesPolicy, OpOK
  <2>3. \A q \in Ops : NamesPolicy(q)'
    BY <1>1, <2>1 DEF NamesPolicy, NameInv
  <2>4. ASSUME NothingFailed', NEW x \in bound' PROVE StampNamed(x)'
    <3>1. CASE x = b
      BY <2>1, <2>2, <2>4, <3>1 DEF StampNamed
    <3>2. CASE x # b
      <4>1. x \in Bindings /\ StampNamed(x) /\ Untouched(x)
        BY <2>1, <2>4, <3>2 DEF NameInv, Untouched, Inv, TypeOK
      <4> QED
        BY <1>3, <3>2, <4>1
    <3> QED
      BY <3>1, <3>2
  <2> QED
    BY <2>3, <2>4 DEF NameInv
<1>9. CASE StampFail(o) \/ Fail(o)
  <2>1. op'[o].pc = "release"
    BY <1>0, <1>9 DEF StampFail, Fail, Refuse, OpType
  <2>2. \A q \in Ops : NamesPolicy(q)'
    BY <1>1, <2>1 DEF NamesPolicy, NameInv
  <2> QED
    BY <1>9, <2>2 DEF NameInv
<1>10. CASE Rewire(o)
  <2>1. op[o].pc = "rewire" /\ op'[o].pc = "release"
    BY <1>0, <1>10 DEF Rewire, OpType
  <2>2. NamesPolicy(o)' /\ ~Corrects(o)
    BY <2>1 DEF NamesPolicy, Corrects
  <2>3. CASE UNCHANGED <<bound, findings, stamp>>
    BY <1>2, <2>2, <2>3
  <2>4. CASE ~UNCHANGED <<bound, findings, stamp>>
    <3>1. /\ bound' = (bound \ {x \in Bindings : SameElement(x, b)})
                        \cup (IF op[o].kind = "bind" THEN {b} ELSE {})
          /\ \A x \in Bindings : findings'[x] = Swept(o, x)
          /\ \A x \in Bindings :
                stamp'[x] = IF op[o].kind = "bind" /\ x = b THEN op[o].hash ELSE stamp[x]
      BY <1>10, <1>b, <2>4 DEF Rewire
    <3>2. \A q \in Ops : NamesPolicy(q)'
      BY <1>1, <2>1 DEF NamesPolicy, NameInv
    <3>3. ASSUME NothingFailed', NEW x \in bound' PROVE StampNamed(x)'
      <4>0. x \in Bindings
        BY <3>3 DEF TypeOK
      <4>1. CASE op[o].kind = "bind" /\ x = b
        <5>1. findings'[x].pol = op[o].pol
          BY <1>b, <3>1, <4>1 DEF Swept
        <5>2. stamp'[x] = op[o].hash /\ op[o].hash \in {None, op[o].pol}
          BY <1>0, <2>1, <3>1, <4>1 DEF NamesPolicy
        <5> QED
          BY <5>1, <5>2 DEF StampNamed
      <4>2. CASE ~(op[o].kind = "bind" /\ x = b)
        <5>1. ~SameElement(x, b) /\ x # b /\ x \in bound
          BY <3>1, <3>3, <4>0, <4>2 DEF SameElement
        <5>2. findings'[x] = findings[x]
          BY <1>b, <3>1, <4>0, <5>1 DEF Swept
        <5>3. StampNamed(x) /\ Untouched(x)
          BY <3>1, <3>3, <4>0, <5>1, <5>2 DEF NameInv, Untouched
        <5> QED
          BY <1>3, <4>0, <5>1, <5>3
      <4> QED
        BY <4>1, <4>2
    <3> QED
      BY <3>2, <3>3 DEF NameInv
  <2> QED
    BY <2>3, <2>4
<1> QED
  BY <1>4, <1>5, <1>6, <1>7, <1>8, <1>9, <1>10 DEF Work

LEMMA NameStep ==
    ASSUME OneInstance, SteadyDisk, Inv, NameInv, [Next]_vars
    PROVE  NameInv'
<1>0. op \in [Ops -> OpType] /\ TypeOK /\ TypeOK'
  BY InvStep DEF Inv, TypeOK
<1>f. NothingFailed' => /\ NothingFailed
                        /\ \A i \in Instances : ~Crash(i)
                        /\ \A o \in Ops : ~StampFail(o) /\ ~Fail(o)
  BY <1>0, FailuresCounted
<1>1. CASE Background
  BY <1>1, <1>f, NameQuiet DEF Background
<1>2. ASSUME NEW i \in Instances, Crash(i) PROVE NameInv'
  <2>1. \A o \in Ops : op'[o] = op[o] \/ op'[o] = IdleOp
    BY <1>2 DEF Crash
  <2>2. \A o \in Ops : NamesPolicy(o)'
    BY <2>1 DEF NamesPolicy, NameInv, IdleOp
  <2> QED
    BY <1>2, <1>f, <2>2 DEF NameInv
<1>3. ASSUME NEW i \in Instances, NEW b \in Bindings, SweepNext(i, b) PROVE NameInv'
  <2>1. /\ \A o \in Ops : o # <<i, Sweeper>> => op'[o] = op[o]
        /\ op'[<<i, Sweeper>>] = [IdleOp EXCEPT !.pc = "wait", !.kind = "sweep", !.b = b]
        /\ op[<<i, Sweeper>>].pc = "idle"
    BY <1>0, <1>3 DEF SweepNext, StartReevaluation, Ops
  <2>2. op'[<<i, Sweeper>>].pc = "wait"
    BY <2>1 DEF IdleOp
  <2>3. \A o \in Ops : op'[o] = op[o] \/ (NamesPolicy(o)' /\ ~Corrects(o))
    BY <2>1, <2>2 DEF NamesPolicy, Corrects
  <2>4. UNCHANGED <<bound, findings, stamp>>
    BY <1>3 DEF SweepNext, dbVars
  <2> QED
    BY <1>f, <2>3, <2>4, NameQuiet
<1>4. ASSUME NEW o \in Ops, Enter(o) PROVE NameInv'
  <2>1. /\ \A q \in Ops : q # o => op'[q] = op[q]
        /\ op'[o].pc \in {"reread", "attributes", "preflight"} /\ op[o].pc = "wait"
    BY <1>0, <1>4 DEF Enter, FirstStep, OpType
  <2>2. \A q \in Ops : op'[q] = op[q] \/ (NamesPolicy(q)' /\ ~Corrects(q))
    BY <2>1 DEF NamesPolicy, Corrects
  <2>3. UNCHANGED <<bound, findings, stamp>>
    BY <1>4 DEF Enter, dbVars
  <2> QED
    BY <1>f, <2>2, <2>3, NameQuiet
<1>5. ASSUME NEW o \in Ops, Release(o) PROVE NameInv'
  <2>1. op'[o] = IdleOp /\ op[o].pc = "release" /\ \A q \in Ops : q # o => op'[q] = op[q]
    BY <1>0, <1>5 DEF Release
  <2>2. \A q \in Ops : op'[q] = op[q] \/ (NamesPolicy(q)' /\ ~Corrects(q))
    BY <2>1 DEF NamesPolicy, Corrects, IdleOp
  <2>3. UNCHANGED <<bound, findings, stamp>>
    BY <1>5 DEF Release, dbVars
  <2> QED
    BY <1>f, <2>2, <2>3, NameQuiet
<1>6. ASSUME NEW o \in Ops, Work(o) PROVE NameInv'
  BY <1>0, <1>6, <1>f, NameWork
<1>7. ASSUME NEW o \in Ops, NEW kind \in Kinds, NEW b \in Bindings, NEW write \in BOOLEAN,
             Request(o, kind, b, write)
      PROVE  NameInv'
  <2>1. /\ \A q \in Ops : q # o => op'[q] = op[q]
        /\ op'[o] = [IdleOp EXCEPT !.pc = "wait", !.kind = kind, !.b = b, !.write = write]
        /\ op[o].pc = "idle"
    BY <1>0, <1>7 DEF Request
  <2>2. op'[o].pc = "wait"
    BY <2>1 DEF IdleOp
  <2>3. \A q \in Ops : op'[q] = op[q] \/ (NamesPolicy(q)' /\ ~Corrects(q))
    BY <2>1, <2>2 DEF NamesPolicy, Corrects
  <2>4. UNCHANGED <<bound, findings, stamp>>
    BY <1>7 DEF Request, dbVars
  <2> QED
    BY <1>f, <2>3, <2>4, NameQuiet
<1> QED
  BY <1>0, <1>1, <1>2, <1>3, <1>4, <1>5, <1>6, <1>7, StepCases

LEMMA InitNames == Init => NameInv
<1> SUFFICES ASSUME Init PROVE NameInv
  OBVIOUS
<1>1. \A o \in Ops : op[o].pc = "idle"
  BY DEF Init, IdleOp
<1>2. \A b \in bound : stamp[b] = None
  BY Bounds DEF Init
<1> QED
  BY <1>1, <1>2 DEF NameInv, NamesPolicy, StampNamed

----------------------------------------------------------------------------
(* The theorems *)

\* Every variable stays in its domain, whatever the instances and the module
\* directories do: a request's answer version is counted before it is written.
THEOREM TypesHold == Spec => []TypeOK
<1> DEFINE TInv == TypeOK /\ Named /\ AnswersInv
<1>1. Init => TInv
  BY InitInv DEF Inv
<1>2. TInv /\ [Next]_vars => TInv'
  BY TypeStep, NamedStep, AnswersStep
<1>3. TInv => TypeOK
  OBVIOUS
<1> QED
  BY <1>1, <1>2, <1>3, PTL DEF Spec

\* On one instance, the exclusion by element holds: no two operations that hold
\* their lock (runExclusive) are about one element.
THEOREM Exclusion == OneInstance /\ Spec => []LockInv
<1> SUFFICES ASSUME OneInstance PROVE Spec => []LockInv
  OBVIOUS
<1>1. Init => LockInv
  BY InitInv DEF Inv
<1>2. TypeOK /\ LockInv /\ [Next]_vars => LockInv'
  BY LockStep
<1> QED
  BY <1>1, <1>2, TypesHold, PTL DEF Spec

\* The inductive invariant of one instance on a steady module directory.
LEMMA InvHolds == OneInstance /\ SteadyDisk /\ Spec => []Inv
<1> SUFFICES ASSUME OneInstance, SteadyDisk PROVE Spec => []Inv
  OBVIOUS
<1>1. Init => Inv
  BY InitInv
<1>2. Inv /\ [Next]_vars => Inv'
  BY InvStep
<1> QED
  BY <1>1, <1>2, PTL DEF Spec

\* One instance whose module directory is replaced only between reloads never
\* writes a stamp newer than the findings it vouches for (policyHashToStamp and
\* the order of a save's transactions), for any number of elements, classes,
\* policies, users, crashes and failures.
THEOREM StampNeverNewerHolds == OneInstance /\ SteadyDisk /\ Spec => []StampNeverNewer
<1>1. Inv => StampNeverNewer
  BY DEF Inv, DbInv
<1> QED
  BY <1>1, InvHolds, PTL

\* The inductive invariant of one instance, whatever its module directory does.
LEMMA FollowHolds == OneInstance /\ Spec => [](TypeOK /\ FollowInv)
<1> SUFFICES ASSUME OneInstance PROVE Spec => [](TypeOK /\ FollowInv)
  OBVIOUS
<1> DEFINE FInv == TypeOK /\ Named /\ AnswersInv /\ LockInv /\ FollowInv
<1>1. Init => FInv
  BY InitInv, InitFollow DEF Inv
<1>2. FInv /\ [Next]_vars => FInv'
  BY TypeStep, NamedStep, AnswersStep, LockStep, FollowStep
<1>3. FInv => TypeOK /\ FollowInv
  OBVIOUS
<1> QED
  BY <1>1, <1>2, <1>3, PTL DEF Spec

\* On one instance, whatever crashes, fails or happens to the module directory,
\* no save, sweep or binding change leaves SYSTEM findings of a class the element
\* is not bound to (the element lock shared by setAttributes and
\* changeElementBinding).
THEOREM NoFindingsOfOtherClassesHolds ==
    OneInstance /\ Spec => []NoFindingsOfOtherClasses
<1>1. FollowInv => NoFindingsOfOtherClasses
  BY DEF FollowInv
<1> QED
  BY <1>1, FollowHolds, PTL

\* Under the same conditions the findings of an element at rest follow the
\* answers stored for it, or the caller of its last save was told that it failed
\* (runExclusive around the transactions of setAttributes).
THEOREM FindingsFollowAnswersHolds == OneInstance /\ Spec => []FindingsFollowAnswers
<1>1. TypeOK /\ FollowInv => FindingsFollowAnswers
  <2> SUFFICES ASSUME TypeOK, FollowInv, NEW b \in bound \ failedSaves, ~Locked(b),
                      findings[b].pol # None
               PROVE  findings[b].ans = answers[b]
    BY DEF FindingsFollowAnswers
  <2>1. b \in Bindings /\ Follows(b)
    BY DEF TypeOK, FollowInv
  <2>2. ASSUME NEW o \in Ops, op[o].b = b, Owes(o) PROVE FALSE
    BY <2>2 DEF Locked, Holds, SameElement, Owes
  <2> QED
    BY <2>1, <2>2 DEF Follows
<1> QED
  BY <1>1, FollowHolds, PTL

\* One instance whose module directory is replaced only between reloads stamps
\* exactly the policy it evaluated: while nothing failed and no operation runs on
\* an element, its stamp names the policy its findings follow, or there is none
\* (policyHashToStamp compares the hash read first with the module's own).
THEOREM StampNamesThePolicyHolds ==
    OneInstance /\ SteadyDisk /\ Spec => []StampNamesThePolicy
<1> SUFFICES ASSUME OneInstance, SteadyDisk PROVE Spec => []StampNamesThePolicy
  OBVIOUS
<1>1. Init => Inv /\ NameInv
  BY InitInv, InitNames
<1>2. Inv /\ NameInv /\ [Next]_vars => (Inv /\ NameInv)'
  BY InvStep, NameStep
<1>3. NameInv => StampNamesThePolicy
  <2> SUFFICES ASSUME NameInv, used.fails = 0 /\ used.crashes = 0,
                      NEW b \in bound, ~Locked(b), stamp[b] # None
               PROVE  stamp[b] = findings[b].pol
    BY DEF StampNamesThePolicy
  <2>1. ASSUME NEW o \in Ops, Corrects(o), op[o].b = b PROVE FALSE
    BY <2>1 DEF Locked, Holds, SameElement, Corrects
  <2> QED
    BY <2>1 DEF NameInv, NothingFailed, StampNamed
<1> QED
  BY <1>1, <1>2, <1>3, PTL DEF Spec
=============================================================================
