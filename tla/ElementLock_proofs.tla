-------------------------- MODULE ElementLock_proofs --------------------------
(*****************************************************************************)
(* Until a shutdown, runExclusive excludes any number of calls from each     *)
(* other, implements the abstract mutex, and never has two saves in a batch; *)
(* whenever it comes, a record is removed by the operation it belongs to.    *)
(*****************************************************************************)
EXTENDS ElementLock, SequenceTheorems, TLAPS

\* The record names exactly the call that holds the element; at most one save
\* is queued, and it is that call; a batch is answered by and for its writer.
LockInv ==
    /\ TypeOK
    /\ Holding \subseteq {record}
    /\ record # NoCall => record \in Holding
    /\ Len(queue) <= 1
    /\ \A c \in Entries : pc[c] = "queued"
    /\ \A c \in Calls : pc[c] \in {"run", "written"} => batch[c] = {c}

\* What the type invariant says of the queue.
LEMMA QueueFacts ==
    ASSUME LockInv
    PROVE  /\ Len(queue) \in Nat
           /\ Len(queue) = 0 => queue = <<>> /\ Entries = {}
           /\ Len(queue) = 1 => queue[1] \in Saves /\ Entries = {queue[1]}
           /\ Len(queue) \in {0, 1}
           /\ Entries \subseteq Calls
<1>1. queue \in Seq(Saves)
  BY DEF LockInv, TypeOK
<1>2. Len(queue) \in Nat /\ Len(queue) <= 1
  BY <1>1, LenProperties DEF LockInv
<1>3. Len(queue) = 0 => queue = <<>>
  BY <1>1, EmptySeq
<1>4. \A n \in 1..Len(queue) : queue[n] \in Saves
  BY <1>1, ElementOfSeq
<1>5. Len(queue) \in {0, 1}
  <2>1. \A n \in Nat : n <= 1 => n \in {0, 1}
    OBVIOUS
  <2> QED
    BY <1>2, <2>1
<1>6. Len(queue) = 0 => Entries = {}
  <2>1. 1..0 = {}
    OBVIOUS
  <2> QED
    BY <2>1 DEF Entries
<1>7. Len(queue) = 1 => queue[1] \in Saves /\ Entries = {queue[1]}
  <2>1. 1..1 = {1}
    OBVIOUS
  <2> QED
    BY <1>4, <2>1 DEF Entries
<1>8. Entries \subseteq Calls
  BY <1>4, CallAssumption DEF Entries, Calls
<1> QED
  BY <1>2, <1>3, <1>5, <1>6, <1>7, <1>8

\* The state the service starts in satisfies the invariant.
LEMMA LockInit == Init => LockInv
<1> SUFFICES ASSUME Init PROVE LockInv
  OBVIOUS
<1>1. queue \in Seq(Saves) /\ Len(queue) = 0
  BY EmptySeq DEF Init
<1>2. pc \in [Calls -> Pcs] /\ batch \in [Calls -> SUBSET Calls]
  BY DEF Init, Pcs
<1>3. TypeOK
  BY <1>1, <1>2 DEF Init, TypeOK
<1>4. Holding = {} /\ Entries = {}
  BY <1>1 DEF Init, Holding, Entries
<1> QED
  BY <1>1, <1>3, <1>4 DEF Init, LockInv, Holding

\* A call that finds the element free takes it without disturbing the invariant.
LEMMA TakeStep ==
    ASSUME LockInv, NEW c \in Calls, pc[c] \in {"new", "wait"}, Free, Take(c),
           UNCHANGED <<stored, down>>
    PROVE  LockInv' /\ Holding' = {c} /\ Holding = {}
<1> USE CallAssumption
<1>0. Holding = {} /\ Entries = {} /\ c # NoCall /\ queue = <<>>
  <2>1. NoCall \notin Calls /\ c # NoCall
    BY DEF Calls, NoCall
  <2>2. Holding = {}
    BY <2>1 DEF LockInv, Free, Holding
  <2>3. Entries = {}
    BY <2>2, QueueFacts DEF LockInv, Holding
  <2> QED
    BY <2>1, <2>2, <2>3, QueueFacts
<1>1. CASE c \in Saves
  <2>2. pc' = [pc EXCEPT ![c] = "queued"] /\ queue' = <<c>> /\ timer' = TRUE
        /\ batch' = batch /\ record' = c
    BY <1>1, <1>0 DEF Take
  <2>3. queue' \in Seq(Saves) /\ Len(queue') = 1 /\ queue'[1] = c
    BY <1>1, <2>2
  <2>4. TypeOK'
    BY <2>2, <2>3 DEF LockInv, TypeOK, Pcs
  <2>5. Holding' = {c}
    BY <1>0, <2>2 DEF LockInv, TypeOK, Holding
  <2>6. Entries' = {c}
    BY <2>3 DEF Entries
  <2> QED
    BY <1>0, <2>2, <2>3, <2>4, <2>5, <2>6 DEF LockInv, TypeOK, Holding
<1>2. CASE c \notin Saves
  <2>2. pc' = [pc EXCEPT ![c] = "run"] /\ queue' = queue /\ timer' = timer
        /\ batch' = [batch EXCEPT ![c] = {c}] /\ record' = c
    BY <1>2 DEF Take
  <2>3. TypeOK'
    BY <2>2 DEF LockInv, TypeOK, Pcs
  <2>4. Holding' = {c}
    BY <1>0, <2>2 DEF LockInv, TypeOK, Holding
  <2>5. Entries' = {}
    BY <1>0, <2>2 DEF Entries
  <2> QED
    BY <1>0, <2>2, <2>3, <2>4, <2>5 DEF LockInv, TypeOK, Holding
<1> QED
  BY <1>1, <1>2

\* processBatch hands the element from the queued save to the same save writing.
LEMMA BatchStep ==
    ASSUME LockInv, ProcessBatch
    PROVE  LockInv' /\ Holding' = Holding /\ Waiting' = Waiting
<1> USE CallAssumption
<1> DEFINE last == queue[Len(queue)]
<1>1. Len(queue) = 1 /\ last \in Calls /\ Entries = {last} /\ pc[last] = "queued"
  <2>1. Len(queue) # 0
    BY QueueFacts DEF ProcessBatch
  <2> QED
    BY <2>1, QueueFacts DEF LockInv, Calls
<1>2. /\ pc' = [pc EXCEPT ![last] = "run"] /\ queue' = <<>> /\ timer' = FALSE
      /\ batch' = [batch EXCEPT ![last] = {last}]
      /\ UNCHANGED <<record, stored, down>>
  BY <1>1 DEF ProcessBatch
<1>3. queue' \in Seq(Saves) /\ Len(queue') = 0
  BY <1>2, EmptySeq
<1> HIDE DEF last
<1>4. TypeOK'
  BY <1>1, <1>2, <1>3 DEF LockInv, TypeOK, Pcs
<1>5. Holding' = Holding /\ Waiting' = Waiting
  BY <1>1, <1>2 DEF LockInv, TypeOK, Holding, Waiting
<1>6. Entries' = {}
  BY <1>3 DEF Entries
<1> QED
  BY <1>1, <1>2, <1>3, <1>4, <1>5, <1>6 DEF LockInv, TypeOK, Holding

\* A write keeps the element with its call.
LEMMA WriteStep ==
    ASSUME LockInv, NEW c \in Calls, Write(c)
    PROVE  LockInv' /\ Holding' = Holding /\ Waiting' = Waiting
<1> USE CallAssumption
<1>1. pc[c] = "run" /\ pc' = [pc EXCEPT ![c] = "written"]
      /\ UNCHANGED <<record, queue, timer, batch, down>> /\ stored' \in {c, stored}
  BY DEF Write
<1>2. TypeOK'
  BY <1>1 DEF LockInv, TypeOK, Pcs
<1>3. Holding' = Holding /\ Waiting' = Waiting
  BY <1>1 DEF LockInv, TypeOK, Holding, Waiting
<1>4. Entries' = Entries /\ c \notin Entries
  BY <1>1 DEF Entries, LockInv
<1>5. \A d \in Entries' : pc'[d] = "queued"
  BY <1>1, <1>4, QueueFacts DEF LockInv, TypeOK
<1> QED
  BY <1>1, <1>2, <1>3, <1>5 DEF LockInv, TypeOK

\* Ending an operation, or rejecting a queued save, frees the element.
LEMMA LeaveStep ==
    ASSUME LockInv, NEW c \in Calls, c \in Holding,
           pc' = [d \in Calls |-> IF d \in {c} THEN "done" ELSE pc[d]],
           record' = ReleasedRecord({c}),
           UNCHANGED <<batch, stored, down>>, timer' \in BOOLEAN,
           \/ queue' = queue /\ pc[c] # "queued"
           \/ queue' = <<>>
    PROVE  LockInv' /\ Holding' = {} /\ Holding = {c} /\ Waiting' = Waiting
<1> USE CallAssumption
<1>1. Holding = {c} /\ record = c
  BY DEF LockInv, Holding
<1>2. record' = NoCall
  BY <1>1 DEF ReleasedRecord
<1>3. Entries' = {} /\ queue' \in Seq(Saves) /\ Len(queue') <= 1
  <2>1. CASE queue' = queue /\ pc[c] # "queued"
    <3>1. Entries = {}
      BY <1>1, <2>1, QueueFacts DEF LockInv, Holding
    <3>2. Entries' = {}
      BY <2>1, <3>1 DEF Entries
    <3>3. queue' \in Seq(Saves) /\ Len(queue') <= 1
      BY <2>1 DEF LockInv, TypeOK
    <3> QED
      BY <3>2, <3>3
  <2>2. CASE queue' = <<>>
    <3>1. queue' \in Seq(Saves) /\ Len(queue') = 0
      BY <2>2, EmptySeq
    <3>2. Entries' = {}
      BY <3>1 DEF Entries
    <3> QED
      BY <3>1, <3>2
  <2> QED
    BY <2>1, <2>2
<1>4. TypeOK'
  BY <1>2, <1>3 DEF LockInv, TypeOK, Pcs
<1>5. Holding' = {} /\ Waiting' = Waiting
  BY <1>1 DEF LockInv, TypeOK, Holding, Waiting
<1> QED
  BY <1>1, <1>2, <1>3, <1>4, <1>5 DEF LockInv, TypeOK, Holding

\* Every step without a shutdown keeps the invariant and is a step, or a
\* stutter, of the abstract mutex.
LEMMA LockStep ==
    ASSUME ~ShutDown, LockInv, [Next]_vars
    PROVE  LockInv' /\ [Mutex!Next]_(Mutex!mutexVars)
<1> USE CallAssumption
<1> DEFINE AbstractStutter == Holding' = Holding /\ Waiting' = Waiting
<1>1. ASSUME NEW c \in Calls, Arrive(c)
      PROVE  LockInv' /\ Mutex!Next
  <2>1. CASE Free
    <3>1. pc[c] = "new" /\ Take(c) /\ UNCHANGED <<stored, down>>
      BY <1>1, <2>1 DEF Arrive
    <3>2. LockInv' /\ Holding' = {c} /\ Holding = {}
      BY <2>1, <3>1, TakeStep
    <3>3. Waiting' = Waiting \ {c}
      BY <3>1 DEF LockInv, TypeOK, Take, Waiting
    <3> QED
      BY <3>2, <3>3 DEF Mutex!Next, Mutex!Get
  <2>2. CASE ~Free
    <3>1. /\ pc[c] = "new" /\ pc' = [pc EXCEPT ![c] = "wait"]
          /\ UNCHANGED <<record, queue, timer, batch, stored, down>>
      BY <1>1, <2>2 DEF Arrive
    <3>2. TypeOK'
      BY <3>1 DEF LockInv, TypeOK, Pcs
    <3>3. Holding' = Holding /\ Waiting' = Waiting \cup {c} /\ c \notin Waiting \cup Holding
      BY <3>1 DEF LockInv, TypeOK, Holding, Waiting
    <3>4. Entries' = Entries /\ c \notin Entries
      BY <3>1 DEF Entries, LockInv
    <3>5. \A d \in Entries' : pc'[d] = "queued"
      BY <3>1, <3>4, QueueFacts DEF LockInv, TypeOK
    <3>6. LockInv'
      BY <3>1, <3>2, <3>3, <3>5 DEF LockInv, TypeOK
    <3> QED
      BY <3>3, <3>6 DEF Mutex!Next, Mutex!Ask
  <2> QED
    BY <2>1, <2>2
<1>2. ASSUME NEW c \in Calls, Poll(c)
      PROVE  LockInv' /\ Mutex!Next
  <2>1. pc[c] = "wait" /\ Free /\ Take(c) /\ UNCHANGED <<stored, down>>
    BY <1>2 DEF Poll
  <2>2. LockInv' /\ Holding' = {c} /\ Holding = {}
    BY <2>1, TakeStep
  <2>3. Waiting' = Waiting \ {c}
    BY <2>1 DEF LockInv, TypeOK, Take, Waiting
  <2> QED
    BY <2>2, <2>3 DEF Mutex!Next, Mutex!Get
<1>3. ASSUME NEW c \in Calls, Write(c)
      PROVE  LockInv' /\ AbstractStutter
  BY <1>3, WriteStep
<1>4. ASSUME NEW c \in Calls, Finish(c)
      PROVE  LockInv' /\ Mutex!Next
  <2>1. pc[c] = "written" /\ batch[c] = {c} /\ c \in Holding
    BY <1>4 DEF Finish, LockInv, Holding
  <2>2. LockInv' /\ Holding' = {} /\ Holding = {c} /\ Waiting' = Waiting
    BY <1>4, <2>1, LeaveStep DEF Finish, LockInv, TypeOK
  <2>3. Waiting' = Waiting \ {c}
    BY <2>1, <2>2 DEF Waiting
  <2> QED
    BY <2>2, <2>3 DEF Mutex!Next, Mutex!Leave
<1>5. ASSUME ProcessBatch
      PROVE  LockInv' /\ AbstractStutter
  BY <1>5, BatchStep
<1>6. ASSUME NEW n \in Calls, CleanUp(n)
      PROVE  LockInv' /\ Mutex!Next
  <2> DEFINE c == queue[1]
  <2>1. n = 1 /\ Len(queue) = 1 /\ c \in Calls /\ pc[c] = "queued"
    BY <1>6, QueueFacts DEF CleanUp, LockInv, Calls
  <2>2. {queue[k] : k \in 1..n} = {c}
    <3>1. 1..1 = {1}
      OBVIOUS
    <3> QED
      BY <2>1, <3>1
  <2>3. /\ pc' = [d \in Calls |-> IF d \in {c} THEN "done" ELSE pc[d]]
        /\ record' = ReleasedRecord({c}) /\ UNCHANGED <<batch, stored, down>>
        /\ timer' \in BOOLEAN
    BY <1>6, <2>2 DEF CleanUp
  <2>4. queue' = <<>>
    BY <1>6, <2>1, SubSeqEmpty DEF CleanUp
  <2>5. c \in Holding
    BY <2>1 DEF Holding
  <2> HIDE DEF c
  <2>6. LockInv' /\ Holding' = {} /\ Holding = {c} /\ Waiting' = Waiting
    BY <2>1, <2>3, <2>4, <2>5, LeaveStep
  <2>7. Waiting' = Waiting \ {c}
    BY <2>1, <2>6 DEF Waiting
  <2> QED
    BY <2>1, <2>6, <2>7 DEF Mutex!Next, Mutex!Leave
<1>7. ASSUME UNCHANGED vars
      PROVE  LockInv' /\ AbstractStutter
  <2>1. TypeOK' /\ Holding' = Holding /\ Waiting' = Waiting /\ Entries' = Entries
    BY <1>7 DEF vars, LockInv, TypeOK, Holding, Waiting, Entries
  <2> QED
    BY <1>7, <2>1 DEF vars, LockInv
<1> QED
  BY <1>1, <1>2, <1>3, <1>4, <1>5, <1>6, <1>7
     DEF Next, CallStep, Mutex!mutexVars

\* For any number of calls, and as long as the process is not shutting down, at
\* most one operation runs on an element: runExclusive's timers, polls and the
\* cleanup of stale batches never admit a second one.
THEOREM ExclusionTheorem == ~MayShutDown /\ Spec => []MutualExclusion
<1> SUFFICES ASSUME ~MayShutDown PROVE Spec => []MutualExclusion
  OBVIOUS
<1>1. LockInv /\ [Next]_vars => LockInv'
  BY LockStep DEF ShutDown
<1>2. LockInv => MutualExclusion
  BY DEF LockInv, MutualExclusion
<1> QED
  BY LockInit, <1>1, <1>2, PTL DEF Spec

\* Under the same condition runExclusive with its batching implements the
\* abstract mutex, step for step.
THEOREM RefinementTheorem == ~MayShutDown /\ Spec => ImplementsMutex
<1> SUFFICES ASSUME ~MayShutDown PROVE Spec => Mutex!Spec
  BY DEF ImplementsMutex
<1>1. Init => Mutex!Init
  BY DEF Init, Mutex!Init, Waiting, Holding
<1>2. LockInv /\ [Next]_vars => LockInv' /\ [Mutex!Next]_(Mutex!mutexVars)
  BY LockStep DEF ShutDown
<1> QED
  BY LockInit, <1>1, <1>2, PTL DEF Spec, Mutex!Spec

\* Under the same condition a batch never holds two saves: because a save is
\* queued only by the call that holds the element, the debounce of
\* setAttributesWithBatching delays every save and merges none.
THEOREM NoMergingTheorem == ~MayShutDown /\ Spec => [](Len(queue) <= 1)
<1> SUFFICES ASSUME ~MayShutDown PROVE Spec => [](Len(queue) <= 1)
  OBVIOUS
<1>1. LockInv /\ [Next]_vars => LockInv'
  BY LockStep DEF ShutDown
<1>2. LockInv => Len(queue) <= 1
  BY DEF LockInv
<1> QED
  BY LockInit, <1>1, <1>2, PTL DEF Spec

\* Whenever the process may be shut down: until onModuleDestroy runs, at most
\* one operation runs on an element.
THEOREM ExclusionUntilShutdown == Spec => [](~down => MutualExclusion)
<1> DEFINE UpInv == down \/ LockInv
<1>1. Init => UpInv
  BY LockInit
<1>2. UpInv /\ [Next]_vars => UpInv'
  <2> SUFFICES ASSUME UpInv, [Next]_vars, ~down' PROVE LockInv'
    OBVIOUS
  <2>1. ~ShutDown
    BY DEF ShutDown
  <2>2. ~down
    BY DEF vars, Next, CallStep, Arrive, Poll, Write, Finish, ProcessBatch, CleanUp, ShutDown
  <2> QED
    BY <2>1, <2>2, LockStep
<1>3. UpInv => (~down => MutualExclusion)
  BY DEF LockInv, MutualExclusion
<1> QED
  BY <1>1, <1>2, <1>3, PTL DEF Spec

\* Every step, the shutdown included, keeps every variable in its domain.
LEMMA TypeStep == TypeOK /\ [Next]_vars => TypeOK'
<1> SUFFICES ASSUME TypeOK, [Next]_vars PROVE TypeOK'
  OBVIOUS
<1> USE CallAssumption
<1>1. ASSUME NEW c \in Calls, Take(c), UNCHANGED <<stored, down>>
      PROVE  TypeOK'
  <2>1. CASE c \in Saves
    <3>1. queue' \in Seq(Saves)
      BY <1>1, <2>1, AppendProperties DEF Take, TypeOK
    <3> QED
      BY <1>1, <2>1, <3>1 DEF Take, TypeOK, Pcs
  <2>2. CASE c \notin Saves
    BY <1>1, <2>2 DEF Take, TypeOK, Pcs
  <2> QED
    BY <2>1, <2>2
<1>2. ASSUME NEW c \in Calls, Arrive(c)
      PROVE  TypeOK'
  <2>1. CASE Free
    BY <1>1, <1>2, <2>1 DEF Arrive
  <2>2. CASE ~Free
    BY <1>2, <2>2 DEF Arrive, TypeOK, Pcs
  <2> QED
    BY <2>1, <2>2
<1>3. ASSUME NEW c \in Calls, CallStep(c)
      PROVE  TypeOK'
  <2>1. CASE Poll(c)
    BY <1>1, <2>1 DEF Poll
  <2>2. CASE Write(c)
    BY <2>2 DEF Write, TypeOK, Pcs
  <2>3. CASE Finish(c)
    BY <2>3 DEF Finish, ReleasedRecord, TypeOK, Pcs
  <2> QED
    BY <1>3, <2>1, <2>2, <2>3 DEF CallStep
<1>4. ASSUME ProcessBatch
      PROVE  TypeOK'
  <2>1. Len(queue) \in 1..Len(queue)
    <3>1. Len(queue) \in Nat /\ Len(queue) # 0
      BY <1>4, LenProperties, EmptySeq DEF ProcessBatch, TypeOK
    <3> QED
      BY <3>1
  <2>2. queue[Len(queue)] \in Calls /\ Entries \subseteq Calls
    BY <2>1, ElementOfSeq DEF Entries, TypeOK, Calls
  <2>3. queue' \in Seq(Saves)
    BY <1>4, EmptySeq DEF ProcessBatch
  <2> QED
    BY <1>4, <2>2, <2>3 DEF ProcessBatch, TypeOK, Pcs
<1>5. ASSUME NEW n \in Calls, CleanUp(n)
      PROVE  TypeOK'
  <2>1. queue' \in Seq(Saves)
    <3>1. Len(queue) \in Nat /\ n \in 1..Len(queue)
      BY <1>5, LenProperties DEF CleanUp, TypeOK
    <3>2. \A k \in (n + 1)..Len(queue) : queue[k] \in Saves
      BY <3>1, ElementOfSeq DEF TypeOK
    <3> QED
      BY <1>5, <3>1, <3>2, SubSeqProperties DEF CleanUp, TypeOK
  <2> QED
    BY <1>5, <2>1 DEF CleanUp, ReleasedRecord, TypeOK, Pcs
<1>6. ASSUME ShutDown
      PROVE  TypeOK'
  BY <1>6 DEF ShutDown, TypeOK
<1>7. ASSUME UNCHANGED vars
      PROVE  TypeOK'
  BY <1>7 DEF vars, TypeOK
<1> QED
  BY <1>2, <1>3, <1>4, <1>5, <1>6, <1>7 DEF Next

\* Every variable of the element lock keeps its domain, whether the process is
\* shut down or not: only saves are ever queued, and a record names a call.
THEOREM TypesHold == Spec => []TypeOK
<1>1. Init => TypeOK
  BY LockInit DEF LockInv
<1> QED
  BY <1>1, TypeStep, PTL DEF Spec

\* For any number of calls and a shutdown at any time: a record that goes was
\* removed by the operation that created it, when it ended, or by the shutdown
\* itself (the finally block of runExclusive).
THEOREM OwnerReleasesTheorem == Spec => OnlyOwnerReleases
<1> DEFINE Owned ==
      (record # NoCall /\ record' # record) => (pc'[record] = "done" \/ down' # down)
<1>1. TypeOK /\ [Next]_vars => [Owned]_vars
  <2> SUFFICES ASSUME TypeOK, Next, record # NoCall, record' # record
               PROVE  pc'[record] = "done" \/ down' # down
    OBVIOUS
  <2>0. record \in Calls
    BY DEF TypeOK
  <2>1. \A c \in Calls : ~Arrive(c) /\ ~Poll(c) /\ ~Write(c)
    BY DEF Arrive, Poll, Write, Free
  <2>2. ~ProcessBatch
    BY DEF ProcessBatch
  <2>3. ASSUME NEW c \in Calls, Finish(c)
        PROVE  pc'[record] = "done"
    BY <2>0, <2>3 DEF Finish, ReleasedRecord
  <2>4. ASSUME NEW n \in Calls, CleanUp(n)
        PROVE  pc'[record] = "done"
    BY <2>0, <2>4 DEF CleanUp, ReleasedRecord
  <2>5. ASSUME ShutDown
        PROVE  down' # down
    BY <2>5 DEF ShutDown, TypeOK
  <2> QED
    BY <2>1, <2>2, <2>3, <2>4, <2>5 DEF Next, CallStep
<1> QED
  BY <1>1, TypesHold, PTL DEF Spec, OnlyOwnerReleases
=============================================================================
