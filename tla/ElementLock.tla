----------------------------- MODULE ElementLock -----------------------------
(*****************************************************************************)
(* runExclusive and the auto-save batching of                                *)
(* SetInstantiationAttributesService, for one element of one process.        *)
(*                                                                           *)
(* A call takes the element's record in concurrentOperations, or polls for   *)
(* it every 100 ms.  A save that holds the record does not write at once: it *)
(* queues its request, arms the debounce timer, and processBatch writes the  *)
(* last request queued.  A binding change or a sweep's save runs directly.   *)
(* Steps between two awaits are one action: nothing else runs in between.    *)
(*****************************************************************************)
EXTENDS Integers, Sequences, FiniteSets

CONSTANTS
    NCalls,         \* bound: calls, numbered in the order they arrive
    Saves,          \* the calls that are saves; the others run directly
    MayShutDown     \* whether the process is shut down while calls run

ASSUME CallAssumption ==
    /\ NCalls \in Nat
    /\ Saves \subseteq 1..NCalls
    /\ MayShutDown \in BOOLEAN

Calls == 1..NCalls
NoCall == 0

VARIABLES
    pc,         \* per call: where it is
    record,     \* concurrentOperations: the call whose record is there
    queue,      \* batchQueue: the saves waiting for the debounce timer
    timer,      \* batchTimeouts: whether the timer is armed
    batch,      \* per call: the saves processBatch answers when that one is written
    stored,     \* database: the save written last
    down        \* whether onModuleDestroy ran

vars == <<pc, record, queue, timer, batch, stored, down>>

Pcs == {"new", "wait", "queued", "run", "written", "done"}

Entries == {queue[n] : n \in 1..Len(queue)}

\* Every variable stays in its domain: a record names a call, and only saves
\* are queued.
TypeOK ==
    /\ pc \in [Calls -> Pcs]
    /\ record \in Calls \cup {NoCall}
    /\ queue \in Seq(Saves)
    /\ timer \in BOOLEAN
    /\ batch \in [Calls -> SUBSET Calls]
    /\ stored \in Calls \cup {NoCall}
    /\ down \in BOOLEAN

Init ==
    /\ pc = [c \in Calls |-> "new"]
    /\ record = NoCall
    /\ queue = <<>>
    /\ timer = FALSE
    /\ batch = [c \in Calls |-> {}]
    /\ stored = NoCall
    /\ down = FALSE

----------------------------------------------------------------------------

\* Mutation: binding changes and sweeps are debounced like saves.
TakeQueued(c) ==
    /\ record' = c
    /\ pc' = [pc EXCEPT ![c] = "queued"]
    /\ queue' = Append(queue, c)
    /\ timer' = TRUE
    /\ UNCHANGED batch

\* runExclusive with no record present: take it and start the operation.  For
\* a save that is setAttributesWithBatching.
Take(c) ==
    /\ record' = c
    /\ IF c \in Saves
       THEN /\ pc' = [pc EXCEPT ![c] = "queued"]
            /\ queue' = Append(queue, c)
            /\ timer' = TRUE
            /\ UNCHANGED batch
       ELSE /\ pc' = [pc EXCEPT ![c] = "run"]
            /\ batch' = [batch EXCEPT ![c] = {c}]
            /\ UNCHANGED <<queue, timer>>

\* Mutation: a caller does not look whether the element is taken.
AlwaysFree == TRUE

Free == record = NoCall

\* Calls arrive in the order of their numbers.
Arrive(c) ==
    /\ pc[c] = "new" /\ (\A d \in 1..(c-1) : pc[d] # "new")
    /\ IF Free THEN Take(c)
       ELSE /\ pc' = [pc EXCEPT ![c] = "wait"]
            /\ UNCHANGED <<record, queue, timer, batch>>
    /\ UNCHANGED <<stored, down>>

\* A waiting call's own interval finds the record gone: whoever polls first.
Poll(c) ==
    /\ pc[c] = "wait" /\ Free
    /\ Take(c)
    /\ UNCHANGED <<stored, down>>

\* processBatch: the last request queued is written, on behalf of all of them.
ProcessBatch ==
    /\ timer /\ queue # <<>>
    /\ timer' = FALSE
    /\ queue' = <<>>
    /\ LET last == queue[Len(queue)] IN
         /\ pc' = [pc EXCEPT ![last] = "run"]
         /\ batch' = [batch EXCEPT ![last] = Entries]
    /\ UNCHANGED <<record, stored, down>>

\* The operation's writes commit, or it fails without any.
Write(c) ==
    /\ pc[c] = "run"
    /\ pc' = [pc EXCEPT ![c] = "written"]
    /\ stored' \in (IF c \in Saves THEN {c, stored} ELSE {stored})
    /\ UNCHANGED <<record, queue, timer, batch, down>>

\* Mutation: the record is left behind.
KeptRecord(S) == record

\* Mutation: the record is removed whoever it belongs to.
BlindRelease(S) == NoCall

\* The finally of every call in S: remove the record only if it is its own.
ReleasedRecord(S) == IF record \in S THEN NoCall ELSE record

Finish(c) ==
    /\ pc[c] = "written"
    /\ pc' = [d \in Calls |-> IF d \in batch[c] THEN "done" ELSE pc[d]]
    /\ record' = ReleasedRecord(batch[c])
    /\ UNCHANGED <<queue, timer, batch, stored, down>>

\* cleanupStaleBatches rejects the n oldest requests queued; time is not
\* modelled, so any of them may be old enough.
CleanUp(n) ==
    LET old == {queue[k] : k \in 1..n} IN
    /\ ~down /\ n \in 1..Len(queue)
    /\ queue' = SubSeq(queue, n + 1, Len(queue))
    /\ timer' = (timer /\ n < Len(queue))
    /\ pc' = [c \in Calls |-> IF c \in old THEN "done" ELSE pc[c]]
    /\ record' = ReleasedRecord(old)
    /\ UNCHANGED <<batch, stored, down>>

\* onModuleDestroy: the timers and the records are cleared, the calls are not.
ShutDown ==
    /\ MayShutDown /\ ~down
    /\ down' = TRUE
    /\ timer' = FALSE
    /\ record' = NoCall
    /\ UNCHANGED <<pc, queue, batch, stored>>

----------------------------------------------------------------------------

CallStep(c) == Poll(c) \/ Write(c) \/ Finish(c)

Next ==
    \/ \E c \in Calls : Arrive(c) \/ CallStep(c)
    \/ ProcessBatch
    \/ \E n \in Calls : CleanUp(n)
    \/ ShutDown

Spec == Init /\ [][Next]_vars

\* A timer that is armed fires, a poll that finds the element free takes it, and
\* an operation that started ends; arrivals, cleanups and shutdown are not owed.
Fairness == WF_vars(ProcessBatch) /\ \A c \in Calls : WF_vars(CallStep(c))

FairSpec == Spec /\ Fairness

----------------------------------------------------------------------------
(* Properties *)

Holding == {c \in Calls : pc[c] \in {"queued", "run", "written"}}
Waiting == {c \in Calls : pc[c] = "wait"}

\* At most one operation runs on the element at any time, whatever timers,
\* polls and cleanups interleave (the comment on runExclusive: the record is
\* removed by the operation that created it, and by nothing else).
MutualExclusion == \A c, d \in Holding : c = d

\* The mechanism implements the abstract mutex.
Mutex == INSTANCE ElementMutex WITH Callers <- Calls, waiting <- Waiting, holding <- Holding

ImplementsMutex == Mutex!Spec

\* No two operations write the element at once.
NoConcurrentWriters ==
    \A c, d \in Calls : (pc[c] \in {"run", "written"} /\ pc[d] \in {"run", "written"}) => c = d

\* A record is removed by the operation that created it, when it ends, or by
\* the shutdown: an operation that outlives the shutdown never evicts the call
\* that took the element after it (the finally of runExclusive).
OnlyOwnerReleases ==
    [][(record # NoCall /\ record' # record) => (pc'[record] = "done" \/ down' # down)]_vars

\* Every call that arrived is answered: no lost record, dropped timer or
\* unanswered batch entry leaves a caller, or everyone behind it, waiting.
EveryCallReturns == \A c \in Calls : (pc[c] # "new") ~> (pc[c] = "done")

\* A sweep's save is answered even when the process shuts down around it: the
\* sweep's onModuleDestroy waits for it, so the shutdown would hang otherwise.
DirectCallsReturn == \A c \in Calls \ Saves : (pc[c] # "new") ~> (pc[c] = "done")

\* The answers stored are those of the latest save written: no older save
\* overwrites a newer one (the "Latest Wins" strategy of the auto-save).
LatestWins == [][stored' >= stored]_stored
=============================================================================
