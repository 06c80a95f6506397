----------------------------- MODULE LibraryLock -----------------------------
(***************************************************************************)
(* The advisory file lock around every manage_controls action of the      *)
(* control library (packages/dt-core/src/dt-control-library/               *)
(* lock-helper.ts).  The lock is a file that link(2) creates with its      *)
(* payload, pid and nonce, already in it; a lock whose pid is dead is      *)
(* broken under a second file, the break claim.  Every file-system call of *)
(* acquireLock and releaseLock is a step of its own, and a process may     *)
(* crash before any of them.  A process makes one call at a time.          *)
(*                                                                         *)
(* The random nonce is a number no file and no call holds: only equality   *)
(* of nonces matters, so finitely many numbers are used again and again.   *)
(* A lock file that is unreadable or holds no JSON does not occur: nothing *)
(* creates one.  The private temporary files have names of their own and   *)
(* are left out, and a variable of a call that is not read again is        *)
(* forgotten.                                                              *)
(***************************************************************************)
EXTENDS Naturals

CONSTANTS
  Procs,        \* the operating-system processes, one pid each
  MaxNonce,     \* nonces are 1..MaxNonce
  MaxFaults     \* how many processes may die and links fail, together

ASSUME BoundsAssumption ==
  /\ MaxNonce \in Nat /\ MaxFaults \in Nat
  /\ "none" \notin Procs

NoFile == [pid |-> "none", nonce |-> 0]
Payload == [pid : Procs, nonce : 1..MaxNonce]

VARIABLES
  lock,      \* .control-library.lock: a payload or NoFile
  claim,     \* .control-library.lock.breaking: a payload or NoFile
  alive,     \* the pids that process.kill(pid, 0) finds
  pc,        \* where each process is in acquireLock, its action, releaseLock
  ours,      \* the payload of each process's current call
  holder,    \* what readHolder() returned after the first EEXIST
  claimant,  \* what readHolder(claimPath) returned
  won,       \* whether the call confirmed its nonce under the claim
  faults,    \* crashes and failed links so far
  raced      \* history: a race that acquireLock does not close has occurred,
             \* an absent lock was taken for a corrupt one or a live process's
             \* claim was removed as abandoned

vars == <<lock, claim, alive, pc, ours, holder, claimant, won, faults, raced>>

\* acquireLock: link the lock, read its holder, probe the holder's pid, link
\* the claim, read and probe the claimant, clean an abandoned claim, check the
\* lock again, break it, take it, confirm, drop the claim; then the action
\* under the lock and releaseLock's read and unlink.
Breaking == {"recheck", "break", "take", "confirm", "drop"}
Holding == {"held", "unlock"}
Steps == {"idle", "inspect", "probe", "claim", "inspectClaim", "probeClaim",
          "clean"} \union Breaking \union Holding

Files == Payload \union {NoFile}

\* A call has a payload from its first link to its end, under the pid that runs
\* it: the pid that others probe.
OwnCalls ==
  \A p \in Procs :
    IF pc[p] = "idle" THEN ours[p] = NoFile ELSE ours[p] \in Payload /\ ours[p].pid = p

TypeOK ==
  /\ lock \in Files /\ claim \in Files
  /\ alive \subseteq Procs
  /\ pc \in [Procs -> Steps]
  /\ ours \in [Procs -> Files] /\ OwnCalls
  /\ holder \in [Procs -> Files] /\ claimant \in [Procs -> Files]
  /\ won \in [Procs -> BOOLEAN]
  /\ faults \in 0..MaxFaults
  /\ raced \in BOOLEAN

Init ==
  /\ lock = NoFile /\ claim = NoFile
  /\ alive = Procs
  /\ pc = [p \in Procs |-> "idle"]
  /\ ours = [p \in Procs |-> NoFile]
  /\ holder = [p \in Procs |-> NoFile]
  /\ claimant = [p \in Procs |-> NoFile]
  /\ won = [p \in Procs |-> FALSE]
  /\ faults = 0
  /\ raced = FALSE

-----------------------------------------------------------------------------
\* A call's nonce: a number that is in no file and in no variable of a call.
NoncesInUse ==
  {lock.nonce, claim.nonce}
    \union UNION {{ours[p].nonce, holder[p].nonce, claimant[p].nonce} : p \in Procs}
FreshNonces ==
  {n \in 1..MaxNonce : /\ n \notin NoncesInUse
                       /\ \A m \in 1..MaxNonce : m \notin NoncesInUse => n <= m}

\* Mutant: the lock names the process that started the server.
ParentPayload(p, n) == [pid |-> CHOOSE q \in Procs : q # p, nonce |-> n]
\* The lock names the process that takes it.
OurPayload(p, n) == [pid |-> p, nonce |-> n]

At(p, step) == p \in alive /\ pc[p] = step
Goto(p, step) == pc' = [pc EXCEPT ![p] = step]
\* process.kill(pid, 0): ESRCH for a dead process.  NoFile stands for undefined.
IsPidAlive(file) == file # NoFile /\ file.pid \in alive

\* A call that ends, by LockBusyError, by another error or by releaseLock,
\* leaves nothing behind in the process.
Forget(p) ==
  /\ Goto(p, "idle")
  /\ ours' = [ours EXCEPT ![p] = NoFile]
  /\ holder' = [holder EXCEPT ![p] = NoFile]
  /\ claimant' = [claimant EXCEPT ![p] = NoFile]
  /\ won' = [won EXCEPT ![p] = FALSE]

\* First attempt: link our payload to the lock path.
Acquire(p) ==
  /\ At(p, "idle")
  /\ \E n \in FreshNonces :
       LET mine == OurPayload(p, n)
       IN  /\ ours' = [ours EXCEPT ![p] = mine]
           /\ \/ lock = NoFile /\ lock' = mine /\ Goto(p, "held")
              \/ lock # NoFile /\ lock' = lock /\ Goto(p, "inspect")
  /\ UNCHANGED <<claim, alive, holder, claimant, won, faults, raced>>

\* EEXIST: read the holder.  An absent file reads as undefined, like a corrupt
\* one, and then no pid is probed.
Inspect(p) ==
  /\ At(p, "inspect")
  /\ holder' = [holder EXCEPT ![p] = lock]
  /\ Goto(p, IF lock = NoFile THEN "claim" ELSE "probe")
  /\ UNCHANGED <<lock, claim, alive, ours, claimant, won, faults, raced>>

Probe(p) ==
  /\ At(p, "probe")
  /\ \/ IsPidAlive(holder[p]) /\ Forget(p)
     \/ /\ ~IsPidAlive(holder[p]) /\ Goto(p, "claim")
        /\ UNCHANGED <<ours, holder, claimant, won>>
  /\ UNCHANGED <<lock, claim, alive, faults, raced>>

\* Link the break claim.
Claim(p) ==
  /\ At(p, "claim")
  /\ \/ claim = NoFile /\ claim' = ours[p] /\ Goto(p, "recheck")
        /\ holder' = holder
     \/ claim # NoFile /\ claim' = claim /\ Goto(p, "inspectClaim")
        /\ holder' = [holder EXCEPT ![p] = NoFile]
  /\ UNCHANGED <<lock, alive, ours, claimant, won, faults, raced>>

InspectClaim(p) ==
  /\ At(p, "inspectClaim")
  /\ claimant' = [claimant EXCEPT ![p] = claim]
  /\ Goto(p, IF claim = NoFile THEN "clean" ELSE "probeClaim")
  /\ UNCHANGED <<lock, claim, alive, ours, holder, won, faults, raced>>

ProbeClaim(p) ==
  /\ At(p, "probeClaim")
  /\ \/ IsPidAlive(claimant[p]) /\ Forget(p)
     \/ /\ ~IsPidAlive(claimant[p]) /\ Goto(p, "clean")
        /\ claimant' = [claimant EXCEPT ![p] = NoFile]
        /\ UNCHANGED <<ours, holder, won>>
  /\ UNCHANGED <<lock, claim, alive, faults, raced>>

\* Mutant: an abandoned claim is reported and left in place.
YieldOnly(p) ==
  /\ At(p, "clean")
  /\ Forget(p)
  /\ UNCHANGED <<lock, claim, alive, faults, raced>>
\* An abandoned claim is removed by its path and the call yields.
CleanClaim(p) ==
  /\ At(p, "clean")
  /\ claim' = NoFile
  /\ raced' = (raced \/ IsPidAlive(claim))
  /\ Forget(p)
  /\ UNCHANGED <<lock, alive, faults>>

\* Mutant: the lock found stale is broken without a second look.
AnyLock(p) == TRUE
\* current?.nonce === holder?.nonce, where undefined equals undefined.
SameLock(p) == lock.nonce = holder[p].nonce

\* Under the claim: the lock must still be the one found stale.
Recheck(p) ==
  /\ At(p, "recheck")
  /\ Goto(p, IF SameLock(p) THEN "break" ELSE "drop")
  /\ holder' = [holder EXCEPT ![p] = NoFile]
  /\ raced' = (raced \/ (lock = NoFile /\ holder[p] = NoFile))
  /\ UNCHANGED <<lock, claim, alive, ours, claimant, won, faults>>

Break(p) ==
  /\ At(p, "break")
  /\ lock' = NoFile
  /\ Goto(p, "take")
  /\ UNCHANGED <<claim, alive, ours, holder, claimant, won, faults, raced>>

\* A fresh acquirer may have been faster.
Take(p) ==
  /\ At(p, "take")
  /\ \/ lock = NoFile /\ lock' = ours[p] /\ Goto(p, "confirm")
     \/ lock # NoFile /\ lock' = lock /\ Goto(p, "drop")
  /\ UNCHANGED <<claim, alive, ours, holder, claimant, won, faults, raced>>

Confirm(p) ==
  /\ At(p, "confirm")
  /\ won' = [won EXCEPT ![p] = (lock.nonce = ours[p].nonce)]
  /\ Goto(p, "drop")
  /\ UNCHANGED <<lock, claim, alive, ours, holder, claimant, faults, raced>>

\* finally: the claim is removed by its path; the call returns or throws.
DropClaim(p) ==
  /\ At(p, "drop")
  /\ claim' = NoFile
  /\ \/ /\ won[p] /\ Goto(p, "held")
        /\ holder' = [holder EXCEPT ![p] = NoFile]
        /\ won' = [won EXCEPT ![p] = FALSE]
        /\ UNCHANGED <<ours, claimant>>
     \/ ~won[p] /\ Forget(p)
  /\ UNCHANGED <<lock, alive, faults, raced>>

\* placeOurPayload fails other than by EEXIST: the error leaves acquireLock,
\* through the finally block when the claim is held.
LinkError(p) ==
  /\ faults < MaxFaults /\ faults' = faults + 1
  /\ \/ (At(p, "claim") \/ At(p, "idle")) /\ Forget(p)
     \/ At(p, "take") /\ Goto(p, "drop") /\ UNCHANGED <<ours, holder, claimant, won>>
  /\ UNCHANGED <<lock, claim, alive, raced>>

\* The action is over: releaseLock reads the nonce, then unlinks by path.
OwnedLock(p) == lock.nonce = ours[p].nonce
ReleaseRead(p) ==
  /\ At(p, "held")
  /\ \/ /\ OwnedLock(p) /\ Goto(p, "unlock")
        /\ UNCHANGED <<ours, holder, claimant, won>>
     \/ ~OwnedLock(p) /\ Forget(p)
  /\ UNCHANGED <<lock, claim, alive, faults, raced>>

ReleaseUnlink(p) ==
  /\ At(p, "unlock")
  /\ lock' = NoFile
  /\ Forget(p)
  /\ UNCHANGED <<claim, alive, faults, raced>>

\* The process dies where it stands; its files stay.
Crash(p) ==
  /\ faults < MaxFaults /\ faults' = faults + 1
  /\ p \in alive /\ alive' = alive \ {p}
  /\ Forget(p)
  /\ UNCHANGED <<lock, claim, raced>>

Step(p) ==
  \/ Inspect(p) \/ Probe(p)
  \/ Claim(p) \/ InspectClaim(p) \/ ProbeClaim(p) \/ CleanClaim(p)
  \/ Recheck(p) \/ Break(p) \/ Take(p) \/ Confirm(p) \/ DropClaim(p)
  \/ ReleaseRead(p) \/ ReleaseUnlink(p)

Next == \E p \in Procs : Acquire(p) \/ Step(p) \/ LinkError(p) \/ Crash(p)

Spec == Init /\ [][Next]_vars

\* Calls run to their end, and the operator calls again.
Fairness == \A p \in Procs : WF_vars(Step(p)) /\ WF_vars(Acquire(p))
FairSpec == Spec /\ Fairness
-----------------------------------------------------------------------------
\* Two live processes never run a manage_controls action on one model
\* directory at the same time: "any one MCP action serialises against another"
\* (lock-helper.ts, lines 20-21).
MutualExclusion ==
  \A p, q \in alive : pc[p] \in Holding /\ pc[q] \in Holding => p = q

\* As long as neither race of acquireLock has occurred (an absent lock taken
\* for a corrupt one, a live claim removed as abandoned), one process at most
\* is in its action and the lock file is its own until it unlinks it, whatever
\* crashes, breakers, late cleaners and failed links do.
ExclusiveUnlessRaced ==
  ~raced =>
    /\ MutualExclusion
    /\ \A p \in alive : pc[p] \in Holding => lock = ours[p]

\* "A live holder's lock is never moved, renamed, or overwritten on any path"
\* (lock-helper.ts, lines 33-34): outside the two races, only the owner's
\* releaseLock takes away the lock file of a live process.
LiveLockKept ==
  [][~raced' /\ IsPidAlive(lock) /\ lock' # lock
       => ReleaseUnlink(lock.pid)]_vars

\* Crashed holders and crashed breakers do not block the library: as long as
\* neither race has occurred and callers try again, some call gets the lock,
\* again and again.  (After a race three processes can go on breaking each
\* other's lock.)
SomeCallGetsIn ==
  [](~raced) => []<>(\E p \in alive : pc[p] \in Holding)
=============================================================================
