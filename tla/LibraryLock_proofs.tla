-------------------------- MODULE LibraryLock_proofs --------------------------
(***************************************************************************)
(* For any number of processes, crashes and failed links: as long as       *)
(* neither of acquireLock's two races has occurred, the lock file belongs  *)
(* to the one process that runs its action, and nobody else removes it.    *)
(***************************************************************************)
EXTENDS LibraryLock, TLAPS

\* A dead process makes no call.
CallInv == \A p \in Procs : p \notin alive => pc[p] = "idle"

\* A nonce tells the payloads in use apart, wherever they are kept.
InUse ==
  {lock, claim} \union {ours[p] : p \in Procs} \union {holder[p] : p \in Procs}
    \union {claimant[p] : p \in Procs}
NonceInv == \A a, b \in InUse : a.nonce = b.nonce => a = b

\* The holder a breaker goes by was found dead, and the dead do not come back.
StaleInv ==
  \A p \in Procs : pc[p] \in {"claim", "recheck"} => ~IsPidAlive(holder[p])

\* Until a race occurs the claim is its breaker's from recheck to drop, the lock
\* a breaker is about to remove is a dead process's, and the lock is its own
\* from the link that takes it to the unlink that gives it back.
ProtocolInv ==
  \A p \in Procs :
    /\ pc[p] \in Breaking => claim = ours[p]
    /\ pc[p] = "break" => ~IsPidAlive(lock) /\ lock # NoFile
    /\ (pc[p] \in Holding \/ pc[p] = "confirm" \/ won[p]) => lock = ours[p]
    /\ won[p] => pc[p] = "drop"

Inv ==
  /\ TypeOK /\ CallInv /\ NonceInv /\ StaleInv
  /\ ~raced => ProtocolInv

-----------------------------------------------------------------------------
\* What is in use is a file, and number 0 is no file's nonce.
LEMMA UseFacts ==
  ASSUME TypeOK
  PROVE  /\ InUse \subseteq Files
         /\ \A f \in Files : f.nonce = 0 => f = NoFile
         /\ NoFile \in Files /\ NoFile.nonce = 0
<1>1. InUse \subseteq Files
  BY DEF TypeOK, InUse
<1>2. \A f \in Payload : f.nonce # 0
  BY BoundsAssumption DEF Payload
<1> QED
  BY <1>1, <1>2 DEF Files, NoFile

\* Forgetting payloads keeps the rest apart.
LEMMA NoncesKept ==
  ASSUME TypeOK, NonceInv, InUse' \subseteq InUse \union {NoFile}
  PROVE  NonceInv'
BY UseFacts DEF NonceInv

\* So does a payload whose nonce is fresh.
LEMMA NonceAdded ==
  ASSUME TypeOK, NonceInv, NEW n \in FreshNonces, NEW f, f.nonce = n,
         InUse' \subseteq InUse \union {f}
  PROVE  NonceInv'
<1>1. \A a \in InUse : a.nonce \in NoncesInUse
  BY DEF InUse, NoncesInUse
<1>2. n \notin NoncesInUse
  BY DEF FreshNonces
<1> QED
  BY <1>1, <1>2 DEF NonceInv

\* A lock with the nonce of a payload in use is that payload.
LEMMA SameNonce ==
  ASSUME NonceInv, NEW p \in Procs
  PROVE  /\ lock.nonce = ours[p].nonce => lock = ours[p]
         /\ lock.nonce = holder[p].nonce => lock = holder[p]
BY DEF NonceInv, InUse

\* A call in progress is a live process's, and its payload is a file.
LEMMA CallFacts ==
  ASSUME TypeOK, CallInv
  PROVE  \A p \in Procs : pc[p] # "idle" =>
           p \in alive /\ ours[p] # NoFile /\ ours[p].pid = p /\ IsPidAlive(ours[p])
BY BoundsAssumption DEF TypeOK, OwnCalls, CallInv, Payload, NoFile, IsPidAlive

\* A call keeps its payload while it goes on and loses it at its end.
LEMMA OwnKept ==
  ASSUME TypeOK, NEW p \in Procs,
         \/ Forget(p)
         \/ ours' = ours /\ pc[p] # "idle" /\ \E step \in Steps \ {"idle"} : Goto(p, step)
  PROVE  OwnCalls'
<1>1. CASE Forget(p)
  BY <1>1 DEF TypeOK, OwnCalls, Forget, Goto
<1>2. CASE ours' = ours /\ pc[p] # "idle" /\ \E step \in Steps \ {"idle"} : Goto(p, step)
  BY <1>2 DEF TypeOK, OwnCalls, Goto
<1> QED
  BY <1>1, <1>2

\* The model directory has no lock at first.
LEMMA InitInv == Init => Inv
<1> SUFFICES ASSUME Init PROVE Inv
  OBVIOUS
<1>1. TypeOK
  <2>1. 0 \in 0..MaxFaults
    BY BoundsAssumption
  <2> QED
    BY <2>1 DEF Init, TypeOK, OwnCalls, Files, Steps
<1>2. CallInv /\ StaleInv /\ ProtocolInv
  BY DEF Init, CallInv, StaleInv, ProtocolInv, Breaking, Holding
<1>3. InUse = {NoFile}
  BY DEF Init, InUse
<1> QED
  BY <1>1, <1>2, <1>3 DEF Inv, NonceInv

\* The nonce of a new call is in no file and in no call.
LEMMA AcquireStep ==
  ASSUME Inv, NEW p \in Procs, Acquire(p)
  PROVE  Inv'
<1> PICK n \in FreshNonces :
       /\ ours' = [ours EXCEPT ![p] = [pid |-> p, nonce |-> n]]
       /\ \/ lock = NoFile /\ lock' = [pid |-> p, nonce |-> n] /\ Goto(p, "held")
          \/ lock # NoFile /\ lock' = lock /\ Goto(p, "inspect")
  BY DEF Acquire, OurPayload
<1> DEFINE mine == [pid |-> p, nonce |-> n]
<1>0. mine \in Payload /\ mine.pid = p /\ mine.nonce = n
  BY DEF FreshNonces, Payload
<1>1. TypeOK'
  BY <1>0 DEF Inv, TypeOK, OwnCalls, Acquire, Goto, Steps, Holding, Files
<1>2. CallInv'
  BY <1>0 DEF Inv, TypeOK, CallInv, Acquire, At, Goto
<1>3. NonceInv'
  <2>1. InUse' \subseteq InUse \union {mine}
    BY DEF Inv, TypeOK, InUse, Acquire, Goto
  <2> QED
    BY <1>0, <2>1, NonceAdded DEF Inv
<1>4. StaleInv'
  BY DEF Inv, TypeOK, StaleInv, IsPidAlive, Acquire, Goto
<1>5. ~raced' => ProtocolInv'
  <2>1. pc[p] = "idle" /\ UNCHANGED <<claim, alive, won, raced>>
    BY DEF Acquire, At
  <2>2. CASE lock = NoFile
    BY <2>1, <2>2, CallFacts DEF Inv, TypeOK, ProtocolInv, Breaking, Holding, Goto
  <2>3. CASE lock # NoFile
    BY <2>1, <2>3 DEF Inv, TypeOK, ProtocolInv, IsPidAlive, Breaking, Holding, Goto
  <2> QED
    BY <2>2, <2>3
<1> QED
  BY <1>1, <1>2, <1>3, <1>4, <1>5 DEF Inv

\* Reading the holder adds a payload that is in use already.
LEMMA InspectStep ==
  ASSUME Inv, NEW p \in Procs, Inspect(p)
  PROVE  Inv'
<1>1. TypeOK'
  BY DEF Inv, TypeOK, OwnCalls, Inspect, At, Goto, Steps, Breaking, Holding, Files
<1>2. CallInv'
  BY DEF Inv, TypeOK, CallInv, Inspect, At, Goto
<1>3. NonceInv'
  <2>1. InUse' \subseteq InUse \union {NoFile}
    BY DEF Inv, TypeOK, InUse, Inspect, At, Goto
  <2> QED
    BY <2>1, NoncesKept DEF Inv
<1>4. StaleInv'
  BY DEF Inv, TypeOK, StaleInv, IsPidAlive, Inspect, At, Goto
<1>5. ~raced' => ProtocolInv'
  BY CallFacts DEF Inv, TypeOK, ProtocolInv, IsPidAlive, Breaking, Holding,
     Inspect, At, Goto
<1> QED
  BY <1>1, <1>2, <1>3, <1>4, <1>5 DEF Inv

\* Only a holder found dead leads on to the break claim.
LEMMA ProbeStep ==
  ASSUME Inv, NEW p \in Procs, Probe(p)
  PROVE  Inv'
<1>1. TypeOK'
  <2>1. OwnCalls'
    BY OwnKept DEF Inv, Probe, At, Steps, Breaking, Holding
  <2> QED
    BY <2>1 DEF Inv, TypeOK, Probe, At, Goto, Forget, Steps, Breaking, Holding, Files
<1>2. CallInv'
  BY DEF Inv, TypeOK, CallInv, Probe, At, Goto, Forget
<1>3. NonceInv'
  <2>1. InUse' \subseteq InUse \union {NoFile}
    BY DEF Inv, TypeOK, InUse, Probe, At, Goto, Forget
  <2> QED
    BY <2>1, NoncesKept DEF Inv
<1>4. StaleInv'
  BY DEF Inv, TypeOK, StaleInv, IsPidAlive, Probe, At, Goto, Forget
<1>5. ~raced' => ProtocolInv'
  BY CallFacts DEF Inv, TypeOK, ProtocolInv, IsPidAlive, Breaking, Holding,
     Probe, At, Goto, Forget
<1> QED
  BY <1>1, <1>2, <1>3, <1>4, <1>5 DEF Inv

\* link(2) gives the claim to one breaker at a time.
LEMMA ClaimStep ==
  ASSUME Inv, NEW p \in Procs, Claim(p)
  PROVE  Inv'
<1>1. TypeOK'
  BY DEF Inv, TypeOK, OwnCalls, Claim, At, Goto, Steps, Breaking, Holding, Files
<1>2. CallInv'
  BY DEF Inv, TypeOK, CallInv, Claim, At, Goto
<1>3. NonceInv'
  <2>1. InUse' \subseteq InUse \union {NoFile}
    BY DEF Inv, TypeOK, InUse, Claim, At, Goto
  <2> QED
    BY <2>1, NoncesKept DEF Inv
<1>4. StaleInv'
  BY DEF Inv, TypeOK, StaleInv, IsPidAlive, Claim, At, Goto
<1>5. ~raced' => ProtocolInv'
  BY CallFacts DEF Inv, TypeOK, ProtocolInv, IsPidAlive, Breaking, Holding,
     Claim, At, Goto
<1> QED
  BY <1>1, <1>2, <1>3, <1>4, <1>5 DEF Inv

\* Reading the claimant changes nothing that is shared.
LEMMA InspectClaimStep ==
  ASSUME Inv, NEW p \in Procs, InspectClaim(p)
  PROVE  Inv'
<1>1. TypeOK'
  BY DEF Inv, TypeOK, OwnCalls, InspectClaim, At, Goto, Steps, Breaking, Holding, Files
<1>2. CallInv'
  BY DEF Inv, TypeOK, CallInv, InspectClaim, At, Goto
<1>3. NonceInv'
  <2>1. InUse' \subseteq InUse \union {NoFile}
    BY DEF Inv, TypeOK, InUse, InspectClaim, At, Goto
  <2> QED
    BY <2>1, NoncesKept DEF Inv
<1>4. StaleInv'
  BY DEF Inv, TypeOK, StaleInv, IsPidAlive, InspectClaim, At, Goto
<1>5. ~raced' => ProtocolInv'
  BY CallFacts DEF Inv, TypeOK, ProtocolInv, IsPidAlive, Breaking, Holding,
     InspectClaim, At, Goto
<1> QED
  BY <1>1, <1>2, <1>3, <1>4, <1>5 DEF Inv

\* A live claimant ends the call.
LEMMA ProbeClaimStep ==
  ASSUME Inv, NEW p \in Procs, ProbeClaim(p)
  PROVE  Inv'
<1>1. TypeOK'
  <2>1. OwnCalls'
    BY OwnKept DEF Inv, ProbeClaim, At, Steps, Breaking, Holding
  <2> QED
    BY <2>1 DEF Inv, TypeOK, ProbeClaim, At, Goto, Forget, Steps, Breaking, Holding, Files
<1>2. CallInv'
  BY DEF Inv, TypeOK, CallInv, ProbeClaim, At, Goto, Forget
<1>3. NonceInv'
  <2>1. InUse' \subseteq InUse \union {NoFile}
    BY DEF Inv, TypeOK, InUse, ProbeClaim, At, Goto, Forget
  <2> QED
    BY <2>1, NoncesKept DEF Inv
<1>4. StaleInv'
  BY DEF Inv, TypeOK, StaleInv, IsPidAlive, ProbeClaim, At, Goto, Forget
<1>5. ~raced' => ProtocolInv'
  BY CallFacts DEF Inv, TypeOK, ProtocolInv, IsPidAlive, Breaking, Holding,
     ProbeClaim, At, Goto, Forget
<1> QED
  BY <1>1, <1>2, <1>3, <1>4, <1>5 DEF Inv

\* A claim removed without a race was a dead process's, so no breaker relies on it.
LEMMA CleanClaimStep ==
  ASSUME Inv, NEW p \in Procs, CleanClaim(p)
  PROVE  Inv'
<1>1. TypeOK'
  BY DEF Inv, TypeOK, OwnCalls, CleanClaim, At, Goto, Forget, Steps, Breaking, Holding, Files
<1>2. CallInv'
  BY DEF Inv, TypeOK, CallInv, CleanClaim, At, Goto, Forget
<1>3. NonceInv'
  <2>1. InUse' \subseteq InUse \union {NoFile}
    BY DEF Inv, TypeOK, InUse, CleanClaim, At, Goto, Forget
  <2> QED
    BY <2>1, NoncesKept DEF Inv
<1>4. StaleInv'
  BY DEF Inv, TypeOK, StaleInv, IsPidAlive, CleanClaim, At, Goto, Forget
<1>5. ~raced' => ProtocolInv'
  <2> SUFFICES ASSUME ~raced' PROVE ProtocolInv'
    OBVIOUS
  <2>1. ~raced /\ ~IsPidAlive(claim)
    BY DEF Inv, TypeOK, CleanClaim
  <2>2. \A q \in Procs : pc[q] \notin Breaking
    BY <2>1, CallFacts DEF Inv, ProtocolInv, Breaking
  <2> QED
    BY <2>1, <2>2 DEF Inv, TypeOK, ProtocolInv, IsPidAlive, Breaking, Holding, CleanClaim,
       At, Goto, Forget
<1> QED
  BY <1>1, <1>2, <1>3, <1>4, <1>5 DEF Inv

\* The lock that passes the second look is the dead holder's, payload and all.
LEMMA RecheckStep ==
  ASSUME Inv, NEW p \in Procs, Recheck(p)
  PROVE  Inv'
<1>1. TypeOK'
  BY DEF Inv, TypeOK, OwnCalls, Recheck, At, Goto, Steps, Breaking, Holding, Files
<1>2. CallInv'
  BY DEF Inv, TypeOK, CallInv, Recheck, At, Goto
<1>3. NonceInv'
  <2>1. InUse' \subseteq InUse \union {NoFile}
    BY DEF Inv, TypeOK, InUse, Recheck, At, Goto
  <2> QED
    BY <2>1, NoncesKept DEF Inv
<1>4. StaleInv'
  BY DEF Inv, TypeOK, StaleInv, IsPidAlive, Recheck, At, Goto
<1>5. ~raced' => ProtocolInv'
  <2> SUFFICES ASSUME ~raced' PROVE ProtocolInv'
    OBVIOUS
  <2>1. ~raced /\ ~(lock = NoFile /\ holder[p] = NoFile)
    BY DEF Inv, TypeOK, Recheck
  <2>2. SameLock(p) => ~IsPidAlive(lock) /\ lock # NoFile
    BY <2>1, SameNonce DEF Inv, StaleInv, Recheck, At, SameLock
  <2>3. /\ pc[p] = "recheck"
        /\ SameLock(p) => pc' = [pc EXCEPT ![p] = "break"]
        /\ ~SameLock(p) => pc' = [pc EXCEPT ![p] = "drop"]
        /\ UNCHANGED <<lock, claim, alive, ours, won>>
    BY DEF Recheck, At, Goto
  <2>4. CASE SameLock(p)
    BY <2>1, <2>2, <2>3, <2>4 DEF Inv, TypeOK, ProtocolInv, IsPidAlive, Breaking, Holding
  <2>5. CASE ~SameLock(p)
    BY <2>1, <2>3, <2>5 DEF Inv, TypeOK, ProtocolInv, IsPidAlive, Breaking, Holding
  <2> QED
    BY <2>4, <2>5
<1> QED
  BY <1>1, <1>2, <1>3, <1>4, <1>5 DEF Inv

\* The breaker removes a dead process's lock, and no other breaker is at work.
LEMMA BreakStep ==
  ASSUME Inv, NEW p \in Procs, Break(p)
  PROVE  Inv'
<1>1. TypeOK'
  BY DEF Inv, TypeOK, OwnCalls, Break, At, Goto, Steps, Breaking, Holding, Files
<1>2. CallInv'
  BY DEF Inv, TypeOK, CallInv, Break, At, Goto
<1>3. NonceInv'
  <2>1. InUse' \subseteq InUse \union {NoFile}
    BY DEF Inv, TypeOK, InUse, Break, At, Goto
  <2> QED
    BY <2>1, NoncesKept DEF Inv
<1>4. StaleInv'
  BY DEF Inv, TypeOK, StaleInv, IsPidAlive, Break, At, Goto
<1>5. ~raced' => ProtocolInv'
  BY CallFacts DEF Inv, TypeOK, ProtocolInv, IsPidAlive, Breaking, Holding,
     Break, At, Goto
<1> QED
  BY <1>1, <1>2, <1>3, <1>4, <1>5 DEF Inv

\* The lock is linked only where there is none.
LEMMA TakeStep ==
  ASSUME Inv, NEW p \in Procs, Take(p)
  PROVE  Inv'
<1>1. TypeOK'
  BY DEF Inv, TypeOK, OwnCalls, Take, At, Goto, Steps, Breaking, Holding, Files
<1>2. CallInv'
  BY DEF Inv, TypeOK, CallInv, Take, At, Goto
<1>3. NonceInv'
  <2>1. InUse' \subseteq InUse \union {NoFile}
    BY DEF Inv, TypeOK, InUse, Take, At, Goto
  <2> QED
    BY <2>1, NoncesKept DEF Inv
<1>4. StaleInv'
  BY DEF Inv, TypeOK, StaleInv, IsPidAlive, Take, At, Goto
<1>5. ~raced' => ProtocolInv'
  BY CallFacts DEF Inv, TypeOK, ProtocolInv, IsPidAlive, Breaking, Holding,
     Take, At, Goto
<1> QED
  BY <1>1, <1>2, <1>3, <1>4, <1>5 DEF Inv

\* The nonce confirms that the lock is the breaker's own.
LEMMA ConfirmStep ==
  ASSUME Inv, NEW p \in Procs, Confirm(p)
  PROVE  Inv'
<1>1. TypeOK'
  BY DEF Inv, TypeOK, OwnCalls, Confirm, At, Goto, Steps, Breaking, Holding, Files
<1>2. CallInv'
  BY DEF Inv, TypeOK, CallInv, Confirm, At, Goto
<1>3. NonceInv'
  <2>1. InUse' \subseteq InUse \union {NoFile}
    BY DEF Inv, TypeOK, InUse, Confirm, At, Goto
  <2> QED
    BY <2>1, NoncesKept DEF Inv
<1>4. StaleInv'
  BY DEF Inv, TypeOK, StaleInv, IsPidAlive, Confirm, At, Goto
<1>5. ~raced' => ProtocolInv'
  BY SameNonce, CallFacts DEF Inv, TypeOK, ProtocolInv, IsPidAlive, Breaking, Holding,
     Confirm, At, Goto
<1> QED
  BY <1>1, <1>2, <1>3, <1>4, <1>5 DEF Inv

\* The breaker drops its own claim; the lock stays with it.
LEMMA DropClaimStep ==
  ASSUME Inv, NEW p \in Procs, DropClaim(p)
  PROVE  Inv'
<1>1. TypeOK'
  <2>1. OwnCalls'
    BY OwnKept DEF Inv, DropClaim, At, Steps, Breaking, Holding
  <2> QED
    BY <2>1 DEF Inv, TypeOK, DropClaim, At, Goto, Forget, Steps, Breaking, Holding, Files
<1>2. CallInv'
  BY DEF Inv, TypeOK, CallInv, DropClaim, At, Goto, Forget
<1>3. NonceInv'
  <2>1. InUse' \subseteq InUse \union {NoFile}
    BY DEF Inv, TypeOK, InUse, DropClaim, At, Goto, Forget
  <2> QED
    BY <2>1, NoncesKept DEF Inv
<1>4. StaleInv'
  BY DEF Inv, TypeOK, StaleInv, IsPidAlive, DropClaim, At, Goto, Forget
<1>5. ~raced' => ProtocolInv'
  BY CallFacts DEF Inv, TypeOK, ProtocolInv, IsPidAlive, Breaking, Holding,
     DropClaim, At, Goto, Forget
<1> QED
  BY <1>1, <1>2, <1>3, <1>4, <1>5 DEF Inv

\* A failed link ends the call or leads to the drop of the claim.
LEMMA LinkErrorStep ==
  ASSUME Inv, NEW p \in Procs, LinkError(p)
  PROVE  Inv'
<1>1. TypeOK'
  <2>1. faults' \in 0..MaxFaults
    BY BoundsAssumption DEF Inv, TypeOK, LinkError
  <2>2. OwnCalls'
    BY OwnKept DEF Inv, LinkError, At, Steps, Breaking
  <2>3. CASE Forget(p)
    BY <2>1, <2>2, <2>3 DEF Inv, TypeOK, LinkError, Goto, Forget, Steps, Files
  <2>4. CASE Goto(p, "drop") /\ UNCHANGED <<ours, holder, claimant, won>>
    BY <2>1, <2>2, <2>4 DEF Inv, TypeOK, LinkError, Goto, Steps, Breaking
  <2> QED
    BY <2>3, <2>4 DEF LinkError
<1>2. CallInv'
  BY DEF Inv, TypeOK, CallInv, LinkError, At, Goto, Forget
<1>3. NonceInv'
  <2>1. InUse' \subseteq InUse \union {NoFile}
    BY DEF Inv, TypeOK, InUse, LinkError, At, Goto, Forget
  <2> QED
    BY <2>1, NoncesKept DEF Inv
<1>4. StaleInv'
  BY DEF Inv, TypeOK, StaleInv, IsPidAlive, LinkError, At, Goto, Forget
<1>5. ~raced' => ProtocolInv'
  BY CallFacts DEF Inv, TypeOK, ProtocolInv, IsPidAlive, Breaking, Holding,
     LinkError, At, Goto, Forget
<1> QED
  BY <1>1, <1>2, <1>3, <1>4, <1>5 DEF Inv

\* releaseLock finds its own nonce.
LEMMA ReleaseReadStep ==
  ASSUME Inv, NEW p \in Procs, ReleaseRead(p)
  PROVE  Inv'
<1>1. TypeOK'
  <2>1. OwnCalls'
    BY OwnKept DEF Inv, ReleaseRead, At, Steps, Breaking, Holding
  <2> QED
    BY <2>1 DEF Inv, TypeOK, ReleaseRead, At, Goto, Forget, Steps, Breaking, Holding, Files
<1>2. CallInv'
  BY DEF Inv, TypeOK, CallInv, ReleaseRead, At, Goto, Forget
<1>3. NonceInv'
  <2>1. InUse' \subseteq InUse \union {NoFile}
    BY DEF Inv, TypeOK, InUse, ReleaseRead, At, Goto, Forget
  <2> QED
    BY <2>1, NoncesKept DEF Inv
<1>4. StaleInv'
  BY DEF Inv, TypeOK, StaleInv, IsPidAlive, ReleaseRead, At, Goto, Forget
<1>5. ~raced' => ProtocolInv'
  BY SameNonce, CallFacts DEF Inv, TypeOK, ProtocolInv, IsPidAlive, Breaking, Holding,
     ReleaseRead, At, Goto, Forget, OwnedLock
<1> QED
  BY <1>1, <1>2, <1>3, <1>4, <1>5 DEF Inv

\* releaseLock unlinks its own lock.
LEMMA ReleaseUnlinkStep ==
  ASSUME Inv, NEW p \in Procs, ReleaseUnlink(p)
  PROVE  Inv'
<1>1. TypeOK'
  BY DEF Inv, TypeOK, OwnCalls, ReleaseUnlink, At, Goto, Forget, Steps, Breaking, Holding, Files
<1>2. CallInv'
  BY DEF Inv, TypeOK, CallInv, ReleaseUnlink, At, Goto, Forget
<1>3. NonceInv'
  <2>1. InUse' \subseteq InUse \union {NoFile}
    BY DEF Inv, TypeOK, InUse, ReleaseUnlink, At, Goto, Forget
  <2> QED
    BY <2>1, NoncesKept DEF Inv
<1>4. StaleInv'
  BY DEF Inv, TypeOK, StaleInv, IsPidAlive, ReleaseUnlink, At, Goto, Forget
<1>5. ~raced' => ProtocolInv'
  BY CallFacts DEF Inv, TypeOK, ProtocolInv, IsPidAlive, Breaking, Holding,
     ReleaseUnlink, At, Goto, Forget
<1> QED
  BY <1>1, <1>2, <1>3, <1>4, <1>5 DEF Inv

\* A crash makes no dead process alive.
LEMMA CrashStep ==
  ASSUME Inv, NEW p \in Procs, Crash(p)
  PROVE  Inv'
<1>1. TypeOK'
  BY BoundsAssumption DEF Inv, TypeOK, OwnCalls, Crash, Goto, Forget, Steps, Breaking, Holding, Files
<1>2. CallInv'
  BY DEF Inv, TypeOK, CallInv, Crash, Goto, Forget
<1>3. NonceInv'
  <2>1. InUse' \subseteq InUse \union {NoFile}
    BY DEF Inv, TypeOK, InUse, Crash, Goto, Forget
  <2> QED
    BY <2>1, NoncesKept DEF Inv
<1>4. StaleInv'
  BY DEF Inv, TypeOK, StaleInv, IsPidAlive, Crash, Goto, Forget
<1>5. ~raced' => ProtocolInv'
  BY CallFacts DEF Inv, TypeOK, ProtocolInv, IsPidAlive, Breaking, Holding,
     Crash, Goto, Forget
<1> QED
  BY <1>1, <1>2, <1>3, <1>4, <1>5 DEF Inv

\* A step that changes nothing.
LEMMA StutterStep ==
  ASSUME Inv, UNCHANGED vars
  PROVE  Inv'
<1>1. TypeOK' /\ CallInv' /\ StaleInv'
  BY DEF Inv, TypeOK, OwnCalls, CallInv, StaleInv, IsPidAlive, vars
<1>2. NonceInv'
  BY DEF Inv, NonceInv, InUse, vars
<1>3. ~raced' => ProtocolInv'
  BY DEF Inv, ProtocolInv, IsPidAlive, vars
<1> QED
  BY <1>1, <1>2, <1>3 DEF Inv

\* Every step of every process keeps the invariant.
LEMMA InvStep == Inv /\ [Next]_vars => Inv'
<1> SUFFICES ASSUME Inv, [Next]_vars PROVE Inv'
  OBVIOUS
<1>1. CASE UNCHANGED vars
  BY <1>1, StutterStep
<1>2. CASE Next
  <2> PICK p \in Procs : Acquire(p) \/ Step(p) \/ LinkError(p) \/ Crash(p)
    BY <1>2 DEF Next
  <2>1. CASE Step(p)
    BY <2>1, InspectStep, ProbeStep, ClaimStep, InspectClaimStep, ProbeClaimStep,
       CleanClaimStep, RecheckStep, BreakStep, TakeStep, ConfirmStep, DropClaimStep,
       ReleaseReadStep, ReleaseUnlinkStep DEF Step
  <2> QED
    BY <2>1, AcquireStep, LinkErrorStep, CrashStep
<1> QED
  BY <1>1, <1>2

\* The invariant holds in every behaviour.
LEMMA InvHolds == Spec => []Inv
BY InitInv, InvStep, PTL DEF Spec

-----------------------------------------------------------------------------
\* Every variable of the lock protocol keeps its domain: only payloads that a
\* call wrote are ever found in the two files.
THEOREM TypesHold == Spec => []TypeOK
<1>1. Inv => TypeOK
  BY DEF Inv
<1> QED
  BY <1>1, InvHolds, PTL

\* As long as neither race of acquireLock has occurred, one process at most is
\* in its action and the lock file is its own, for any number of processes,
\* crashes and failed links.
THEOREM ExclusiveUnlessRacedHolds == Spec => []ExclusiveUnlessRaced
<1>1. Inv => ExclusiveUnlessRaced
  <2> SUFFICES ASSUME Inv, ~raced PROVE ExclusiveUnlessRaced
    BY DEF ExclusiveUnlessRaced
  <2>1. \A p \in Procs : pc[p] \in Holding => lock = ours[p] /\ lock.pid = p
    BY CallFacts DEF Inv, ProtocolInv, Holding
  <2>2. alive \subseteq Procs
    BY DEF Inv, TypeOK
  <2> QED
    BY <2>1, <2>2 DEF ExclusiveUnlessRaced, MutualExclusion
<1> QED
  BY <1>1, InvHolds, PTL

\* No path of acquireLock or releaseLock takes away the lock file of a live
\* process, but for that process's own releaseLock, unless a race has occurred.
THEOREM LiveLockKeptHolds == Spec => LiveLockKept
<1> DEFINE Kept == ~raced' /\ IsPidAlive(lock) /\ lock' # lock => ReleaseUnlink(lock.pid)
<1>1. Inv /\ [Next]_vars => [Kept]_vars
  <2> SUFFICES ASSUME Inv, Next, ~raced', IsPidAlive(lock), lock' # lock
               PROVE  ReleaseUnlink(lock.pid)
    OBVIOUS
  <2> PICK p \in Procs : Acquire(p) \/ Step(p) \/ LinkError(p) \/ Crash(p)
    BY DEF Next
  <2>1. lock # NoFile
    BY DEF IsPidAlive
  <2>2. Break(p) \/ ReleaseUnlink(p)
    BY <2>1 DEF Acquire, Step, LinkError, Crash, Inspect, Probe, Claim, InspectClaim,
       ProbeClaim, CleanClaim, Recheck, Take, Confirm, DropClaim, ReleaseRead
  <2>3. ~raced
    BY <2>2 DEF Break, ReleaseUnlink
  <2>4. ~Break(p)
    BY <2>3 DEF Inv, ProtocolInv, Break, At
  <2>5. ReleaseUnlink(p) => lock.pid = p
    BY <2>3, CallFacts DEF Inv, ProtocolInv, ReleaseUnlink, At, Holding
  <2> QED
    BY <2>2, <2>4, <2>5
<1> QED
  BY <1>1, InvHolds, PTL DEF Spec, LiveLockKept
=============================================================================
