----------------------------- MODULE ElementMutex -----------------------------
(*****************************************************************************)
(* What SetInstantiationAttributesService.runExclusive promises its callers: *)
(* of the operations on one element, at most one runs at a time.  It does    *)
(* not promise an order among those that wait.                               *)
(*****************************************************************************)
EXTENDS FiniteSets

CONSTANT Callers        \* operations that may ask for the element

VARIABLES
    waiting,    \* callers that asked and do not run yet
    holding     \* callers whose operation runs

mutexVars == <<waiting, holding>>

Init == waiting = {} /\ holding = {}

Ask(c) ==
    /\ c \notin waiting \cup holding
    /\ waiting' = waiting \cup {c}
    /\ UNCHANGED holding

\* Either at once or after waiting.
Get(c) ==
    /\ holding = {}
    /\ holding' = {c}
    /\ waiting' = waiting \ {c}

\* Operations end, or die with their process.
Leave(S) ==
    /\ S # {}
    /\ holding' = holding \ S
    /\ waiting' = waiting \ S

Next ==
    \/ \E c \in Callers : Ask(c) \/ Get(c)
    \/ \E S \in SUBSET Callers : Leave(S)

Spec == Init /\ [][Next]_mutexVars
=============================================================================
