------------------------- MODULE MCFindingDerivation -------------------------
(* Small instances of FindingDerivation for TLC. *)
EXTENDS FindingDerivation, TLC

\* Two elements of one class, for paging and retries.
TwoElementsOf == [b \in 1..2 |-> b]
\* One element with two candidate classes, for binding changes.
OneElementOf == [b \in 1..2 |-> 1]
OneClassOf == [b \in 1..2 |-> "c1"]
TwoClassOf == [b \in 1..2 |-> IF b = 1 THEN "c1" ELSE "c2"]
\* One binding.
SingleElementOf == [b \in 1..1 |-> 1]
SingleClassOf == [b \in 1..1 |-> "c1"]

WorkerSymmetry == Permutations(Workers)
=============================================================================
