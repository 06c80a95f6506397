---------------------------- MODULE MCElementLock ----------------------------
(* Small instances of ElementLock for TLC. *)
EXTENDS ElementLock
=============================================================================
