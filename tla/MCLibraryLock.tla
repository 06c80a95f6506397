---------------------------- MODULE MCLibraryLock ----------------------------
EXTENDS LibraryLock, TLC

ProcSymmetry == Permutations(Procs)
=============================================================================
