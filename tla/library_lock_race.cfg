SPECIFICATION Spec
CONSTANTS
  Procs = {p1, p2}
  MaxNonce = 8
  MaxFaults = 0
CHECK_DEADLOCK FALSE
INVARIANT MutualExclusion
