SPECIFICATION FairSpec
CONSTANTS
  Procs = {p1, p2, p3}
  MaxNonce = 8
  MaxFaults = 2
CHECK_DEADLOCK FALSE
INVARIANTS TypeOK ExclusiveUnlessRaced
PROPERTIES LiveLockKept SomeCallGetsIn
