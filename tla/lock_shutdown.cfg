SPECIFICATION Spec
CONSTANTS
  NCalls = 3
  Saves = {1, 2}
  MayShutDown = TRUE
CHECK_DEADLOCK FALSE
INVARIANT NoConcurrentWriters
