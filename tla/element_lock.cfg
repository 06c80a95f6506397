SPECIFICATION FairSpec
CONSTANTS
  NCalls = 5
  Saves = {1, 2, 4, 5}
  MayShutDown = FALSE
CHECK_DEADLOCK FALSE
INVARIANTS TypeOK MutualExclusion
PROPERTIES ImplementsMutex EveryCallReturns
