SPECIFICATION FairSpec
CONSTANTS
  NCalls = 3
  Saves = {1, 2, 3}
  MayShutDown = FALSE
CHECK_DEADLOCK FALSE
PROPERTY LatestWins
