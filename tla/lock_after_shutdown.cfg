SPECIFICATION FairSpec
CONSTANTS
  NCalls = 5
  Saves = {1, 3, 4}
  MayShutDown = TRUE
CHECK_DEADLOCK FALSE
PROPERTIES OnlyOwnerReleases DirectCallsReturn
