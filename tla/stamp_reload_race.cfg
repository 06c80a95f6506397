SPECIFICATION Spec
CONSTANTS
  Instances = {i1}
  Classes = {"c1"}
  NBindings = 1
  ElementOf <- SingleElementOf
  ClassOf <- SingleClassOf
  Workers = {w1}
  Sweeper = sw
  InitBound = {1}
  PageSize = 1
  BrokenPolicies = {}
  DiskFaults = {"midReload"}
  MaxPolicy = 2
  MaxRequests = 2
  MaxResets = 2
  MaxCrashes = 0
  MaxFails = 0
  MaxSweepFails = 0
CHECK_DEADLOCK FALSE
INVARIANT SettledStampNotNewer
