SPECIFICATION Spec
CONSTANTS
  Instances = {i1, i2}
  Classes = {"c1"}
  NBindings = 1
  ElementOf <- SingleElementOf
  ClassOf <- SingleClassOf
  Workers = {w1}
  Sweeper = sw
  InitBound = {1}
  PageSize = 1
  BrokenPolicies = {}
  DiskFaults = {}
  MaxPolicy = 2
  MaxRequests = 2
  MaxResets = 1
  MaxCrashes = 0
  MaxFails = 0
  MaxSweepFails = 0
CHECK_DEADLOCK FALSE
INVARIANT SettledStampNotNewer
