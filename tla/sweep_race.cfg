SPECIFICATION FairSpec
CONSTANTS
  Instances = {i1}
  Classes = {"c1"}
  NBindings = 1
  ElementOf <- SingleElementOf
  ClassOf <- SingleClassOf
  Workers = {w1}
  Sweeper = sw
  InitBound = {1}
  PageSize = 1
  BrokenPolicies = {}
  DiskFaults = {}
  MaxPolicy = 2
  MaxRequests = 1
  MaxResets = 1
  MaxCrashes = 1
  MaxFails = 1
  MaxSweepFails = 0
CHECK_DEADLOCK FALSE
INVARIANTS StampNeverNewer
PROPERTIES EventuallyFollowsThePolicy
