SPECIFICATION FairSpec
CONSTANTS
  Instances = {i1}
  Classes = {"c1"}
  NBindings = 2
  ElementOf <- TwoElementsOf
  ClassOf <- OneClassOf
  Workers = {w1}
  Sweeper = sw
  InitBound = {1}
  PageSize = 1
  BrokenPolicies = {}
  DiskFaults = {}
  MaxPolicy = 2
  MaxRequests = 1
  MaxResets = 1
  MaxCrashes = 0
  MaxFails = 0
  MaxSweepFails = 0
CHECK_DEADLOCK FALSE
PROPERTIES EventuallyFollowsThePolicy
