SPECIFICATION Spec
CONSTANTS
  Instances = {i1}
  Classes = {"c1"}
  NBindings = 1
  ElementOf <- SingleElementOf
  ClassOf <- SingleClassOf
  Workers = {w1}
  Sweeper = sw
  InitBound = {1}
  PageSize = 1
  BrokenPolicies = {2}
  DiskFaults = {"missing", "midReload"}
  MaxPolicy = 3
  MaxRequests = 1
  MaxResets = 1
  MaxCrashes = 0
  MaxFails = 1
  MaxSweepFails = 1
CHECK_DEADLOCK FALSE
INVARIANTS FindingsFollowAnswers NoFindingsOfOtherClasses
