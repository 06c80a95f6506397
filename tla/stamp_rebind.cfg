SPECIFICATION Spec
CONSTANTS
  Instances = {i1}
  Classes = {"c1", "c2"}
  NBindings = 2
  ElementOf <- OneElementOf
  ClassOf <- TwoClassOf
  Workers = {w1}
  Sweeper = sw
  InitBound = {1}
  PageSize = 1
  BrokenPolicies = {}
  DiskFaults = {}
  MaxPolicy = 2
  MaxRequests = 2
  MaxResets = 1
  MaxCrashes = 0
  MaxFails = 0
  MaxSweepFails = 0
CHECK_DEADLOCK FALSE
INVARIANTS TypeOK StampNeverNewer StampNamesThePolicy
