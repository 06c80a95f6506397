SPECIFICATION Spec
CONSTANTS
  Instances = {i1}
  Classes = {"c1", "c2"}
  NBindings = 2
  ElementOf <- OneElementOf
  ClassOf <- TwoClassOf
  Workers = {w1, w2}
  Sweeper = sw
  InitBound = {1}
  PageSize = 1
  BrokenPolicies = {}
  DiskFaults = {}
  MaxPolicy = 1
  MaxRequests = 3
  MaxResets = 0
  MaxCrashes = 0
  MaxFails = 1
  MaxSweepFails = 0
SYMMETRY WorkerSymmetry
CHECK_DEADLOCK FALSE
INVARIANTS FindingsFollowAnswers NoFindingsOfOtherClasses
