SPECIFICATION Spec
CONSTANTS
    Modules = {"m1", "m2"}
    Names = {"A", "B"}
    Ids = {1, 2, 3}
    Elements = {"e1"}
    Admins = {"a1", "a2"}
    MaxNodes = 5
    InitNodes <- Legacy
    Shipped <- LegacyLists
    Policies = {"audit"}
    Hashed = {}
    ShipsHash = {"m1", "m2"}
    AdminOps = {"migrate", "revive", "delete", "dedup"}
    LoadFaults = {}
    DirNamed = {"m1", "m2"}
    Rolling = TRUE
    ReadCommitted = FALSE
    IdConstraint = TRUE
    MaxReleases = 1
    MaxResets = 0
    MaxStops = 0
    MaxFails = 1
    MaxRequests = 2
    MaxBinds = 1
PROPERTY MergeKeepsInstances
PROPERTY DuplicatesDoNotReturn
