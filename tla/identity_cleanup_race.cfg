SPECIFICATION Spec
CONSTANTS
    Modules = {"m1", "m2"}
    Names = {"A", "B"}
    Ids = {1, 2, 3}
    Elements = {"e1"}
    Admins = {"a1"}
    MaxNodes = 5
    InitNodes <- Legacy
    Shipped <- LegacyLists
    Policies = {"audit"}
    Hashed = {}
    ShipsHash = {"m1", "m2"}
    AdminOps = {"dedup"}
    LoadFaults = {}
    DirNamed = {"m1", "m2"}
    Rolling = FALSE
    ReadCommitted = FALSE
    IdConstraint = FALSE
    MaxReleases = 2
    MaxResets = 1
    MaxStops = 0
    MaxFails = 0
    MaxRequests = 1
    MaxBinds = 1
PROPERTY MergeKeepsNames
