SPECIFICATION Spec
CONSTANTS
    Modules = {"m1"}
    Names = {"A", "B"}
    Ids = {1, 2}
    Elements = {}
    Admins = {"a1"}
    MaxNodes = 2
    InitNodes <- NoInitNodes
    Shipped <- AllLists
    Policies = {"audit"}
    Hashed = {}
    ShipsHash = {"m1"}
    AdminOps = {"migrate"}
    LoadFaults = {}
    DirNamed = {"m1"}
    Rolling = FALSE
    ReadCommitted = FALSE
    IdConstraint = FALSE
    MaxReleases = 1
    MaxResets = 0
    MaxStops = 0
    MaxFails = 0
    MaxRequests = 1
    MaxBinds = 0
INVARIANT UniqueIds
