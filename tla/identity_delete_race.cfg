SPECIFICATION Spec
CONSTANTS
    Modules = {"m1"}
    Names = {"A", "B"}
    Ids = {1, 2}
    Elements = {"e1"}
    Admins = {"a1", "a2"}
    MaxNodes = 2
    InitNodes <- NoInitNodes
    Shipped <- OneOrNone
    Policies = {"audit"}
    Hashed = {}
    ShipsHash = {"m1"}
    AdminOps = {"revive", "delete"}
    LoadFaults = {}
    DirNamed = {"m1"}
    Rolling = FALSE
    ReadCommitted = FALSE
    IdConstraint = FALSE
    MaxReleases = 2
    MaxResets = 0
    MaxStops = 0
    MaxFails = 0
    MaxRequests = 2
    MaxBinds = 1
PROPERTY DeletesOrphansOnly
