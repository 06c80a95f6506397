SPECIFICATION Spec
CONSTANTS
    Modules = {"m1"}
    Names = {"A", "B"}
    Ids = {1, 2}
    Elements = {}
    Admins = {}
    MaxNodes = 2
    InitNodes <- NoInitNodes
    Shipped <- OneOrNone
    Policies = {"audit"}
    Hashed = {}
    ShipsHash = {}
    AdminOps = {}
    LoadFaults = {}
    DirNamed = {"m1"}
    Rolling = FALSE
    ReadCommitted = FALSE
    IdConstraint = FALSE
    MaxReleases = 3
    MaxResets = 1
    MaxStops = 0
    MaxFails = 0
    MaxRequests = 0
    MaxBinds = 0
PROPERTY SkipsOnlyInstalled
