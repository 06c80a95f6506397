SPECIFICATION Spec
CONSTANTS
    Modules = {"m1"}
    Names = {"A", "B"}
    Ids = {1, 2}
    Elements = {"e1"}
    Admins = {}
    MaxNodes = 2
    InitNodes <- NoInitNodes
    Shipped <- OneOrNone
    Policies = {"audit"}
    Hashed = {}
    ShipsHash = {"m1"}
    AdminOps = {}
    LoadFaults = {}
    DirNamed = {"m1"}
    Rolling = FALSE
    ReadCommitted = TRUE
    IdConstraint = FALSE
    MaxReleases = 2
    MaxResets = 1
    MaxStops = 0
    MaxFails = 0
    MaxRequests = 0
    MaxBinds = 1
PROPERTY InstallKeepsInstances
