SPECIFICATION Spec
CONSTANTS
    Modules = {"m1"}
    Names = {"A", "B"}
    Ids = {1, 2}
    Elements = {"e1"}
    Admins = {}
    MaxNodes = 2
    InitNodes <- NoInitNodes
    Shipped <- RenameLists
    Policies = {"audit"}
    Hashed = {}
    ShipsHash = {"m1"}
    AdminOps = {}
    LoadFaults = {}
    DirNamed = {"m1"}
    Rolling = FALSE
    ReadCommitted = FALSE
    IdConstraint = FALSE
    MaxReleases = 2
    MaxResets = 0
    MaxStops = 0
    MaxFails = 0
    MaxRequests = 0
    MaxBinds = 1
PROPERTY DeclaredIdStaysActive
