SPECIFICATION Spec
CONSTANTS
    Modules = {"m1"}
    Names = {"A", "B"}
    Ids = {1, 2}
    Elements = {"e1"}
    Admins = {}
    MaxNodes = 3
    InitNodes <- NoInitNodes
    Shipped <- AllLists
    Policies = {"audit", "strict"}
    Hashed = {}
    ShipsHash = {"m1"}
    AdminOps = {}
    LoadFaults = {}
    DirNamed = {"m1"}
    Rolling = FALSE
    ReadCommitted = FALSE
    IdConstraint = FALSE
    MaxReleases = 2
    MaxResets = 1
    MaxStops = 0
    MaxFails = 1
    MaxRequests = 0
    MaxBinds = 1
INVARIANT TypeOK
INVARIANT UniqueIds
INVARIANT UniqueNames
PROPERTY AuthoritativeIsExact
PROPERTY InstallKeepsInstances
