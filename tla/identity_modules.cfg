SPECIFICATION FairSpec
CONSTANTS
    Modules = {"m1", "m2"}
    Names = {"A", "B"}
    Ids = {1, 2}
    Elements = {}
    Admins = {}
    MaxNodes = 4
    InitNodes <- NoInitNodes
    Shipped <- SingleLists
    Policies = {"audit"}
    Hashed = {"A"}
    ShipsHash = {"m1", "m2"}
    AdminOps = {}
    LoadFaults = {"load", "metadata"}
    DirNamed = {"m1"}
    Rolling = FALSE
    ReadCommitted = FALSE
    IdConstraint = FALSE
    MaxReleases = 3
    MaxResets = 0
    MaxStops = 1
    MaxFails = 1
    MaxRequests = 0
    MaxBinds = 0
INVARIANT UniqueIds
PROPERTY SkipsOnlyInstalled
PROPERTY InstallsSettle
