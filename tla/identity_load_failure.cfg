SPECIFICATION Spec
CONSTANTS
    Modules = {"m1", "m2"}
    Names = {"A", "B"}
    Ids = {1, 2}
    Elements = {}
    Admins = {}
    MaxNodes = 4
    InitNodes <- NoInitNodes
    Shipped <- OneOrNone
    Policies = {"audit"}
    Hashed = {}
    ShipsHash = {"m1", "m2"}
    AdminOps = {}
    LoadFaults = {"load", "metadata"}
    DirNamed = {"m1", "m2"}
    Rolling = FALSE
    ReadCommitted = FALSE
    IdConstraint = FALSE
    MaxReleases = 2
    MaxResets = 0
    MaxStops = 0
    MaxFails = 1
    MaxRequests = 0
    MaxBinds = 0
PROPERTY SweepSparesPresent
