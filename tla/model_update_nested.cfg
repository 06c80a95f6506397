SPECIFICATION FairSpec
CONSTANTS
  rb = rb rc = rc rf = rf ri = ri Gone = Gone
  Refs = {rb, rc}
  RefKind <- BoundaryAndComponent
  FirstNodes <- Nested
  FirstConduits <- InnerConduit
  MaxIds = 10 MaxFaults = 2 MaxEdits = 2
INVARIANTS TypeOK SuccessMeansSynced
PROPERTIES DamageIsLocal EventuallySynced
