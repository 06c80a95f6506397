SPECIFICATION FairSpec
CONSTANTS
  rb = rb rc = rc rf = rf ri = ri Gone = Gone
  Refs = {rb, rc, rf, ri}
  RefKind <- OneOfEach
  FirstNodes <- FlowAcross
  FirstConduits <- RootConduit
  MaxIds = 10 MaxFaults = 1 MaxEdits = 2
INVARIANTS TypeOK SuccessMeansSynced
PROPERTIES DamageIsLocal EventuallySynced
