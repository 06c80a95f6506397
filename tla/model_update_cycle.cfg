SPECIFICATION Spec
CONSTANTS
  rb = rb rc = rc rf = rf ri = ri Gone = Gone
  Refs = {rc}
  RefKind <- Component
  FirstNodes <- Crossed
  FirstConduits = {}
  MaxIds = 3 MaxFaults = 1 MaxEdits = 3
CHECK_DEADLOCK FALSE
INVARIANTS TypeOK SuccessMeansSynced
PROPERTIES DamageIsLocal
