SPECIFICATION Spec
CONSTANTS
  rb = rb rc = rc rf = rf ri = ri Gone = Gone
  Refs = {rb, rc}
  RefKind <- BoundaryAndComponent
  FirstNodes <- FlowAcross
  FirstConduits <- RootConduit
  MaxIds = 10 MaxFaults = 1 MaxEdits = 2

PROPERTIES NamedElementsSurvive
