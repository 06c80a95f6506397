SPECIFICATION Spec
CONSTANTS
  v1 = v1 v2 = v2 v3 = v3
  Values = {v1, v2, v3}
  Absent = Absent NotRecorded = NotRecorded FirstWrite = FirstWrite NoPush = NoPush NoFile = NoFile
  Slots <- TwoClasses
  Docs <- OneDoc
  FirstValue <- OneSet
  Shared = TRUE
  PullLives = {}
  Choices = {"keep", "accept-theirs", "undecided"}
  MayClear = FALSE
  MaxCreates = 2 MaxFaults = 1 MaxForeign = 0 MaxEdits = 1
CHECK_DEADLOCK FALSE
INVARIANT AppliedIsAudited
