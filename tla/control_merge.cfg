SPECIFICATION Spec
CONSTANTS
  v1 = v1 v2 = v2 v3 = v3
  Values = {v1, v2, v3}
  Absent = Absent NotRecorded = NotRecorded FirstWrite = FirstWrite NoPush = NoPush NoFile = NoFile
  Slots <- TwoClasses
  Docs <- OneDoc
  FirstValue <- OneSet
  Shared = FALSE
  PullLives = {"brownfield"}
  Choices = {"merge"}
  MayClear = FALSE
  MaxCreates = 1 MaxFaults = 0 MaxForeign = 1 MaxEdits = 1
CHECK_DEADLOCK FALSE
PROPERTY EditEndsSettled
