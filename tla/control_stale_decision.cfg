SPECIFICATION Spec
CONSTANTS
  v1 = v1 v2 = v2 v3 = v3
  Values = {v1, v2, v3, v4}
  Absent = Absent NotRecorded = NotRecorded FirstWrite = FirstWrite NoPush = NoPush NoFile = NoFile
  Slots <- TwoClasses
  Docs <- OneDoc
  FirstValue <- OneSet
  Shared = FALSE
  PullLives = {"brownfield"}
  Choices = {"keep"}
  MayClear = FALSE
  MaxCreates = 1 MaxFaults = 0 MaxForeign = 2 MaxEdits = 1
CHECK_DEADLOCK FALSE
INVARIANT OverwritesOnlyWhatWasShown
