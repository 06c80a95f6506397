SPECIFICATION FairSpec
CONSTANTS
  v1 = v1 v2 = v2 v3 = v3
  Values = {v1, v2, v3}
  Absent = Absent NotRecorded = NotRecorded FirstWrite = FirstWrite NoPush = NoPush NoFile = NoFile
  Slots <- TwoClasses
  Docs <- TwoDocs
  FirstValue <- OneSet
  Shared = TRUE
  PullLives = {"brownfield"}
  Choices = {"keep", "accept-theirs", "undecided"}
  MayClear = TRUE
  MaxCreates = 2 MaxFaults = 1 MaxForeign = 1 MaxEdits = 2
CHECK_DEADLOCK FALSE
INVARIANTS TypeOK RefsAgree OneControlPerPush NoBlindOverwrite RetryHasNoConflict AuditOnce
PROPERTIES BrownfieldIsComplete EditEndsSettled EventuallyPublished
