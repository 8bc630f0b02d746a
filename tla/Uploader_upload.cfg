CONSTANTS
  Files = {f1, f2}
  MaxSize = 2
  Limit = 3
  Seconds = {1, 2}
  DeleteLocal = TRUE
  MaxFaults = 3
  Faults = {"put", "remove", "crash"}
SPECIFICATION FairSpec
INVARIANTS TypeOK Findable ListedIsComplete
PROPERTIES UploadedOnce Synced
CHECK_DEADLOCK FALSE
