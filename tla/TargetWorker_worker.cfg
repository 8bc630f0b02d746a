CONSTANTS
  Presentations = {"screen", "camera"}
  First = "camera"
  Cap = 2
  LeavesWhenAlone = TRUE
  MaxSets = 2
  MaxFaults = 2
  Faults = {}
SPECIFICATION FairSpec
INVARIANTS StreamingIsChosen
PROPERTIES IsEngine CastsChosen LeavesEmptyHuddle
CHECK_DEADLOCK FALSE
