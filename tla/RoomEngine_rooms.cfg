CONSTANTS
  Kinds = {"target", "listener", "mirror"}
  MaxFaults = 4
  Faults = {}
SPECIFICATION FairSpec
INVARIANTS TypeOK
PROPERTIES IsEngine BackInHuddle ReauthIsTold
CHECK_DEADLOCK FALSE
