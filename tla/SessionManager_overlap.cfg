CONSTANTS
  s1 = s1 s2 = s2 c1 = c1 c2 = c2 src = src
  Sessions = {s2}
  Channels = {c1, src}
  NoChannel = none
  SourceChannel <- MCSource
  Paths = {s2}
  Path <- MCPath
  Presentations = {screen, camera}
  Records = {FALSE}
  TargetIds = {1}
  Gens = {1, 2}
  Requests = {p, q}
  Ops = {"start", "add", "remove", "present", "quality", "stop"}
  Apart = {}
  Stuck = {}
  ResumeLimit = 1
  Faults = {"timeout", "crash", "shutdown", "store", "media"}
SPECIFICATION Spec
INVARIANTS TypeOK NoOrphanEngine OneEnginePerTarget EngineHasRow StoppedIsSilent ShowsPresentation
SYMMETRY Symmetry
CHECK_DEADLOCK FALSE
