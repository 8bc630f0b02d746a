CONSTANTS
  s1 = s1 s2 = s2 c1 = c1 c2 = c2 src = src
  Sessions = {s1}
  Channels = {c1}
  NoChannel = none
  SourceChannel <- MCSource
  Paths = {s1}
  Path <- MCPath
  Presentations = {screen, camera}
  Records = {FALSE}
  TargetIds = {1}
  Gens = {1, 2}
  Requests = {p, q}
  Ops = {"start", "present", "stop"}
  Apart = {}
  Stuck = {}
  ResumeLimit = 1
  Faults = {}
SPECIFICATION Spec
PROPERTIES StoppedForGood
CHECK_DEADLOCK FALSE
