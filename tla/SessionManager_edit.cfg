CONSTANTS
  s1 = s1 s2 = s2 c1 = c1 c2 = c2 src = src
  Sessions = {s1}
  Channels = {c1, c2}
  NoChannel = none
  SourceChannel <- MCSource
  Paths = {s1}
  Path <- MCPath
  Presentations = {screen, camera}
  Records = {FALSE}
  TargetIds = {1, 2}
  Gens = {1}
  Requests = {p, q}
  Ops = {"start", "add", "remove", "present", "record", "quality", "stop"}
  Apart = {{"present", "stop"}, {"present"}, {"record"}, {"quality", "add"}}
  Stuck = {1}
  ResumeLimit = 1
  Faults = {"timeout", "restart"}
SPECIFICATION FairSpec
INVARIANTS ChannelOnce SettingsAgree
PROPERTIES RestartFaithful CastSpec CallsReturn
CHECK_DEADLOCK FALSE
