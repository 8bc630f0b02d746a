CONSTANTS
  s1 = s1 s2 = s2 c1 = c1 c2 = c2 g1 = g1 g2 = g2
  Messages <- MCPair
  HuddleThreads <- MCHuddles
  Sessions = {s1, s2}
  SessionsOf <- MCSessionsOf
  Readers = {r1, r2}
  Inbox = 1
  Cap = 1
  Batch = 1
  OtherIds = {7}
  Pages = {g1}
  PageOf <- MCPageOf
  Polls = {p1, p2}
  Exported = {s1}
  Faults = {"socket", "crash", "network", "slack", "store"}
SPECIFICATION Spec
INVARIANTS TypeOK ExportComplete
PROPERTIES FeedSpec
SYMMETRY Symmetry
CHECK_DEADLOCK FALSE
