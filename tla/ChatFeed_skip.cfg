CONSTANTS
  s1 = s1 s2 = s2 c1 = c1 c2 = c2 g1 = g1 g2 = g2
  Messages <- MCMessages
  HuddleThreads <- MCHuddles
  Sessions = {s1, s2}
  SessionsOf <- MCSessionsOf
  Readers = {r1}
  Inbox = 1
  Cap = 2
  Batch = 2
  OtherIds = {}
  Pages = {g1}
  PageOf <- MCPageOf
  Polls = {p1, p2}
  Exported = {}
  Faults = {}
SPECIFICATION Spec
INVARIANTS NoneSkipped
CHECK_DEADLOCK FALSE
