CONSTANTS
  s1 = s1 s2 = s2 c1 = c1 c2 = c2 g1 = g1 g2 = g2
  Messages <- MCThread
  HuddleThreads <- MCHuddles
  Sessions = {s1, s2}
  SessionsOf <- MCSessionsOf
  Readers = {r1}
  Inbox = 1
  Cap = 1
  Batch = 1
  OtherIds = {7}
  Pages = {g1}
  PageOf <- MCPageOf
  Polls = {p1}
  Exported = {}
  Faults = {"ack", "network", "read"}
SPECIFICATION FairSpec
PROPERTIES Reached 
CHECK_DEADLOCK FALSE
