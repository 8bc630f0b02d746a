CONSTANTS
  Pulls = {c1, c2, c3}
  NoPull = none
  Faults = {"network", "rejoin", "stop"}
SPECIFICATION FairSpec
INVARIANTS SourceIsSought LiveShowsSource
PROPERTIES Recovers
CHECK_DEADLOCK FALSE
