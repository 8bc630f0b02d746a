CONSTANTS
  Kinds = {"shim", "mirror", "receive"}
  Frames = {f1, f2}
  Conns = {c1, c2, c3, c4, c5}
  NoConn = no_connection
  Tiles = {camera, screen, guest}
  Listed = {camera, screen}
  Content = {screen, guest}
  NoTile = no_tile
  Longest = 1
  MaxFaults = 2
SPECIFICATION FairSpec
INVARIANTS TypeOK NeverStranded OneSource ShowsListed
PROPERTIES Heals
CHECK_DEADLOCK FALSE
