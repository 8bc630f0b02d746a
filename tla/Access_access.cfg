CONSTANTS
  Users = {u1, u2}
  Admins = {u1}
  Keys = {k1}
  Sessions = {s1}
  Requests = {p, q}
  Ops = {"key", "unkey", "start", "stop", "allow", "ban", "publish"}
  None = None
SPECIFICATION HSpec
PROPERTIES Entitled OwnOnly
SYMMETRY Symmetry
CHECK_DEADLOCK FALSE
