SPECIFICATION Spec
CONSTANTS
  a = a
  b = b
  Master = m
  Nodes = {a, b, c}
  Type <- SameType
  Id <- Ids
  Hidden = {c}
  Links = {1, 2, 3, 4}
  MaxFaults = 1
  MaxApp = 1
  NoSockets = TRUE
  NoLink = NoLink
  NoProc = NoProc
INVARIANTS
  ReportFirst
  MeshBounded
CHECK_DEADLOCK FALSE
