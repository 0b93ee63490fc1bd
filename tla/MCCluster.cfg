SPECIFICATION FairSpec
CONSTANTS
  a = a
  b = b
  Master = m
  Nodes = {a, b}
  Type <- TwoTypes
  Id <- Ids
  Hidden = {}
  Links = {1, 2, 3, 4}
  MaxFaults = 1
  MaxApp = 0
  NoSockets = TRUE
  NoLink = NoLink
  NoProc = NoProc
INVARIANTS
  TypeOK
  TableSound
  SessionInOnePlace
  Announced
PROPERTY MeshForms
CHECK_DEADLOCK FALSE
