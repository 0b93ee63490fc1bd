CONSTANTS
  MAX_LUA_RESULT = 2
  MaxDepth = 5
  BUFF_SIZE = 18
  PortArg = FALSE
  Configs <- TheConfigs
  Values <- TheValues
  Args <- TheArgs
SPECIFICATION Spec
INVARIANTS StackBalanced StartSound ScriptsReady RoundTrip
CHECK_DEADLOCK FALSE
