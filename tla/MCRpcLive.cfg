SPECIFICATION FairSpec
CONSTANTS
  Procs = {p, q}
  Cos = {1, 2, 3, 4, 5}
  MaxSeq = 3
  MaxCallNoRet = 1
  MaxFork = 2
  MaxFaults = 0
  Funcs = {f}
  Registered = {f}
  NoCo = NoCo
  NoProc = NoProc
  NoSeq = NoSeq
PROPERTY CallAnswered
CHECK_DEADLOCK FALSE
