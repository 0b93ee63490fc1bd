SPECIFICATION Spec
CONSTANTS
  Procs = {p, q}
  Cos = {1, 2, 3}
  MaxSeq = 3
  MaxCallNoRet = 1
  MaxFork = 2
  MaxFaults = 1
  Funcs = {f, g}
  Registered = {f}
  NoCo = NoCo
  NoProc = NoProc
  NoSeq = NoSeq
SYMMETRY Symmetry
INVARIANTS
  TypeOK
  CoInOnePlace
  AnswerMatches
  PoolClean
CHECK_DEADLOCK FALSE
