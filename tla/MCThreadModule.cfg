SPECIFICATION FairSpec
CONSTANTS
  N = 2
  Commands = {c1, c2, c3}
  NoCommand = NoCommand
INVARIANTS
  NoSleepOnWork
  FreedAfterUse
  CommandOnce
PROPERTY TerminateReturns
CHECK_DEADLOCK FALSE
