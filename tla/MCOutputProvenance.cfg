\* Three calls of one user on one root, each of which may fail or die.
CONSTANTS
  Procs = {p1, p2, p3}
  None = None
  Retries = 2
SPECIFICATION FairSpec
INVARIANTS OneKey MarkerReadable GivesUpNever OnlyFaultsLeaveFiles
PROPERTY EveryCallReturns
CHECK_DEADLOCK FALSE
