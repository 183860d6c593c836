\* Three cases of two attempts share two workers.
CONSTANTS
  NCases = 3
  Attempts = 2
  Workers = 2
SPECIFICATION FairSpec
INVARIANTS MergedIsComplete FailuresReported
PROPERTIES InterruptEndsCondition QueuedNeverLaunch
CHECK_DEADLOCK FALSE
