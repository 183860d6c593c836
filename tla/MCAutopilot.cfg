SPECIFICATION Spec
CONSTANTS
    Stages = {s1, s2}
    MaxStarts = 2
    MaxEvents = 2
    Retries = 3
    BaseDelay = 1
    Ceiling = 3
    Jitter = 2
    RetryAfters = {0, 2, 3, 4}
    Nothing = Nothing
INVARIANTS
    QuietWhenClosed
    HeartbeatsAreTrue
    RetryAfterHonoured
    OneLateLine
PROPERTY EveryThreadEnds
CHECK_DEADLOCK FALSE
