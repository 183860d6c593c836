SPECIFICATION Spec
CONSTANTS
    Runs = {r1, r2}
    NoRun = NoRun
    MaxSecond = 1
    MaxReads = 1
    MaxFaults = 2
SYMMETRY Symmetric
INVARIANTS
    AnswerIsComplete
    ReadsArePublished
    ScanIsNewest
    LinkedIsFinal
PROPERTY ResultsAreDurable
CHECK_DEADLOCK FALSE
