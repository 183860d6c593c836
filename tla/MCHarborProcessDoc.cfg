\* The docstring's claim that a cancelled job's process tree is always stopped.
CONSTANTS
    Descendants = {d1}
    OutputBudget = 1
    MaxChunk = 1
    HasDeadline = FALSE
SPECIFICATION Spec
INVARIANT CancelStopsTheTree
