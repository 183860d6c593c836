\* One call with a deadline, one descendant and an output budget of two units
\* read in chunks of one or two.
CONSTANTS
    Descendants = {d1}
    OutputBudget = 2
    MaxChunk = 2
    HasDeadline = TRUE
SPECIFICATION Spec
INVARIANTS Contained VerdictIsHarbors InterruptedJobCleansUp
PROPERTIES NothingRunsBehindACaller CallEnds ImplementsHarborJob
