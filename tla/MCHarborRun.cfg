\* Two agents that share one worker, an ordinary and an extra arm that divide three
\* trials, and up to three Ctrl+C at any step of the coordinating thread.
CONSTANTS
    Agents = {a1, a2}
    Arms = {with, parts}
    Extra = {parts}
    MaxAgents = 1
    NConcurrent = 3
    MaxInterrupts = 3
SPECIFICATION Spec
INVARIANTS ArtifactsQuiet CollectsWholeRun BudgetKept
PROPERTIES NoAgentStartsAfterRequest ProgressInOrder ImplementsHarborJobs InterruptEndsRun
