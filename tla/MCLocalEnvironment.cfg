\* Two calls of exec(), one of which may be cancelled once and may leave a group that
\* outlives its termination, and two calls of stop() with a start() between them.
CONSTANTS
    Execs = {e1, e2}
    Cancellable = {e1}
    Surviving = {e1}
    MaxCancels = 1
    MaxStops = 2
SPECIFICATION Spec
INVARIANTS Ownership RemovedWhenQuiet CancelledNeverReturns EndedContained
PROPERTY CallsEnd
CHECK_DEADLOCK FALSE
