\* Every failure and one KeyboardInterrupt.
SPECIFICATION Spec
INVARIANTS FailureRestores FailureLosesNothing EndsClean
CHECK_DEADLOCK FALSE
