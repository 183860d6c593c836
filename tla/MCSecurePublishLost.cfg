\* The documented effect of a cleanup.
SPECIFICATION Spec
INVARIANTS NothingLost
CHECK_DEADLOCK FALSE
