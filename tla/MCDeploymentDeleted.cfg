CONSTANT MaxIssued = 3
SPECIFICATION Spec
CHECK_DEADLOCK FALSE
INVARIANT DeletionAllowsAll
