CONSTANT MaxIssued = 3
SPECIFICATION FairSpec
CHECK_DEADLOCK FALSE
PROPERTY FailsafeApplies
