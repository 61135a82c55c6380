CONSTANTS
  Events = {e1, e2, e3}
  ChanCap = 1
  BufferSize = 2
  BatchSize = 2
  MaxRetries = 2
  FailureThreshold = 1
  PostOutcomes = {"accepted", "refused", "unacknowledged"}
SPECIFICATION FairSpec
CHECK_DEADLOCK FALSE
PROPERTIES
  EventuallySettled
  StopReturns
  WorkerLeaves
