CONSTANTS
  Events = {e1, e2}
  ChanCap = 1
  BufferSize = 2
  BatchSize = 2
  MaxRetries = 2
  FailureThreshold = 2
  PostOutcomes = {"accepted"}
SPECIFICATION Spec
CHECK_DEADLOCK FALSE
INVARIANT SendEventReturns
