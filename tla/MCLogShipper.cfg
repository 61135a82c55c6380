CONSTANTS
  Events = {e1, e2, e3, e4, e5}
  ChanCap = 1
  BufferSize = 2
  BatchSize = 2
  MaxRetries = 2
  FailureThreshold = 2
  PostOutcomes = {"accepted", "refused", "unacknowledged"}
SYMMETRY EventSymmetry
SPECIFICATION Spec
CHECK_DEADLOCK FALSE
INVARIANTS
  TypeOK
  NoEventLost
  StopLosesAtMost
  ShippedWasReceived
  BreakerInv
  BoundedFailures
PROPERTY RefinesDelivery
