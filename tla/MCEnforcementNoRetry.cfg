CONSTANTS
  a1 = a1
  a2 = a2
  Addrs <- MCAddrs
  BadAddr = BadAddr
  Requests = {r1}
  EDL <- MCEDL
  MaxRetryAttempts = 0
SPECIFICATION Spec
CHECK_DEADLOCK FALSE
INVARIANT NeverPanics
