CONSTANTS
  a1 = a1
  a2 = a2
  Addrs <- MCAddrs
  BadAddr = BadAddr
  Requests = {r1, r2}
  EDL <- MCEDL
  MaxRetryAttempts = 2
SPECIFICATION FairSpec
CHECK_DEADLOCK FALSE
INVARIANTS
  TypeOK
  LastGoodStaysActive
  NeverGoesBack
  NeverPanics
  CountFollows
PROPERTIES
  RefinesAccess
  EventuallyEnforced
  ReadyAgain
