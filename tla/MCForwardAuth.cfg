CONSTANTS
  a1 = a1
  Addrs <- MCAddrs
  BadAddr = BadAddr
  Requests = {r1, r2}
  Lists <- MCLists
  HeaderOverride = TRUE
  BatchSize = 2
SPECIFICATION FairSpec
CHECK_DEADLOCK FALSE
INVARIANTS
  TypeOK
  DenialsReported
  EventTellsTruth
  NoneCutInTime
  NeverOverReported
  ReportedWereSent
PROPERTIES
  SignalEndsProcess
  CaughtUp
