CONSTANT MaxIssued = 3
SPECIFICATION FairSpec
CHECK_DEADLOCK FALSE
INVARIANTS
  TypeOK
  NoTransientIsFinal
  TokenNotOlder
PROPERTIES
  EventuallyRefreshed
  EventuallyQuiet
