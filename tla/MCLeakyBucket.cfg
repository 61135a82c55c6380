CONSTANTS
  Capacity = 4
  Rate = 3
  TicksPerSecond = 7
SPECIFICATION FairSpec
INVARIANTS
  TypeOK
  LateIsGranted
PROPERTIES
  RefinesBucket
  NeverStarved
