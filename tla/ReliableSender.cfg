CONSTANTS
  MaxMessage = 3
  Capacity = 2
  MaxBreaks = 2
SPECIFICATION FairSpec
CHECK_DEADLOCK FALSE
INVARIANTS
  AckedArrived
  Aligned
  NothingLost
PROPERTY IsReliableLink
