CONSTANTS
  b1 = b1
  b2 = b2
  b3 = b3
  c2 = c2
  g = g
  Block <- MCFork
  Genesis = g
  parent <- ForkParent
  Capacity = 1
  Load = 4
  MaxRestarts = 1
SPECIFICATION FairSpec
INVARIANTS
  HasAllAncestors
  NoLostWakeup
  MissingRequested
PROPERTIES
  NoneForgotten
  EverySuspendedStored
CHECK_DEADLOCK FALSE
