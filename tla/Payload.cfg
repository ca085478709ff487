CONSTANTS
  d1 = d1
  Digest = {d1}
  Block <- MCBlocks
  MaxRound = 1
  gc_depth = 1
  Capacity = 1
  Load = 4
  Other = other
SPECIFICATION FairSpec
INVARIANTS
  EntriesHaveTasks
  RequestedUntilCollected
PROPERTIES
  DroppedOnlyIfOutdated
  EveryBlockResumed
CHECK_DEADLOCK FALSE
