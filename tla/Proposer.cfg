CONSTANTS
  auth1 = auth1
  auth2 = auth2
  auth3 = auth3
  Authority <- MCAuthority
  Faulty <- MCFaulty
  Units <- MCUnits
  owner <- MCOwner
  keys <- MCKeys
  self = auth1
  Digest = {d1}
  Capacity = 1
  LoopbackCapacity = 1
  MempoolCapacity = 1
  MaxCopies = 2
  MaxMakes = 2
  MaxForeign = 1
SPECIFICATION FairSpec
CHECK_DEADLOCK FALSE
INVARIANTS
  DigestsAccounted
  PreviousAtQuorum
PROPERTIES
  OnlyLateRepeated
  EveryMakeComesBack
