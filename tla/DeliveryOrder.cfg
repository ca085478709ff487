CONSTANTS
  auth1 = auth1
  auth2 = auth2
  auth3 = auth3
  batch = batch
  Authority <- MCAuthority
  Faulty <- Majority
  Units <- MajorityUnits
  owner <- MajorityOwner
  keys <- MajorityKeys
  Block <- TwoGapBlocks
  Payload = {batch}
  InitBatches = {batch}
  TimeoutRounds = {2,4}
  MaxRestarts = 0
  MaxVotes = 1
  MaxTimeouts = 0
  MaxWaiting = 1
  MaxStore = 8
SPECIFICATION Spec
CONSTRAINT Bounded
INVARIANTS
  DeliveredInOrder
