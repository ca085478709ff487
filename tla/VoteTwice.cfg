CONSTANTS
  auth1 = auth1
  auth2 = auth2
  auth3 = auth3
  batch = batch
  Authority <- MCAuthority
  Faulty <- Majority
  Units <- MajorityUnits
  owner <- MajorityOwner
  keys <- MajorityKeys
  Block <- TwinBlocks
  Payload = {batch}
  InitBatches = {batch}
  TimeoutRounds = {1}
  MaxRestarts = 1
  MaxVotes = 1
  MaxTimeouts = 1
  MaxWaiting = 1
  MaxStore = 8
SPECIFICATION Spec
CONSTRAINT Bounded
INVARIANTS
  OneVotePerRound
