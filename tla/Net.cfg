CONSTANTS
  auth1 = auth1
  auth2 = auth2
  auth3 = auth3
  batch = batch
  Authority <- MCAuthority
  Faulty <- TwoHonest
  Units <- TwoHonestUnits
  owner <- TwoHonestOwner
  keys <- TwoHonestKeys
  Block <- LockBlocks
  Payload = {batch}
  InitBatches = {batch}
  TimeoutRounds = {2}
  MaxRestarts = 0
  MaxVotes = 1
  MaxTimeouts = 1
  MaxWaiting = 1
  MaxStore = 3
SPECIFICATION Spec
CONSTRAINT BoundedNet
INVARIANTS
  TypeOK
  RoundOrder
  OneVotePerRound
  TimeoutCoversVotes
  TimeoutsCovered
  OneProposalPerRound
  CommittedLocked
PROPERTIES
  NoVoteAfterTimeout
