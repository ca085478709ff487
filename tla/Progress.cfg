CONSTANTS
  auth1 = auth1
  auth2 = auth2
  auth3 = auth3
  auth4 = auth4
  Authority <- MCAuthority
  Faulty = {auth4}
  Units = {1, 2, 3, 4}
  owner <- MCOwner
  keys <- MCKeys
  Block <- MCBlock
  Payload = {}
  LastRound = 6
  TimeoutRounds = {1, 2, 3, 4, 5, 6}
  MaxFaults = 1
  StableRound = 4
  MaxRestarts = 0
  InitBatches = {}
SPECIFICATION NetSpec

  
PROPERTIES
  EveryNodeCommits
  IsLedger
CHECK_DEADLOCK FALSE
