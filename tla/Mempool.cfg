CONSTANTS
  auth1 = auth1
  auth2 = auth2
  auth3 = auth3
  auth4 = auth4
  Authority <- MCAuthority
  Faulty <- MCFaulty
  Units <- MCUnits
  owner <- MCKeys
  keys <- MCKeys
  self = auth1
  TxSize <- MCSizes
  batch_size = 2
  Capacity = 1
SPECIFICATION FairSpec
CHECK_DEADLOCK FALSE
INVARIANTS
  TypeOK
  AnnouncedAtQuorum
  TransactionsOnce
  BatchesOnce
  SizeCounted
PROPERTY EveryTransactionAnnounced
