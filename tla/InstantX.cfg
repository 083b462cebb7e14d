SPECIFICATION FairSpec
CONSTANTS
  Tx = {"t1", "t2"}
  OutPoint <- MCOutPoint
  vin <- MCvin2
  WalletTx = {"t1"}
  Masternode = {m1, m2}
  Self = m1
  VoteHeight = {1, 2}
  LockHeight = 1
  EXPIRATION = 1
  INSTANTX_SIGNATURES_REQUIRED = 2
INVARIANTS
  OneVotePerMasternode
  LockOwnerRequested
PROPERTIES
  LocksExpire
  HoldEnds
