SPECIFICATION FairSpec
CONSTANTS
  Tx <- MCTx
  OutPoint <- MCOutPoint
  vin <- MCvin
  txOf <- MCtxOf
  Node = {"n1", "n2"}
  Sends <- MCSends
  LargeTx = {}
  StandardTx = {"p", "x", "y"}
  Confirmed0 = {"cb"}
  Retry = 1
  MaxDelay = 1
  MAPASKFOR_MAX_SZ = 1
  SETASKFOR_MAX_SZ = 2
  MAX_ORPHAN_TRANSACTIONS = 1
INVARIANTS
  ByPrevExact
  NoPoolConflict
PROPERTIES
  RequestIsSent
