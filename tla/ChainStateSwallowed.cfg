SPECIFICATION Spec
CONSTANTS
  Tx <- MCTx
  OutPoint <- MCOutPoint
  vin <- MCvin
  txOf <- MCtxOf
  Block <- MCBlock
  Genesis = "g"
  pprev <- MCpprev
  nHeight <- MCnHeight
  nChainTrust <- MCnChainTrust
  vtx <- MCvtx
  LooseTx <- MCLooseTx
  BadBlock = {}
  BLOCK_REORG_MAX_DEPTH = 1
  BLOCK_REORG_OVERRIDE_DEPTH = 0
  BLOCK_REORG_THRESHOLD = 1
  nCheckDepth = 1
  DiskMayFail = FALSE
  NULL = NULL
INVARIANT BestBlockIsConnected
