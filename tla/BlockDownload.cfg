SPECIFICATION FairSpec
CONSTANTS
  Node = {n1, n2}
  LocalNode = {n2}
  Hash = {h1, h2}
  MAX_BLOCKS_IN_TRANSIT_PER_PEER = 2
  BLOCK_DOWNLOAD_TIMEOUT = 0
  MaxQueued = 1
  BanScore = 2
  RejectScore = {0, 1}
  MaxAge = 1
INVARIANTS
  MapsMatchLists
  OldestFirst
PROPERTIES
  MisbehavingPeerDropped
  
