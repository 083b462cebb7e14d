SPECIFICATION OrphanSpec
CONSTANTS
  g = g
  p = p
  x = x
  y = y
  c = c
  d = d
  s = s
  t = t
  NoStake = NoStake
  Genesis = g
  Block <- MCBlock
  hashPrevBlock <- MCPrev
  stake <- MCStake
  MaxOrphanBlocks = 2
INVARIANTS
  OrphanMapsAgree
  NoOrphanLeftBehind
  OrphansBounded
  MarksBelongToOrphans
  IndexClosed
