SPECIFICATION FairSpec
CONSTANTS
  Addr = {a}
  Caller = {o, p, s}
  Opener = {o, p}
  nMaxOutbound = 2
  nMaxInbound = 1
  MaxNodes = 1
  NULL = NULL
INVARIANTS
  RefsCoverHolders
  NoRoundOnDeleted
  OpenerKeepsNode
PROPERTIES
  GrantsConserved
  InboundDeleted
