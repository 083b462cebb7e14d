CONSTANTS
  own = own
  a = a
  b = b
  None = None
  Own = own
  Node <- MCNode
  Peer <- MCPeer
  MinDsee = 3
  MinDseep = 3
  Expire = 9
  Removal = 10
  Delay = 1
  Window = 5
  SigCap = 5
  FaultKind = {"drop", "die"}
  MaxFaults = 2
SPECIFICATION ListSpec
INVARIANTS
  SeenIsReal
PROPERTIES
  LiveStays
