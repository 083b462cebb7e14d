CONSTANTS
  own = own
  a = a
  b = b
  None = None
  Own = own
  Node <- MCNode
  Peer <- MCPeer
  MinDsee = 1
  MinDseep = 2
  Expire = 5
  Removal = 6
  Delay = 0
  Window = 1
  SigCap = 1
  FaultKind = {"die", "stop", "spend", "drop"}
  MaxFaults = 2
SPECIFICATION ListSpec
PROPERTIES
  GoneIsRemoved
  LiveIsListed
