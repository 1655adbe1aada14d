SPECIFICATION Spec
CONSTANTS
  h = h
  g = g
  a = a
  None = None
  Node = {h, g, a}
  Hosts = {h, g}
  NumPeers = 3
  MaxPeers <- Places
  MaxNet = 1
  Lossy = FALSE
  Partition = FALSE
  MaxCalls <- PressesOf
  MaxHellos = 1
  PressesOfClient = 1
  PressesOfHost = 0
CHECK_DEADLOCK FALSE
INVARIANTS
  TypeOK
  
