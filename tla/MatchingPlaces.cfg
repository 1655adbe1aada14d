SPECIFICATION MatchingSpec
CONSTANTS
  h = h
  a = a
  b = b
  Node = {h, a, b}
  Hosts = {h}
  MaxPeers <- MixedRooms
  MaxNet = 2
  Lossy = TRUE
  Partition = TRUE
  MaxCalls <- CallsOfSome
CHECK_DEADLOCK FALSE
VIEW NoEvents
INVARIANTS
  RoomLimit
  HostListsOnce
