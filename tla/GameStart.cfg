SPECIFICATION LiveSpec
CONSTANTS
  h = h
  a = a
  b = b
  lobby = lobby
  game = game
  None = None
  Console = {h, a, b}
  Name <- Groups
  Host = h
  Client = {a}
  Lobby = lobby
  Game = game
  MaxScans = 2
  MaxDrops = 1
  MaxEntries = 2
  MaxStarts = 1
CHECK_DEADLOCK FALSE
INVARIANTS
  TypeOK
  KnowsGroup
  NoKick
  InGameIsMember
PROPERTIES
  StartEnds
  CallsSucceed
