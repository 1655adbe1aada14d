SPECIFICATION Spec
CONSTANTS
  a = a
  b = b
  c = c
  None = None
  Player = {a, b, c}
  First = a
  MaxCalls = 2
  MayLeave = {b}
  Lossy = {c}
  NetCap = 1
CHECK_DEADLOCK FALSE
INVARIANTS
  TypeOK
  OneOwner
  AcksAreCopies
  StaleIsDoomed
