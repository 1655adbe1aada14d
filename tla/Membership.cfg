SPECIFICATION LiveSpec
CONSTANTS
  N = 2
  TimeMod = 3
  MULTI_TIME_OUT_2 = 1
  MULTI_ABORT_PLAYER_COUNT = 2
CHECK_DEADLOCK FALSE
INVARIANTS
  TypeOK
  FollowsHost
PROPERTIES
  
  SilenceIsNoticed
  AllGetIn
