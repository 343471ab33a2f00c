SPECIFICATION FairSpec
CONSTANTS
  MaxConns = 2
  Devices = {robot}
  MaxSessions = 1
  MaxEvents = 2
CHECK_DEADLOCK FALSE
INVARIANTS LiveSocketIsReleased
