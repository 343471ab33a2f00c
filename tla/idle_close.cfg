SPECIFICATION FairSpec
CONSTANTS
  MaxConns = 1
  Devices = {robot}
  MaxSessions = 1
  MaxEvents = 2
CHECK_DEADLOCK FALSE
PROPERTIES CloseClosesSocket
