SPECIFICATION FairSpec
CONSTANTS
  MaxConns = 3
  Devices = {robot, other}
  MaxSessions = 1
  MaxEvents = 2
CHECK_DEADLOCK FALSE
INVARIANTS TypeOK OneServing ServedIsRegistered SlotsAreFreed GaugeIsBalanced PresenceIsTrue
PROPERTIES ClosedIsGone
