SPECIFICATION FairSpec
CONSTANTS
  Turns = {t1, t2}
  Inputs = {"chat"}
  Replies = {"reply"}
  Faults = {"reconnect"}
  MaxInputs = 2
  QueueSize = 4
CHECK_DEADLOCK FALSE
PROPERTIES LockIsReleased
