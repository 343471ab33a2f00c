SPECIFICATION FairSpec
CONSTANTS
  Turns = {t1, t2}
  Inputs = {"wake", "chat"}
  Replies = {"reply", "raise"}
  Faults = {}
  MaxInputs = 2
  QueueSize = 4
CHECK_DEADLOCK FALSE
PROPERTIES ListeningIsAnswered
