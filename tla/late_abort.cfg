SPECIFICATION FairSpec
CONSTANTS
  Turns = {t1, t2}
  Inputs = {"wake", "abort"}
  Replies = {"reply"}
  Faults = {}
  MaxInputs = 2
  QueueSize = 4
CHECK_DEADLOCK FALSE
PROPERTIES SpeakingEnds
