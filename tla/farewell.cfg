SPECIFICATION FairSpec
CONSTANTS
  Turns = {t1, t2}
  Inputs <- FarewellInputs
  Replies <- FarewellReplies
  Faults = {"begin", "reset", "tts", "timeout"}
  MaxInputs = 4
  QueueSize = 4
CHECK_DEADLOCK FALSE
PROPERTIES SpeakingEnds GoodbyeIsDelivered BusyEnds
