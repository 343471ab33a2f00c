SPECIFICATION FairSpec
CONSTANTS
  Turns = {t1, t2}
  Inputs <- VoiceInputs
  Replies <- VoiceReplies
  Faults = {"begin"}
  MaxInputs = 3
  QueueSize = 4
CHECK_DEADLOCK FALSE
INVARIANTS TypeOK OneTurn QueueIsCurrent
PROPERTIES AudioInWindow ListeningIsAnswered
