SPECIFICATION FairSpec
CONSTANTS
  Turns = {t1, t2}
  Inputs <- CompanionInputs
  Replies = {"reply", "raise", "farewell"}
  Faults = {"decode"}
  MaxInputs = 2
  QueueSize = 4
CHECK_DEADLOCK FALSE
INVARIANTS OneTurn
PROPERTIES ClosedSilence LockIsReleased ClosedWindsDown
