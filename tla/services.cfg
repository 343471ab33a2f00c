SPECIFICATION ServicesSpec
CONSTANTS
  c1 = c1
  c2 = c2
  c3 = c3
  Calls = {c1, c2, c3}
  Motions = {c1, c2}
  Listings = {c3}
  Pages = 2
  Casts <- TheCasts
  MaxSockets = 2
  MaxTurns = 2
  MaxTalks = 1
  MaxFrames = 7
  MaxListens = 2
  MinSpeech = 2
  MinSilence = 2
  Preroll = 3
  HoldMax = 2
  Cap = 4
  MaxStreams = 2
  Chunks = 3
  PipeSize = 1
  Burst = 2
  DecodeFrames = 3
  ClipFrames = 2
  MaxLate = 1
CHECK_DEADLOCK FALSE
INVARIANTS CatalogIsWhole OneSocket SomebodyReads ResetCuts SentAsSpoken HeldIsFlushed OverflowsAfterStall
PROPERTIES RefinesCalls ChatEnds StreamsEnd
