SPECIFICATION PartsSpec
CONSTANTS
  v1 = v1
  v2 = v2
  t1 = t1
  t2 = t2
  NoOne = NoOne
  Viewers = {v1, v2}
  Tasks = {t1, t2}
  Cells = 3
  WinsNeeded = 1
  MaxCommands = 3
  MaxRounds = 2
  MaxBarges = 1
  MaxTouches = 4
  Kinds = {"chat"}
  TicksPerDay = 1
  Neglect = 1
  BondNeglect = 2
  LastTick = 5
  MaxDecays = 1
  b1 = b1
  b2 = b2
  m1 = m1
  m2 = m2
  Screens = {b1, b2}
  Broadcasts = {m1, m2}
  HistoryMax = 1
  MaxLines = 2
  None = None
  MaxMovers = 2
  d1 = d1
  k1 = k1
  k2 = k2
  Nil = Nil
  Robots = {d1}
  MaxRequests = 3
  Codes = {k1, k2}
  Ttl = 1
  MaxClock = 1
CHECK_DEADLOCK FALSE
INVARIANTS OneGame CreditedOnce BusyIsBusy NothingMissed StreakIsEarned MediumNeverLoses ToldConnects WrappedIsHashed
PROPERTIES CountdownEnds TouchSurvivesDecay DisabledStays
