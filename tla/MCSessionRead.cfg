SPECIFICATION Spec
CONSTANTS
  Tapes <- MCTapes
  DayLength = 10
  Window <- MCWindow
  Segments <- MCSegments
  Today = 3
  WeekStart = 2
  Lookback = 2
  Comparisons <- MCComparisons
  HalvesUp <- MCHalvesUp
  m1 = m1
  m2 = m2
  Megacaps = {m1, m2}
  LondonClose = 7
  BalanceMinutes = 3
  BalanceSpan = 1
  FirstInstant = 72
  LastInstant = 79
  Compiles = 2
  Null = Null
  LEVEL_PROXIMITY_THRESHOLD_TICKS <- MCThreshold
  OperatorLevels <- MCLevels
  TriggerLevels <- MCTriggers
INVARIANTS
  OnlyTheMarketIsRefused
  PacketCoheres
  ReadingFitsTape
  AverageDayReadsAverage
PROPERTIES
  EarlierPacketsStand
CHECK_DEADLOCK FALSE
