\* One contract over a whole small day and into the next, with every calendar and no trades.
CONSTANTS
  Null = Null
  CL = CL
  ES = ES
  Contracts = {CL}
  Day = 7
  Hours <- OneDay
  Limits <- TightLimits
  StalenessThreshold = 1
  WindDownMinutes = 2
  ElevatedWindow = 4
  Horizon = 8
  Skew = 1
  Schedules <- Days
  Triggers <- AllTriggers
  TradeBound = 0
  Features <- AnyFeature
SPECIFICATION Spec
INVARIANTS
  OnlyTimeReleases
PROPERTIES
  ClearMeansOpen
CHECK_DEADLOCK FALSE
