\* Two contracts of one account that trades, wins, stops out and is reported late.
CONSTANTS
  Null = Null
  CL = CL
  ES = ES
  Contracts = {CL, ES}
  Day = 7
  Hours <- OneDay
  Limits <- AccountLimits
  StalenessThreshold = 1
  WindDownMinutes = 2
  ElevatedWindow = 4
  Horizon = 1
  Skew = 0
  Schedules <- NoRelease
  Triggers <- OneTrigger
  TradeBound = 3
  Features <- SoundFeature
SPECIFICATION Spec
INVARIANTS
  TypeOK
PROPERTIES
  TradeLimitIsShared
  ClearMeansWithinLimits
SYMMETRY ContractSymmetry
CHECK_DEADLOCK FALSE
