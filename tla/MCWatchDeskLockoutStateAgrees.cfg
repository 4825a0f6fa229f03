\* The lockout state and the lockout flag of one context.
CONSTANTS
  Null = Null
  CL = CL
  ES = ES
  Contracts = {CL}
  Day = 7
  Hours <- OneDay
  Limits <- TightLimits
  StalenessThreshold = 1
  WindDownMinutes = 2
  ElevatedWindow = 4
  Horizon = 3
  Skew = 0
  Schedules <- Days
  Triggers <- OneTrigger
  TradeBound = 0
  Features <- AnyFeature
SPECIFICATION Spec
INVARIANTS
  LockoutStateAgrees
CHECK_DEADLOCK FALSE
