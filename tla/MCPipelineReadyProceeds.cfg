CONSTANTS
  Contracts = {"ES", "NQ"}
  Null = Null
  Scores = {0, 4, 6, 7}
  Conflicts = {0, 2, 3}
  Sizes = {0, 1, 2}
  MaxRetries = 1
  Payloads <- WidePayloads
SPECIFICATION Spec
INVARIANT
  ReadyProceeds
CHECK_DEADLOCK FALSE
