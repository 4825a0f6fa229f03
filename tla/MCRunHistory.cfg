\* Two callers, two contracts, three calls between them.
CONSTANTS
  Null = Null
  p1 = p1
  p2 = p2
  Callers = {p1, p2}
  Contracts = {1, 2}
  Bundles <- BothContracts
  Contexts <- Seen
  Decisions <- OneDecision
  MaxCalls = 3
SPECIFICATION Spec
SYMMETRY CallerSymmetry
INVARIANTS
  TypeOK
  ReturnedIsShown
  LogTellsSweep
PROPERTIES
  ReturnedStaysShown
  NoSilentChange
\* Every call ends.
CHECK_DEADLOCK FALSE
