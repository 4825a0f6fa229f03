\* Three runs in one audit log, with every failure.
CONSTANTS
  Null = Null
  r1 = r1
  r2 = r2
  r3 = r3
  Runs = {r1, r2, r3}
  Audited = {r1, r2, r3}
  Decisions <- OneDecision
SPECIFICATION Spec
SYMMETRY RunSymmetry
INVARIANTS
  TypeOK
  ToldIsRecorded
  LossHasACause
PROPERTIES
  ReportsOnlyGrow
CHECK_DEADLOCK FALSE
