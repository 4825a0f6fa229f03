SPECIFICATION Spec
CONSTANTS
  Null = Null
  Profiles <- SmallProfiles
INVARIANTS
  OneRunAroundPoc
  SeventyPercentAndNoMore
  CopiesAgree
PROPERTIES
  Returns
CHECK_DEADLOCK FALSE
