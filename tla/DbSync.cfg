SPECIFICATION FairSpec
CONSTANTS
  Key = {k1, k2}
  Value = {v1}
  NONE = NONE
  MaxWrites = 4
  MaxFails = 1
  MaxCrashes = 1
PROPERTIES
  ClosesWhole
  Implements
  Exits
CHECK_DEADLOCK FALSE
