SPECIFICATION Spec
CONSTANTS
  NONE = NONE
  Configs <- SomeConfigs
  MaxSema = 1
INVARIANTS
  OnlyCancelledRemain
  EndsUnlessOrphaned
\* The program ends.
CHECK_DEADLOCK FALSE
