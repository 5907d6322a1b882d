SPECIFICATION Spec
CONSTANTS
  s1 = s1
  s2 = s2
  Services = {s1, s2}
  Reporters = {}
  Quitters = {s2}
  MaxBatch = 3
  MaxReports = 0
  DEFAULT_RXPKTS_LIST_SIZE = 1
INVARIANTS
  TypeOK
  ListIntact
  TakenBeforeFreed
PROPERTIES
  Implements
CHECK_DEADLOCK FALSE
