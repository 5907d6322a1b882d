SPECIFICATION FairSpec
CONSTANTS
  s1 = s1
  s2 = s2
  Services = {s1, s2}
  Reporters = {s1}
  Quitters = {}
  MaxBatch = 3
  MaxReports = 1
  DEFAULT_RXPKTS_LIST_SIZE = 3
INVARIANTS
  BindIsRemaining
PROPERTIES
  Delivered
CHECK_DEADLOCK FALSE
