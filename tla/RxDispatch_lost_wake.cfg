SPECIFICATION FairSpec
CONSTANTS
  s1 = s1
  s2 = s2
  Services = {s1}
  Reporters = {}
  Quitters = {}
  MaxBatch = 2
  MaxReports = 0
  DEFAULT_RXPKTS_LIST_SIZE = 1
PROPERTIES
  Delivered
CHECK_DEADLOCK FALSE
