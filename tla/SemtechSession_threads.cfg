SPECIFICATION FairSpec
CONSTANTS
  f1 = f1
  f2 = f2
  FD = {f1, f2}
  NOSOCK = NOSOCK
  RATIO = 2
  Loads <- ThreadLoads
INVARIANTS
  TypeOK
  
  Conservation
  AnsweredOnce
PROPERTIES
  ReportOnce
  ReportLeaves
  Reconnects
  Stops
CHECK_DEADLOCK FALSE
