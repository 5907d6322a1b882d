SPECIFICATION FairSpec
CONSTANTS
  d1 = d1
  d2 = d2
  n1 = n1
  n2 = n2
  n3 = n3
  Dev = {d1, d2}
  Node = {n1, n2, n3}
  NULL = NULL
  TIME = TIME
  IMME = IMME
  FIELD = FIELD
  LIMIT = 1
  Loads <- ListLoads
INVARIANTS
  TypeOK
  KeptNewest
  AcceptedOnce
PROPERTIES
  Stops
CHECK_DEADLOCK FALSE
