SPECIFICATION FairSpec
CONSTANTS
  GHST_NM_RCV = 3
  NB_PKT_MAX = 2
  MaxMsg = 6
INVARIANTS
  TypeOK
  NoTornRead
PROPERTIES
  Implements
  Answered
