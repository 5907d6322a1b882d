SPECIFICATION Spec
CONSTANTS
  W = 67
  TX_START_DELAY = 0
  TX_MARGIN_DELAY = 0
  TX_JIT_DELAY = 1
  TX_MAX_ADVANCE_DELAY = 33
  BEACON_GUARD = 1
  BEACON_RESERVED = 0
  ASAP_DELAY = 1
  ToA = {0}
  JIT_QUEUE_MAX = 5
  Loaders = {l1}
  JIT_NUM_BEACON_IN_QUEUE = 3
  PERIOD = 8
  Advances = {2}
  REF_AGE = 2
  RECV_LAG = 2
  MaxOutage = 42
  MaxTime = 68
INVARIANTS
  TypeOK
  Truthful
  EveryPeriod
