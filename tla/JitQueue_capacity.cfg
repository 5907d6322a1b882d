SPECIFICATION Spec
CONSTANTS
  W = 128
  TX_START_DELAY = 1
  TX_MARGIN_DELAY = 1
  TX_JIT_DELAY = 4
  TX_MAX_ADVANCE_DELAY = 24
  BEACON_GUARD = 6
  BEACON_RESERVED = 3
  ASAP_DELAY = 10
  ToA = {2}
  JIT_QUEUE_MAX = 1
  Enqueuers = {e1, e2}
  Types = {"A", "BEACON"}
  Departures = {1, 2, 16}
  BeaconSlots = {1, 2, 16}
  Start = 122
  Horizon = 7
  POLL_LAG = 1
  ENQ_LAG = 1
  LoadBound = 1
INVARIANT
  QueueCapacity
