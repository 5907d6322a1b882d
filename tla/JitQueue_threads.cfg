SPECIFICATION Spec
CONSTANTS
  W = 256
  TX_START_DELAY = 1
  TX_MARGIN_DELAY = 1
  TX_JIT_DELAY = 4
  TX_MAX_ADVANCE_DELAY = 24
  BEACON_GUARD = 6
  BEACON_RESERVED = 3
  ASAP_DELAY = 7
  ToA = {1}
  JIT_QUEUE_MAX = 2
  Enqueuers = {e1, e2}
  Types = {"A","B","C","BEACON"}
  Departures = {1}
  BeaconSlots = {5}
  Start = 250
  Horizon = 8
  POLL_LAG = 1
  LoadBound = 2
  ENQ_LAG = 1
INVARIANTS
  TypeOK
  SentOnTime
  NeverMissed
  ImmediateAccepted
  RoomToProgram
  BeaconCount
  NoOverlap
SYMMETRY EnqueuerSymmetry
PROPERTIES
  Implements
