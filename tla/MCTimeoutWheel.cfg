\* Two wheels of four slots, so that timeouts cascade and exceed TIMEOUT_MAX.
SPECIFICATION Spec
CONSTANTS
  Timeout = {t1, t2, t3}
  Third = t3
  NoTimeout = NoTimeout
  WHEEL_BIT = 2
  WHEEL_NUM = 2
  WordLog = 3
  Clients <- BothClients
  HZ = 2
SYMMETRY Symmetry
INVARIANTS
  ListsAndBitsAgree
  CheckHolds
  IterationIsComplete
PROPERTIES
  UpdatesExpireTheDue
  IntervalsKeepPhase
