\* Safety of lawn2 and refinement of TimerStore.
SPECIFICATION Spec
CONSTANTS
  Node = {n1, n2, n3}
  TTL = {0, 2, 3}
  UINT64_MAX = 5
  MaxNow = 5
INVARIANTS
  TypeOK
  StoreIsConsistent
  BladesSelfSorted
  NextExpirationIsLowerBound
PROPERTIES
  ImplementsTimerStore
  PollLeavesNothingDue
