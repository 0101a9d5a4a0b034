\* Order of the queues, next_at and refinement of TimerStore, with elements set again.
SPECIFICATION Spec
CONSTANTS
  Element = {a, b}
  Node = {n1, n2, n3}
  TTL = {0, 2}
  NULL = NULL
  MaxClock = 4
  MaxLen = 3
  MayFail = FALSE
  ClockBack = FALSE
SYMMETRY Symmetry
INVARIANTS
  NextAtIsClosest
PROPERTIES
  ImplementsTimerStore
