\* An element that has a timer is set again.
SPECIFICATION Spec
CONSTANTS
  Element = {a, b}
  Node = {n1, n2}
  TTL = {1, 2}
  NULL = NULL
  MaxClock = 3
  MaxLen = 3
  MayFail = FALSE
  ClockBack = FALSE
SYMMETRY Symmetry
INVARIANTS
  OneTimerPerElement
