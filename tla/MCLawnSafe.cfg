\* Memory safety in any surroundings: keys set twice, failed allocations, a clock set back.
SPECIFICATION Spec
CONSTANTS
  Element = {a, b}
  Node = {n1, n2, n3}
  TTL = {1, 2}
  NULL = NULL
  MaxClock = 3
  MaxLen = 3
  MayFail = TRUE
  ClockBack = TRUE
SYMMETRY Symmetry
INVARIANTS
  QueuesHoldOwnedNodes
  ElementMapLeadsToOwnedNodes
