\* Links of the queues; the client pushes only nodes with clear links.
SPECIFICATION Spec
CONSTANTS
  Node = {n1, n2, n3, n4}
  NULL = NULL
  MaxLen = 6
SYMMETRY Symmetry
INVARIANTS
  QueueLinksHold
  FreedNodesAreUnused
