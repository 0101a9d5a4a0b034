\* The linked structures of lawn2 implement its queues.
SPECIFICATION Spec
CONSTANTS
  Node = {n1, n2, n3}
  TTL = {0, 2, 3}
  UINT64_MAX = 4
  MaxNow = 4
  NULL = NULL
  InitBits = 1
  MaxBits = 3
  Hash <- CollidingHash
SYMMETRY Symmetry
INVARIANTS
  LinksMirror
  TableFindsEveryTTL
PROPERTY ImplementsLawn2
