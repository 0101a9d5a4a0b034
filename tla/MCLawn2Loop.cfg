\* The event loop of the guide: handlers re-arm while the expired list is walked.
SPECIFICATION LoopSpec
CONSTANTS
  Node = {n1, n2, n3}
  TTL = {0, 2}
  UINT64_MAX = 9
  MaxNow = 3
  NULL = NULL
  InitBits = 1
  MaxBits = 3
  Hash <- CollidingHash
INVARIANT WalkMeetsTheExpired
PROPERTY EveryTimerIsHandled
