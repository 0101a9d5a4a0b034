SPECIFICATION Spec
CONSTANTS
  c1 = c1
  c2 = c2
  x1 = x1
  x2 = x2
  p1 = p1
  p2 = p2
  Cpu = {c1, c2}
  Timer = {x1, x2}
  Task = {p1, p2}
  NoTimer = NoTimer
  LVL_CLK_SHIFT = 1
  LVL_BITS = 2
  LVL_DEPTH = 3
  NEXT_TIMER_MAX_DELTA = 30
  Scenarios <- MCScenarios
CHECK_DEADLOCK FALSE
INVARIANTS
  QueuedOnce
  BucketsOnTime
  IdleCpuWakesInTime
  HandlersSerialised
PROPERTIES
  SyncMeansGone
