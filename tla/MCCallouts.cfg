SPECIFICATION Spec
CONSTANTS
  c1 = c1
  c2 = c2
  x1 = x1
  x2 = x2
  x3 = x3
  x4 = x4
  p1 = p1
  p2 = p2
  Cpu = {c1, c2}
  Callout = {x1, x2, x3, x4}
  Task = {p1, p2}
  Locked = {x1}
  Direct = {x3, x4}
  None = None
  CPUBLOCK = CPUBLOCK
  BucketSpan = 2
  callwheelsize = 4
  Lookahead <- MCLookahead
  SBT_MAX = 20
  tc_precexp = 1
  Scenarios <- MCScenarios
INVARIANTS
  PendingMeansListed
  ScanStaysInBucket
  EventTimerIsInTime
  StopMeansCancelled
  SleepersAreWoken
PROPERTIES
  DrainMeansGone
