SPECIFICATION FairSpec
CONSTANTS
  NoValue = NoValue
  s1 = s1
  p1 = p1
  a1 = a1
  e1 = e1
  Value = {v1, v2}
  Scheduler <- MCScheduler
  Request <- MCRequest
  Admin <- MCAdmin
  Executor <- MCExecutor
  Config <- MCConfig
  Threshold = 1
  QueueLimit = 1
  MaxRuns = 2
  Bound <- MCBound
INVARIANT RunsGuarded
PROPERTIES WatermarkEarned CatchesUp
CHECK_DEADLOCK FALSE
