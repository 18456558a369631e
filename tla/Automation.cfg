SPECIFICATION MCSpec
CONSTANTS
  Target = {t1}
  Dispatcher = {d1, d2}
  Executor = {e1, e2}
  MaxFaults = 2
  MaxCrashes = 1
  Batch = {b1}
  Scheduler = {s1}
  Request = {r1}
  Op <- WithoutScan
  SyncBound = TRUE
  WorkflowBound = TRUE
  EncryptionOn = TRUE
  AccessOn = TRUE
  MaxRequests = 2
  off = off
INVARIANTS  NothingForgotten 
 
CHECK_DEADLOCK FALSE
