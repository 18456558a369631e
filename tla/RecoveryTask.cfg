SPECIFICATION MCSpec
CONSTANTS
  t1 = t1
  w1 = w1
  w2 = w2
  r1 = r1
  d1 = d1
  d2 = d2
  u1 = u1
  u2 = u2
  off = off
  Task <- MCTask
  Worker <- MCWorker
  Request <- MCRequest
  Op <- AllOps
  Embedded <- MCTask
  RepeatableRead = TRUE
  MaxGrants = 2
  MaxRedeliveries = 1
  MaxCrashes = 1
  Engines = {"mysql", "doris", "ftp", "oracle", "sqlserver"}
  Targets = {d1, d2}
  System = {sys}
  Units = {u1, u2}
  SystemUnits = {}
  ConfiguredFiles = {u1}
  Layouts <- MCLayouts
  Requests = {q1, q2}
  MaxMoves = 1
  MaxFaults = 1
INVARIANTS ExclusiveRun NeighboursSpared
PROPERTIES TerminalIsFinal ClaimsSpec RunsEnd StorageGone
CHECK_DEADLOCK FALSE
