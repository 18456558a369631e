SPECIFICATION PlatformFairSpec
CONSTANTS
  NoNode = NoNode
  Node <- MCNode
  Release <- MCRelease
  Starter = {s1, s2}
  Executor = {e1, e2}
  MaxRuns = 2
  Bound <- MCBound
  MaxFaults = 2
  Session <- MCSession
  Kinds = {"sql", "sm4", "trigger"}
  Version <- MCVersion
  MaxEdits = 1
  MaxRequests = 3
  MaxRestarts = 1
  Schedule = {"a", "b"}
  TypeOf <- MCTypeOf
  MaxScheduleRequests = 2
  MaxNow = 2
  MaxFailures = 1
  off = off
INVARIANTS RunsFollowRelease OneRunPerVersion VersionsKept SchedulesKept
PROPERTIES PublishedFrozen RunsEnd
CHECK_DEADLOCK FALSE
