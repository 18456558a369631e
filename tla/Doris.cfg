SPECIFICATION MCSpec
CONSTANTS
  Job <- MCJob
  Automation <- MCAutomation
  Windowed <- MCAutomation
  Tables = 2
  Worker = {w1, w2}
  MaxRotations = 1
  MaxStops = 1
  MaxFaults = 1
  NJobs = 2
  Kinds <- MCKinds
  MaxCopies = 1
  MaxEvents = 2
  off = off
INVARIANTS WrittenAsRecorded 
PROPERTY JobsEnd
CHECK_DEADLOCK FALSE
