SPECIFICATION FairSpec
CONSTANTS
  Config <- MCConfig
  Tables = 3
  Batches = 2
  Parallelism = 2
  MaxAttempts = 2
  MaxProbes = 2
  MaxFaults = 2
INVARIANT RowsAccounted
PROPERTY RunEnds
CHECK_DEADLOCK FALSE
