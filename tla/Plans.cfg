SPECIFICATION PlansSpec
CONSTANTS
  Batch = {b1}
  Scheduler = {s1}
  Request = {u1, u2}
  Op <- AllOps
  SyncBound = TRUE
  WorkflowBound = TRUE
  EncryptionOn = TRUE
  AccessOn = TRUE
  MaxRequests = 2
  Asset = {"x", "y"}
  Edge <- MCEdge
  Event <- MCEvent
  Writer = {u1, u2}
  Worker = {p1, p2}
  MaxAttempts = 2
  MaxBucket = 1
  MaxOps = 2
  MaxOutages = 2
  Plan <- MCPlan
  File = {f1}
  Advancer = {u1, u2}
  MaxResumes = 1
  MaxEdits = 1
  MaxFaults = 1
  off = off
SYMMETRY Alike
INVARIANT StagesAsConfirmed
CHECK_DEADLOCK FALSE
