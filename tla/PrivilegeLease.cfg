SPECIFICATION MCSpec
CONSTANTS
    b1 = b1
    b2 = b2
    Batch = {b1, b2}
    Request = {r1, r2}
    Scheduler = s
    Config <- MCConfig
    MaxOfflines = 2
    MaxEvents = 1
    Flows = 3
    Poison = {1}
    MaxItems = 2
    Update = TRUE
    Manual = {m}
    Watcher = w
    MaxManual = 1
    MaxTests = 1
    MaxFaults = 1
    off = off
INVARIANTS  ImportsEarned
 
CHECK_DEADLOCK FALSE
