SPECIFICATION Spec
CONSTANTS
    Plan <- MCPlan
    File = {f1, f2}
    Scheduler = {c1}
    MaxResumes = 1
    MaxEdits = 0
    MaxFaults = 0
INVARIANT OneInFlight
CHECK_DEADLOCK FALSE
