SPECIFICATION MCSpec
CONSTANTS
    f1 = f1
    f2 = f2
    f3 = f3
    r1 = r1
    r2 = r2
    r3 = r3
    a1 = a1
    a2 = a2
    s = s
    c = c
    d = d
    a = a
    b = b
    m = m
    e = e
    i1 = i1
    i2 = i2
    off = off
    Uploads <- MCUploads
    Askers = {asker1}
    Threads = {thread1, thread2}
    Sample = 2
    MaxRequests = 2
    Rows = {r1, r2, r3}
    Procs = {p1, p2}
    Deletions <- MCDeletions
    Batches <- MCBatches
    MaxExpiries = 2
    Flows <- MCFlows
    Items = {i1, i2}
    Workers = {w1}
    MaxEdits = 1
    MaxRuns = 2
    MaxFaults = 1
INVARIANTS   OneLiveToken FlowsHonest
PROPERTY ServicesAnswer
CHECK_DEADLOCK FALSE
