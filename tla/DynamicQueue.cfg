SPECIFICATION Spec
CONSTANTS
    p1 = p1
    p2 = p2
    j1 = j1
    j2 = j2
    j3 = j3
    c1 = c1
    c2 = c2
    c3 = c3
    key = key
    None = None
    MonitorKey = key
    Keys <- MCKeys
    Procs <- OneProc
    Calls <- MCCalls
    Placements <- Together
    Clients = {c1, c2, c3}
    MaxBoots = 0
    MaxFaults = 1
SYMMETRY Symmetry
INVARIANTS OneWorker QuietCleanup ClientsKept
PROPERTY StartedJobKept
CHECK_DEADLOCK FALSE
