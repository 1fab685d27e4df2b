SPECIFICATION MCSpec
CONSTANTS
    n1 = n1
    n2 = n2
    k1 = k1
    k2 = k2
    a1 = a1
    a2 = a2
    b1 = b1
    b2 = b2
    x1 = x1
    x2 = x2
    x3 = x3
    y1 = y1
    Procs <- MCProcs
    Keys <- MCKeys
    Runs <- MCRuns
    JobOf <- MCJobOf
    ProcOf <- MCProcOf
    Servers <- MCProcs
    Calls <- MCCalls
    EventOf <- MCEventOf
    ServerOf <- MCServerOf
    MaxFaults = 2
    MaxStray = 3
    MaxCrashes = 2
INVARIANTS OverlapBound CallsOverlapBound
PROPERTIES CronsRunAgain ImplementsPermits AttemptsHeal
