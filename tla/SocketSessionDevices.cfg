SPECIFICATION Spec
CONSTANTS
    p1 = p1
    p2 = p2
    d1 = d1
    d2 = d2
    d3 = d3
    None = None
    Procs <- TwoProcs
    Conns <- MCConns
    ProcOf <- Apart
    MaxFaults = 0
SYMMETRY Symmetry
INVARIANT OldDeviceIsOut
CHECK_DEADLOCK FALSE
