SPECIFICATION MCSpec
CONSTANTS
    Attempts = 2
    MaxRetries = 1
    InitTries = 1
    MaxConns = 4
    MaxChans = 3
    MaxFaults = 2
    Messages = {m1, m2}
    Tries = 2
    AckBatch = 2
    Prefetch = 3
INVARIANTS ConnectionHolds DeliveryHolds
PROPERTIES ConnectionRecovers AllLeave
CHECK_DEADLOCK FALSE
