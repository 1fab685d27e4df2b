SPECIFICATION MCSpec
CONSTANTS
    Messages = {m1, m2}
    Readers = {r1, r2}
    MaxRetries = 2
    Batch = 2
    MaxConcurrent = 1
    MaxLog = 3
    MaxRefused = 3
    MaxFaults = 3
    First = r1
    Only = m1
    FewFaults = 1
    FewRefused = 0
    FewEntries = 2
    PoolSize = 4
    MaxChains = 2
    Connects = {n1, n2}
    Queues = {q1}
    None = 0
    MaxFailed = 1
    MaxErrors = 1
INVARIANTS GroupHolds PoolHolds
PROPERTIES DeliverySpec DroppedFromPending Settles StreamsRecover BoardFollows
CHECK_DEADLOCK FALSE
