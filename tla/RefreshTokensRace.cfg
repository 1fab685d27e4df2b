SPECIFICATION Spec
CONSTANTS
    q1 = q1
    q2 = q2
    q3 = q3
    q4 = q4
    Requests <- ThreeRequests
    Kinds = {"login", "logout", "refresh", "change", "forgot"}
    Databases = {"mongoose"}
    Orig = Orig
    MaxNow = 2
    MaxFaults = 0
INVARIANT AllTokensRevoked
CHECK_DEADLOCK FALSE
