SPECIFICATION Spec
CONSTANTS
    q1 = q1
    q2 = q2
    q3 = q3
    q4 = q4
    Requests <- FourRequests
    Kinds = {"login", "logout", "refresh", "change", "forgot", "rotate"}
    Databases = {"mongoose", "firebase"}
    Orig = Orig
    MaxNow = 2
    MaxFaults = 1
SYMMETRY Symmetry
INVARIANTS EndedStaysEnded LoginsLast PasswordChangeRevokes EndedTokensRefused AccountReachable
CHECK_DEADLOCK FALSE
