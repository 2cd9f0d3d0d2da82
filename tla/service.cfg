SPECIFICATION Spec
CONSTANTS
    r1 = r1
    r2 = r2
    main = main
    i1 = i1
    i2 = i2
    s1 = s1
    s2 = s2
    Requests = {r1, r2}
    Clients = {r1, r2, main}
    NoClient = NoClient
    Main = main
    Ips = {i1, i2}
    Signals = {s1, s2}
    MAX_RETRIES = 1
    MaxFaults = 1
    WINDOW = 2
    MAX = 1
    MaxTime = 2
    Never = Never
    Workloads <- MCWorkloads
SYMMETRY MCSymmetry
CHECK_DEADLOCK FALSE
INVARIANTS
    TypeOK
    AdmittedWithinLimit
    RefusedOnlyOverLimit
    CountersExpire
    FailsClosed
    FlagsFollowOneConnection
    CleanExit
