SPECIFICATION FairSpec
CONSTANTS
    i1 = i1
    i2 = i2
    u1 = u1
    u2 = u2
    c1 = c1
    a1 = a1
    t1 = t1
    t2 = t2
    h1 = h1
    h2 = h2
    h3 = h3
    Ids = {i1}
    Users = {u1, u2}
    Names = {c1, a1}
    Targets = {t1, t2}
    Expiries = {3}
    NoRow = NoRow
    NoAlias = NoAlias
    Never = Never
    Keep = Keep
    NoView = NoView
    NoName = NoName
    NoKeys = NoKeys
    NoChange = NoChange
    Handlers = {h1, h2}
    Seed <- MCSeed
    NewRows = {}
    Changes <- MCEndings
    TicksPerSecond = 2
    CACHE_TTL_SECONDS = 2
    Horizon = 3
    RedisFaults = TRUE
    Crashes = TRUE
 
PROPERTIES
    EventuallyConsistent
    TtlRespectsExpiry
    StalenessRunsDown
