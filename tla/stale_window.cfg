SPECIFICATION Spec
CONSTANTS
    i1 = i1
    i2 = i2
    u1 = u1
    u2 = u2
    c1 = c1
    a1 = a1
    t1 = t1
    t2 = t2
    h1 = h1
    h2 = h2
    h3 = h3
    Ids = {i1, i2}
    Users = {u1, u2}
    Names = {c1, a1}
    Targets = {t1, t2}
    Expiries = {1}
    NoRow = NoRow
    NoAlias = NoAlias
    Never = Never
    Keep = Keep
    NoView = NoView
    NoName = NoName
    NoKeys = NoKeys
    NoChange = NoChange
    Handlers = {h1, h2}
    Seed <- MCSeed
    NewRows <- MCNewRows
    Changes <- MCChanges
    TicksPerSecond = 1
    CACHE_TTL_SECONDS = 1
    Horizon = 1
    RedisFaults = FALSE
    Crashes = FALSE
SYMMETRY MCSymmetry
INVARIANT StaleOnlyInWindow
