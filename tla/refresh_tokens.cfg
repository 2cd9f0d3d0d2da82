SPECIFICATION Spec
CONSTANTS
    h1 = h1
    h2 = h2
    e1 = e1
    k1 = k1
    k2 = k2
    k3 = k3
    k4 = k4
    Handlers = {h1, h2}
    Emails = {e1}
    TokenIds = {k1, k2, k3, k4}
    RefreshTtl = 1
    Horizon = 2
    Crashes = TRUE
    NoToken = NoToken
    NoId = NoId
    NoBody = NoBody
SYMMETRY MCSymmetry
INVARIANTS
    TypeOK
    OneTokenPerSession
    SessionEndsAtLogout
    SessionKept
PROPERTIES
    DeadSessionsStayDead
