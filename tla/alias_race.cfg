SPECIFICATION Spec
CHECK_DEADLOCK FALSE
CONSTANTS
    u1 = u1
    t1 = t1
    c1 = c1
    c2 = c2
    r1 = r1
    p1 = p1
    p2 = p2
    p3 = p3
    Requests = {p1, p2}
    Ids = {1, 2}
    Users = {u1}
    Names = {c1, c2, r1}
    Targets = {t1}
    Expiries = {}
    NoRow = NoRow
    NoAlias = NoAlias
    Never = Never
    NoInput = NoInput
    NoRequest = NoRequest
    Inputs <- MCInputs
    Codes = {c1, c2}
    Reserved = {r1}
    MAX_RETRIES = 2
    DbFaults = FALSE
INVARIANT
    TakenAliasIsReported
