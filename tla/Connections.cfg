SPECIFICATION MCSpec
CONSTANTS
    MaxRows = 4
    Dsns = {d1, d2}
    Procs = {p1, p2}
    Requests = {r1, r2}
    CacheSize = 1
    Limit = 4
    MaxClients = 3
    MaxRequests = 3
    NoDsn = none
    NoProc = none
SYMMETRY Symmetric
INVARIANTS OneDefault StaleOnlyBehind ClientsAccounted
CHECK_DEADLOCK FALSE
