SPECIFICATION Spec
CONSTANTS
    Requests = {a, b}
    Questions = {q}
    Dialects = {d1}
    Connections = {c1, c2}
    Sessions = {}
    FollowUps = {}
    Vague = {}
    Smalltalk = {}
    Workload <- Isolated
    MaxRetries = 2
    MaxRateLimits = 1
    MaxVersion = 1
    PastTurns = 0
    NoSession = nosession
    NoSql = nosql
SYMMETRY Symmetric
INVARIANTS ConnectionScoped CacheVetted FreshRows RowsOrError
CHECK_DEADLOCK FALSE
