SPECIFICATION TalkSpec
CONSTANTS
    Requests = {a, b}
    Questions = {q, f, v, hi}
    Dialects = {d1}
    Connections = {c1}
    Sessions = {s1}
    FollowUps = {f, v}
    Vague = {v}
    Smalltalk = {hi}
    Workload <- Talk
    MaxRetries = 2
    MaxRateLimits = 0
    MaxVersion = 0
    PastTurns = 1
    NoSession = nosession
    NoSql = nosql
INVARIANTS TypeOK OwnContext
PROPERTY ImplementsService
CHECK_DEADLOCK FALSE
