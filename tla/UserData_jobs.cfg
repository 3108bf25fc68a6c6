SPECIFICATION MCSpec
CONSTANTS
    Users = {u1}
    Sessions = {s1}
    Messages = {m1}
    Procs = {p1, p2}
    PoolSize = 1
    Windows = {0}
    Forever = forever
    Interval = 0
    Grace = 0
    MaxTime = 1
    MaxHolds = 2
    MaxEdits = 2
    MaxFaults = 1
    NoUser = none
    NoSession = none
SYMMETRY Symmetric
INVARIANT TypeOK
PROPERTIES DigestCadence RetentionKeepsRecent
CHECK_DEADLOCK FALSE
