SPECIFICATION FairSpec
CONSTANTS
    p1 = p1
    p2 = p2
    t1 = t1
    t2 = t2
    t3 = t3
    Processes = {p1, p2}
    Deployments <- Pairs
    Tables = {t1, t2, t3}
    FirstTables = {t1, t2}
    PoolSize = 1
    MaxChanges = 1
    MaxFaults = 1
    NoHash = NoHash
INVARIANTS TypeOK RemembersNoMore
PROPERTY Mirrors
CONSTRAINT Bound
CHECK_DEADLOCK FALSE
