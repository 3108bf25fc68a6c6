SPECIFICATION FairSpec
CONSTANTS
    Schedules = {s1}
    Procs = {p1, p2}
    Requests = {}
    PoolSize = 2
    Crons = {1}
    MaxFailures = 2
    MaxHistory = 1
    MaxNow = 2
    MaxEdits = 0
    MaxFaults = 2
    NoSchedule = none
INVARIANT GuardedRunsExclusive
PROPERTY DueServed
CHECK_DEADLOCK FALSE
