SPECIFICATION Spec
CONSTANTS
    Schedules = {s1}
    Procs = {p1}
    Requests = {r1, r2}
    PoolSize = 1
    Crons = {1, 2}
    MaxFailures = 2
    MaxHistory = 1
    MaxNow = 2
    MaxEdits = 2
    MaxFaults = 1
    NoSchedule = none
SYMMETRY Symmetric
INVARIANTS TypeOK AutoPauseEarned
PROPERTIES StrandedByCrossing PauseSticks
CHECK_DEADLOCK FALSE
