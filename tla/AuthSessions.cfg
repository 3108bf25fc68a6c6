SPECIFICATION Spec
CONSTANTS
    Sessions = {s1, s2}
    Tokens = {t1, t2, t3}
    Procs = {p1, p2}
    Requests = {r1, r2}
    Passwords = {w1, w2}
    MaxAttempts = 1
    OtpLife = 0
    CacheTtl = 1
    Remembered = 1
    MaxCodes = 2
    MaxRequests = 5
    MaxTime = 1
    NoSession = none
    NoToken = none
    NoPassword = none
    NoProc = none
SYMMETRY Symmetric
INVARIANTS TypeOK ForgottenWhereRevoked StaleAtMostTtl OneLiveToken
PROPERTY RevocationHolds
CHECK_DEADLOCK FALSE
