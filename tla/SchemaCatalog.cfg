SPECIFICATION MCSpec
CONSTANTS
    a = a
    b = b
    v = v
    u = u
    w = w
    x = x
    Tables = {a, b}
    Columns = {u, v, w}
    Shapes = {"v", "w"}
    Shape <- MCShape
    Texts = {x}
    Contents <- MCContents
    Requests = {r1, r2}
    Checks = 1
    MaxRequests = 2
    MaxEdits = 1
    Absent = none
    NoText = none
SYMMETRY Symmetric
CONSTRAINT Bound
INVARIANTS HashVouches DescriptionsSticky IndexFollows NothingLeft
CHECK_DEADLOCK FALSE
