SPECIFICATION MCSpec
CONSTANTS
    MaxRows = 6
    Names = 2
    Texts = {x, y}
    Items = {i}
    SeedSize = 2
    Requests = {r1, r2}
    MaxRequests = 3
    StarterText = x
    NoText = none
SYMMETRY Symmetric
INVARIANTS WorkspaceTypeOK SeededOnce CertifiedChecked
CHECK_DEADLOCK FALSE
