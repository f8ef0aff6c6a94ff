SPECIFICATION Spec
CONSTANTS
    k1 = k1
    k2 = k2
    r1 = r1
    r2 = r2
    Key = {k1, k2}
    Request = {r1, r2}
    MaxReplaced = 1
    MaxDisturbances = 2
    Batch <- MCBatch
SYMMETRY Symmetry
INVARIANTS
    GivenOnce
    NoKeyIsLost
PROPERTY FallbackIsLast
CHECK_DEADLOCK FALSE
