CONSTANTS
    Task = {t1, t2}
    none = none
    V = 3
    logN = 2
    MinN = 4
    MaxN = 8
    MaxCalls = 2
SPECIFICATION Spec
SYMMETRY Symmetry
CHECK_DEADLOCK FALSE
INVARIANTS Covered HeldExactly NothingLeft SealedCount NoStandstill
