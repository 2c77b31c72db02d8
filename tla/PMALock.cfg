CONSTANTS
    Thread = {t1, t2, t3}
    NoThread = none
    Reason = {0, 1}
    num_tries = 3
    Word = 8
SPECIFICATION Spec
INVARIANTS
    WritersExclude
    ReasonRespected
    WordTruthful
PROPERTY ReasonKept
CHECK_DEADLOCK FALSE
SYMMETRY Symmetry
