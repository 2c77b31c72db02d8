CONSTANTS
    Reader = {r1, r2}
    Writer = w
    m = 4
    max_ts = 9
    MaxUpdates = 3
    MaxQueries = 1
SPECIFICATION Spec
CHECK_DEADLOCK FALSE
INVARIANTS HeldIntact FreedOnce Reclaimed
PROPERTIES ImplementsSnapshots Terminates
