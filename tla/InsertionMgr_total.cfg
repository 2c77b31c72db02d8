CONSTANTS
    Edges = 5
    Chunk = 2
    Hundred = 13
    Bar = 3
    Calls = 1
SPECIFICATION Spec
INVARIANTS
    TotalCountsInserted
