CONSTANTS
    Nodes = 4
    NumEdges = 6
    update_batch_size = 3
    status_interval = 10
    Queries = 2
SPECIFICATION Spec
INVARIANTS
    FlushesRemainder
