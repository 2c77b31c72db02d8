CONSTANTS
    Edge = {e1, e2, e3}
    ZeroEdge = zero
    NumEdges = 3
    update_batch_size = 2
    status_interval = 10
SPECIFICATION Spec
INVARIANTS
    RemainderFlushed
