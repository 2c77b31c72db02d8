CONSTANTS
    Edge = {e1, e2, e3}
    ZeroEdge = zero
    NumEdges = 12
    update_batch_size = 2
    status_interval = 3
SPECIFICATION Spec
INVARIANTS
    GraphFollowsStream
