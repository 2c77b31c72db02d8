CONSTANTS
    Nodes = 3
    NumEdges = 16
    update_batch_size = 2
    status_interval = 3
    Queries = 4
SPECIFICATION Spec
INVARIANTS
    GraphFollowsStream
    FinalGraph
    QueryDrift
    QueriesMade
PROPERTIES
    FollowsPacing
