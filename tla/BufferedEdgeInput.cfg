CONSTANTS
    BUFFER_SIZE = 2
    MaxRecords = 6
    NumCalls = 6
SPECIFICATION FairSpec
INVARIANTS
    ReaderParked
    NothingLost
    KthCallKthRecord
PROPERTIES
    ImplementsEdgeSource
    Terminates
