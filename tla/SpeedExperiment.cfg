CONSTANTS
    Inputs <- MCInputs
    Kron18 = "kron_18"
    MaxRuns = 2
    MaxDeaths = 1
    Task <- Lines5
    MaxFrames = 3
    kb = 1
    mb = 10
    gb = 100
    Edges = 5
    Chunk = 2
    Hundred = 13
    Bar = 3
    Calls = 2
SPECIFICATION PartSpec
INVARIANTS
    ResultsReported
    MemoryReported
    CreditedToAnother
    PeakReported
    PercentHonest
    TrackerOutlastsStream
    StatsSurvive
PROPERTIES
    Terminates
    InsertionsEnd
CHECK_DEADLOCK FALSE
