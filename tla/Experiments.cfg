CONSTANTS
    Lengths = 2
    Datasets = 2
    samples = 2
    MaxThreads = {11, 46}
    inc = 8
    MaxRuns = 2
    MaxDeaths = 2
SPECIFICATION Spec
CHECK_DEADLOCK FALSE
INVARIANTS CreditedRight Complete PairedByLength MaxMeasured
