CONSTANTS
    Task <- Task2
    MaxFrames = 2
    kb = 1
    mb = 10
    gb = 100
SPECIFICATION Spec
INVARIANT MaximumUsage
CHECK_DEADLOCK FALSE
