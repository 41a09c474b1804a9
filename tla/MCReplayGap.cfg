SPECIFICATION Spec
CONSTANTS
    Providers = {"cpa"}
    Window = 100
    Jitter = 5
    Times <- MCTimes
    Windows <- MCWindows
    MaxIntervals = 2
    MaxCommands = 0
    MaxSteps <- MCSteps
    MaxFaults = 0
INVARIANT
    GapsAreNotBridged
CHECK_DEADLOCK FALSE
