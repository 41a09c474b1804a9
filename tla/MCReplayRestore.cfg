SPECIFICATION Spec
CONSTANTS
    Providers = {"sub2api"}
    Window = 100
    Jitter = 5
    Times <- MCTimes
    Windows <- MCWindows
    MaxIntervals = 0
    MaxCommands = 3
    MaxSteps <- MCSteps
    MaxFaults = 0
INVARIANT
    IntervalsAreNeverDivided
CHECK_DEADLOCK FALSE
