SPECIFICATION Spec
CONSTANTS
    Providers = {"sub2api", "cpa"}
    Window = 100
    Jitter = 5
    Times <- MCTimes
    Windows <- MCWindows
    MaxIntervals = 2
    MaxCommands = 3
    MaxSteps <- MCSteps
    MaxFaults = 1
INVARIANTS
    TypeOK
    SuffixReplayIsFullReplay
    ManualIntervalsAreWhole
    ExclusionsHaveACause
    SamplesFollowRows
    UncoveredRowsDoNotCount
    CandidateReinstated
CHECK_DEADLOCK FALSE
