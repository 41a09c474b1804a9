SPECIFICATION FairSpec
CONSTANTS
    Account = {1}
    MaxEvents = 2
    MaxSessions = 2
    UsageBatch = 1
    BoundaryBatch = 2
    MaxPolls = 0
    MaxFaults = 1
INVARIANTS
    TypeOK
    SamplesAreComplete
    OrderlyEndLosesNothing
PROPERTIES
    KeptUntilApplied
    SpoolDrains
