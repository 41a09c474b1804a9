SPECIFICATION Spec
CONSTANTS
    Account = {1}
    MaxEvents = 1
    MaxSessions = 2
    UsageBatch = 1
    BoundaryBatch = 2
    MaxPolls = 1
    MaxFaults = 1
INVARIANTS
    ObservationsCurrent
    EndsAsRecorded
