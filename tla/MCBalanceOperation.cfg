SPECIFICATION Spec
CONSTANTS
    Account = {1, 2}
    Worker = {w1, w2}
    Nobody = Nobody
    Orphan = Orphan
    p1 = p1
    p2 = p2
    Participant = {p1, p2}
    Contracts <- MovingContracts
    MaxAmount = 1
    MaxOps = 2
    MaxWrites = 1
    MaxFaults = 1
SYMMETRY WorkerSymmetry
INVARIANTS
    TypeOK
    PendingSourcesKept
    OnePendingPerParticipant
    OneCommitPerRevision
PROPERTY
    SendsAreCurrent
CHECK_DEADLOCK FALSE
