SPECIFICATION Spec
CONSTANTS
    Account = {1, 2}
    Worker = {w1, w2}
    Nobody = Nobody
    Orphan = Orphan
    p1 = p1
    p2 = p2
    Participant = {p1, p2}
    Contracts <- SharedContracts
    MaxAmount = 1
    MaxOps = 2
    MaxWrites = 0
    MaxFaults = 0
SYMMETRY WorkerSymmetry
INVARIANTS
    PendingSourcesFrozen
CHECK_DEADLOCK FALSE
