SPECIFICATION FairSpec
CONSTANTS
    Account = {1, 2}
    Worker = {w1, w2}
    Nobody = Nobody
    Orphan = Orphan
    p1 = p1
    p2 = p2
    Participant = {p1}
    Contracts <- SharedContracts
    MaxAmount = 1
    MaxOps = 1
    MaxWrites = 1
    MaxFaults = 2
PROPERTIES
    PendingResolves
CHECK_DEADLOCK FALSE
