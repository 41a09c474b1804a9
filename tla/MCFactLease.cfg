SPECIFICATION Spec
CONSTANTS
    Account = {1, 2}
    Worker = {w1, w2}
    NoOwner = NoOwner
    Orphan = Orphan
    Ttl = 2
    AcquireLag = 1
    RenewLag = 1
    MaxTime = 2
    MaxToken = 2
    MaxRevision = 1
SYMMETRY WorkerSymmetry
INVARIANTS
    TypeOK
    ScopeExclusion
    ReadsStayCurrent
    LeaseHasHolder
PROPERTY
    ImplementsFencedWriter
CHECK_DEADLOCK FALSE
