SPECIFICATION FairSpec
CONSTANTS
    Account = {1}
    Worker = {a1, Poller, Other}
    Nobody = Nobody
    Orphan = Orphan
    Upstream = 1
    Model = {m1}
    NoModel = NoModel
    Admin = {a1}
    Poller = Poller
    Other = Other
    Before <- TwoSettings
    RestoreBatch = 1
    MaxRows = 2
    MaxFaults = 1
INVARIANTS
    TypeOK
    ConfirmedMeansDisabled
    RestoredMeansOriginal
PROPERTY
    DueIsRestored
CHECK_DEADLOCK FALSE
