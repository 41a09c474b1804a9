SPECIFICATION Spec
CONSTANTS
    Account = {1, 2}
    Person = {1, 2}
    User = {"alice", "bob", "carol"}
    Bound <- MCBound
    Share <- MCShare
    Url = {u1, u2}
    Usage <- MCUsage
    Adjustments = {0, 1}
    Window = 2
    NoReading = NoReading
    MaxTime = 2
    MaxSamples = 4
    MaxSessions = 2
    MaxChanges = 1
    MaxEdits = 1
INVARIANTS
    TypeOK
    OneRound
    TransfersBalance
    CarriedIsInForce
PROPERTY
    LedgersAreFinal
SYMMETRY Symmetry
CHECK_DEADLOCK FALSE
