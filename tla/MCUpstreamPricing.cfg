SPECIFICATION Spec
CONSTANTS
    Url = {u1, u2}
    Group = {1, 2}
    acct = acct
    Account = {acct}
    Rules = {p, q}
    NoRules = NoRules
    Recommended = p
    Member <- MCMember
    NoUrl = NoUrl
    NoValue = NoValue
    MaxOperations = 3
    MaxChanges = 1
    MaxFaults = 1
INVARIANTS
    TypeOK
    NeverCompounded
    WrittenCanBeReverted
    NoFalseConflict
    AppliedIsTrue
    EpochsSeparatePrices
SYMMETRY Symmetry
CHECK_DEADLOCK FALSE
