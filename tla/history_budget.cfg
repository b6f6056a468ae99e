SPECIFICATION FairSpec
CONSTANTS
    Owners = {o1}
    NoOwner = none
    Operations = {m1, m2}
    Limit = 36
    OwnerLimit = 34
    Reserve = 14
    MaxAttempts = 2
INVARIANTS
    TypeOK
    HistoryFits
    OwnersFit
PROPERTY
    FactsAreProjected
