SPECIFICATION FairSpec
CONSTANTS
    MaxCommands = 2
    MaxPairings = 1
    Lifetime = 2
    RetryAfter = 1
    Grace = 3
    MaxWait = 1
    OwnLimit = 2
    PendingLimit = 2
    Capacities = {0, 1, 2}
INVARIANTS
    TypeOK
    AdmissionLimits
    AnswersAreTrue
PROPERTIES
    ReceiptIsFinal
    EverySettles
