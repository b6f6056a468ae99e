SPECIFICATION Spec
CONSTANTS
    MaxCommands = 3
    MaxPairings = 1
    Lifetime = 2
    RetryAfter = 1
    Grace = 3
    MaxWait = 0
    OwnLimit = 3
    PendingLimit = 2
    Capacities = {2}
INVARIANT
    StopIsAdmitted
