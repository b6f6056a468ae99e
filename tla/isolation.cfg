SPECIFICATION FairSpec
CONSTANTS
    Cameras = {c1, c2}
    Reports <- OneReport
    MaxGeneration = 1
    MaxOperations = 4
    MaxAttempts = 2
    Faults <- StuckOrRejected
    Truthful = TRUE
    MaxFaults = 2
INVARIANT
    TypeOK
PROPERTY
    Converges
