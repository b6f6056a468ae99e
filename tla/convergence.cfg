SPECIFICATION FairSpec
CONSTANTS
    Cameras = {c1}
    Reports <- OneReport
    MaxGeneration = 2
    MaxOperations = 5
    MaxAttempts = 2
    Faults <- AllFaults
    Truthful = TRUE
    MaxFaults = 1
PROPERTIES
    RunningEnds
    Converges
