SPECIFICATION Spec
CONSTANTS
    Cameras = {c1}
    Reports <- OneReport
    MaxGeneration = 2
    MaxOperations = 4
    MaxAttempts = 2
    Faults <- AllFaults
    Truthful = FALSE
    MaxFaults = 1
INVARIANT
    RemovedCanBeDeleted
