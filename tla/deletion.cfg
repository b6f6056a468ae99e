SPECIFICATION Spec
CONSTANTS
    Cameras = {c1}
    Reports <- ThreeReports
    MaxGeneration = 3
    MaxOperations = 4
    MaxAttempts = 2
    Faults <- MissedOnly
    Truthful = TRUE
    MaxFaults = 1
INVARIANTS
    DesiredMatchesCamera
    OnlyPairedIsWanted
    OneActiveOperation
    NoCallBesideAnUnknown
    PublishReadyIsServed
PROPERTY
    DeletedOnlyWhenGone
