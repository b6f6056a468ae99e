SPECIFICATION Spec
CONSTANTS
    Loaders = {"cameras", "clients"}
    Capacity = 1
    MaxEvents = 2
INVARIANTS
    TypeOK
    AskedIsShown
    NothingMissed
    LogsFollow
PROPERTY
    NeverBack
