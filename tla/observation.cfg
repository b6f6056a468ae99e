SPECIFICATION FairSpec
CONSTANTS
    Paths = {1, 2}
    Cameras = {2}
    PathStates = {"absent", "ready"}
    PageSize = 1
    Lifetime = 2
    Full = {2}
INVARIANTS
    TypeOK
    OnlineIsRecent
    FreshIsDerived
PROPERTIES
    EventsTellTheTruth
    BecomesFresh
