SPECIFICATION Spec
CONSTANTS
    Paths = {1, 2, 3}
    Cameras = {2}
    PathStates = {"absent", "ready"}
    PageSize = 1
    Lifetime = 2
    Full = {}
INVARIANT
    OfflineIsRecent
