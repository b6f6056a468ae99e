SPECIFICATION Spec
CONSTANTS
    Clients = {c1}
    Ttls = {1, 2}
    None = None
    MaxTime = 2
    MaxPairings = 2
    MaxRotations = 1
    MaxTokens = 2
INVARIANTS
    TypeOK
    RotationEndsGrants
    ShownIsReported
    GrantsStayUsable
PROPERTIES
    StreamsServerRecordings
