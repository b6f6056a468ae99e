SPECIFICATION FairSpec
CONSTANTS
    Processes = {p1, p2}
    p1 = p1
    Service = p1
    d1 = d1
    d2 = d2
    Dirs = {d1, d2}
    Layouts <- SharedLayouts
    None = None
    MaxFiles = 2
    Copies = {{}, {"integrity"}}
    Touches = 1
    Scripted = {d2}
INVARIANTS
    TypeOK
    UsersExclude
    ServedIsSound
PROPERTIES
    ServiceReturns
    PidIsMine
    InitPublishesWhole
