SPECIFICATION FairSpec
CONSTANTS
    c1 = c1
    c2 = c2
    NoConn = NoConn
    Conns = {c1, c2}
    Says <- OneEach
    Leavers = {c1, c2}
    Faults = TRUE
    MAX_CLIENTS = 2
    SockBuf = 1
INVARIANTS
    TypeOK
    Books
    InOrder
    UpToDate
    Authentic
PROPERTIES
    BroadcastEnds
    AllEnd
CHECK_DEADLOCK FALSE
