SPECIFICATION FairSpec
CONSTANTS
    p1 = p1
    p2 = p2
    p3 = p3
    NoConn = NoConn
    Other = Other
    Sender = Sender
    Conns = {p1, p2, p3}
    Lists <- SmallLists
    Bounds <- SmallBounds
    TSIZE = 4
    FIELDS = 2
INVARIANTS
    TypeOK
    RemovalInBounds
    Delivered
    WholeMessages
PROPERTIES
    SendEnds
CHECK_DEADLOCK FALSE
