SPECIFICATION FairSpec
CONSTANTS
    c1 = c1
    c2 = c2
    NoConn = NoConn
    Conns = {c1, c2}
    MAX_CLIENTS = 2
    FIELDS = 2
INVARIANTS
    TypeOK
    Books
    ListsAreFilled
    OneDials
PROPERTIES
    AllEnd
CHECK_DEADLOCK FALSE
