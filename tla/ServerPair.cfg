SPECIFICATION FairSpec
CONSTANTS
    c1 = c1
    c2 = c2
    NoConn = NoConn
    Conns = {c1, c2}
    MAX_CLIENTS = 4
    MAX_NEIGHBORS = 2
    FIELDS = 1
INVARIANTS
    TypeOK
    Books
    NoStaleEntry
PROPERTIES
    ThreadsEnd
CHECK_DEADLOCK FALSE
