SPECIFICATION FairSpec
CONSTANTS
    k1 = k1
    k2 = k2
    Main = Main
    SP = SP
    Send = Send
    Listen = Listen
    NoThread = NoThread
    NoConn = NoConn
    Conns = {k1, k2}
    MAX_CLIENTS = 4
    ListMax = 1
    RelistMax = 1
    MaxAsks = 1
PROPERTIES
    RelocationGoesOn
CHECK_DEADLOCK FALSE
