SPECIFICATION FairSpec
CONSTANTS
    k1 = k1
    k2 = k2
    Main = Main
    SP = SP
    Send = Send
    Listen = Listen
    NoThread = NoThread
    NoConn = NoConn
    Conns = {k1, k2}
    MAX_CLIENTS = 3
    ListMax = 2
    RelistMax = 1
    MaxAsks = 1
INVARIANTS
    TypeOK
    ListedRun
    ForwardsToListened
PROPERTIES
    AllWait
    EverybodyStarts
    
CHECK_DEADLOCK FALSE
