SPECIFICATION FairSpec
CONSTANTS
    m1 = m1
    m2 = m2
    m3 = m3
    m4 = m4
    m5 = m5
    m6 = m6
    NoThread = NoThread
    Clients <- SquareClients
    Peers <- SquarePeers
    Msgs = {m1}
    Sender <- OneSender
    MsgID <- OneID
    MSGLOGMAX = 4
    SockBuf = 1
    HopMod = 256
INVARIANTS
    HopBound
    OneSenderAtATime
PROPERTIES
    OncePerLink
    FloodEnds
    GossipSpec
CHECK_DEADLOCK FALSE
