SPECIFICATION FairSpec
CONSTANTS
    m1 = m1
    m2 = m2
    m3 = m3
    m4 = m4
    m5 = m5
    m6 = m6
    NoThread = NoThread
    Clients <- PairClients
    Peers <- PairPeers
    Msgs = {m1, m2, m3, m4, m5, m6}
    Sender <- SixSenders
    MsgID <- SixIDs
    MSGLOGMAX = 8
    SockBuf = 1
    HopMod = 256
PROPERTIES
    SendReturns
CHECK_DEADLOCK FALSE
