SPECIFICATION Spec
CONSTANTS
    m1 = m1
    m2 = m2
    m3 = m3
    m4 = m4
    m5 = m5
    m6 = m6
    NoThread = NoThread
    Clients <- PathClients
    Peers <- PathPeers
    Msgs = {m1, m2}
    Sender <- TwoSenders
    MsgID <- TwoIDs
    MSGLOGMAX = 1
    SockBuf = 2
    HopMod = 2
INVARIANTS
    TypeOK
    NoGap
    EverybodyHeard
CHECK_DEADLOCK FALSE
