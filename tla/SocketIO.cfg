SPECIFICATION FairSpec
CONSTANTS
    Fields <- HypercubeFields
    SKIPS = TRUE
    Packets <- HypercubePackets
    MAX_PACKETS = 3
    MSG_DATA = 2
    QUIT = 3
    TSIZE = 8
INVARIANTS
    TypeOK
    HalfIsSafe
    InStep
PROPERTIES
    ReceiverEnds
CHECK_DEADLOCK FALSE
