CONSTANTS
    Ends = {opener, acceptor}
    Opener = opener
    Workloads <- MCWorkloads
    HEAD_SIZE = 2
    LengthMod = 4
    SENDIOV_SIZE = 1
    RECVP_SIZE = 2
    ChunkSize = 2
    PoolSize = 2
    Chunks <- MCChunks
    Capacity = 4
    MaxHeld = 1
    EarlyReset = FALSE
    opener = opener
    acceptor = acceptor
SPECIFICATION FairSpec
INVARIANTS SocketSound StreamConserved HeldIntact NoLostEdge
PROPERTY Implements
CHECK_DEADLOCK FALSE
