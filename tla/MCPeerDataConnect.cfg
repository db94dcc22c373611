SPECIFICATION FairSpec
CONSTANTS
    Capacity = 1
    MaxConns = 2
    MaxPackets = 3
    MarlinConns = 1
    MaxRelayed = 1
INVARIANTS
    TypeOK
    NoSignalBlocks
    FormerAreClosed
    OneAfterShutdown
PROPERTIES
    MarlinToIsDropOldest
    SenderEndsItself
    LostPeerIsNoticed
\* The bounds stop the node and the Marlin side, and a panic everything.
CHECK_DEADLOCK FALSE
