SPECIFICATION FairSpec
CONSTANTS
    Capacity = 1
    MaxConns = 3
    MaxMsgs = 2
    MaxFrames = 1
INVARIANTS
    TypeOK
    NoSignalBlocks
    AbandonedIsDead
    ExactlyOnePlace
    InOrderUnlessRequeued
PROPERTIES
    MarlinFromIsDropOldest
    LostLinkIsReplaced
    MessagesSettle
\* The bounds stop the peer side and the bridge.
CHECK_DEADLOCK FALSE
