SPECIFICATION PathSpec
CONSTANTS
    Channels = {"CsVo", "CsDc"}
    Heights = {1}
    Capacity = 1
    MaxMsgs = 1
    MaxPackets = 1
INVARIANT ForwardedAsFramed
\* The bounds stop the node.
CHECK_DEADLOCK FALSE
