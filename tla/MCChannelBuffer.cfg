SPECIFICATION Spec
CONSTANTS
    Channels = {"CsVo", "CsDc"}
    Heights = {1}
    Capacity = 1
    MaxMsgs = 2
    MaxPackets = 1
INVARIANT PassedOnAsSent
\* The bounds stop the node.
CHECK_DEADLOCK FALSE
