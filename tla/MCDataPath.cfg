SPECIFICATION PathSpec
CONSTANTS
    Channels = {"CsVo", "CsDc", "CsSt"}
    Heights = {1, 2}
    Capacity = 1
    MaxMsgs = 3
    MaxPackets = 2
INVARIANTS
    TypeOK
    BufferHoldsOneMessage
    ProposalStaysIntact
    WrittenInPlace
    ForwardedInStep
    JudgedAsFramed
\* The bounds stop the node.
CHECK_DEADLOCK FALSE
