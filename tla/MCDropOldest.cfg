SPECIFICATION Spec
CONSTANTS
    Producers = {p1, p2}
    Consumers = {c1, c2}
    Returners = {c1, c2}
    Capacity = 2
    MaxOffers = 4
SYMMETRY Symmetry
INVARIANTS
    TypeOK
    ReceivedInOrder
    OldestLeaveFirst
    NothingElseLost
    SomeoneHasRoom
\* MaxOffers bounds what the producers send, so every behaviour ends.
CHECK_DEADLOCK FALSE
