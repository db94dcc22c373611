SPECIFICATION Spec
CONSTANTS
    Capacity = 1
    MaxConns = 2
    MaxPackets = 1
    MarlinConns = 1
    MaxRelayed = 0
INVARIANT FailureLeadsToReconnect
\* A panic stops everything.
CHECK_DEADLOCK FALSE
