SPECIFICATION FairSpec
CONSTANTS
    Workers = {w1, w2}
    Contents = {"block", "neither"}
    Capacity = 1
    MaxConns = 2
    MaxRequests = 2
INVARIANTS
    TypeOK
    RequestInOnePlace
    NoContradiction
PROPERTY RequestsSettle
\* The bounds stop the gateway, and a panic everything.
CHECK_DEADLOCK FALSE
