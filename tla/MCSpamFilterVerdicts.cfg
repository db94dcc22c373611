SPECIFICATION Spec
CONSTANTS
    Workers = {w1}
    Contents = {"neither"}
    Capacity = 1
    MaxConns = 1
    MaxRequests = 1
INVARIANT OneVerdictPerRequest
\* The bounds stop the gateway, and a panic everything.
CHECK_DEADLOCK FALSE
