SPECIFICATION FairSpec
CONSTANTS
    Writers = {w1, w2}
    DataMaxSize = 2
    ReadSize = 2
    MaxNonce = 4
    MaxData = 5
    MaxCalls = 3
INVARIANTS
    TypeOK
    NoncesDiffer
    CallsArriveWhole
PROPERTIES
    IsByteStream
    CallsReturn
\* The bounds stop the writers.
CHECK_DEADLOCK FALSE
