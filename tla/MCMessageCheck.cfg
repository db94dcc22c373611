SPECIFICATION Spec
CONSTANTS
    Workers = {w1, w2}
    NodePages <- MCNodePages
    Window = 1
    CacheSize = 1
    MaxInt = 4
    MaxChecks = 4
    MaxMoves = 3
INVARIANTS
    TypeOK
    SetsAreWhole
    LetThroughIfSigned
    RefusedOnlyIfPassed
    PanicsOnlyBeyondLimits
SYMMETRY Symmetry
\* The bounds stop the workers, and a panic ends them.
CHECK_DEADLOCK FALSE
