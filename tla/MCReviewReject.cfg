\* A reject meets an exception.
CONSTANTS
    Origins = {o1, o2}
    None = None
    Foreign = foreign
    Workers = {w1}
    QueriesFail = FALSE
    MaxMoves = 0
    MaxMagnitudes = 3
SPECIFICATION Spec
INVARIANT RejectHonest
