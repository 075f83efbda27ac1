\* A query for the magnitude identifier throws.
CONSTANTS
    Origins = {o1, o2}
    None = None
    Foreign = foreign
    Workers = {w1}
    QueriesFail = TRUE
    MaxMoves = 0
    MaxMagnitudes = 3
SPECIFICATION Spec
INVARIANT AcceptRecorded
