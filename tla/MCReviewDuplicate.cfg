\* The event is relocated during an accept.
CONSTANTS
    Origins = {o1, o2}
    None = None
    Foreign = foreign
    Workers = {w1}
    QueriesFail = FALSE
    MaxMoves = 1
    MaxMagnitudes = 3
SPECIFICATION Spec
INVARIANT OneMagnitudePerOrigin
