\* One request at a time while other AQMS programs relocate the event.
CONSTANTS
    Origins = {o1, o2}
    None = None
    Foreign = foreign
    Workers = {w1}
    QueriesFail = FALSE
    MaxMoves = 2
    MaxMagnitudes = 3
SPECIFICATION FairSpec
INVARIANT AcceptRecorded
PROPERTIES RequestsEnd WritesInOrder
