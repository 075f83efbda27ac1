\* One request at a time, and other AQMS programs between the requests: failures
\* and crashes.
CONSTANTS
    Origins = {o1, o2}
    None = None
    Foreign = foreign
    Workers = {w1}
    QueriesFail = FALSE
    MaxMoves = 2
    MaxMagnitudes = 3
SPECIFICATION CalmSpec
INVARIANTS TypeOK OneMagnitudePerOrigin PreferredExists RejectSettled
PROPERTY CCTLast
