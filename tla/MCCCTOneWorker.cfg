\* The default deployment, one io thread beside the poller: rows of two events
\* compete for the watermark.
CONSTANTS
    Events = {e1, e2}
    Workers = {w1}
    Poller = poller
    None = None
    InitialLimit = 1
    MaxClock = 3
    MaxWrites = 1
SPECIFICATION MCSpec
CONSTRAINT Running
SYMMETRY Symmetry
INVARIANTS NothingLost CacheBehindTable DecisionShown
PROPERTY ColdStaysCold
