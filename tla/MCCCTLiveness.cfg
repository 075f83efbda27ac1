\* One io thread beside the poller under fairness, with stop().
CONSTANTS
    Events = {e1}
    Workers = {w1}
    Poller = poller
    None = None
    InitialLimit = 1
    MaxClock = 2
    MaxWrites = 1
SPECIFICATION MCFairSpec
PROPERTIES EventuallyFresh DecisionsEnd StopEnds
