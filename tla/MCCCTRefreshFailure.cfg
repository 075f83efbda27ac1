\* A refresh that fails after its decision was committed.
CONSTANTS
    Events = {e1}
    Workers = {w1}
    Poller = poller
    None = None
    InitialLimit = 1
    MaxClock = 2
    MaxWrites = 1
SPECIFICATION MCFairSpec
PROPERTY RefreshFailureHarmless
