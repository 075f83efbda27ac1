\* Two io threads beside the poller and an external writer, one event: up to
\* three refreshes overlap.
CONSTANTS
    Events = {e1}
    Workers = {w1, w2}
    Poller = poller
    None = None
    InitialLimit = 1
    MaxClock = 2
    MaxWrites = 1
SPECIFICATION MCSpec
CONSTRAINT Running
SYMMETRY Symmetry
INVARIANTS TypeOK CacheInvariant
PROPERTY NeverForgets KeepsPromise
