\* Two io threads, one restart, and time enough for a token to expire.
CONSTANTS
    Users = {u1}
    Workers = {w1, w2}
    Handles = {h1, h2}
    None = None
    Lifetime = 1
    Leeway = 0
    MaxClock = 2
    MaxRestarts = 1
SPECIFICATION Spec
SYMMETRY Symmetry
INVARIANTS TypeOK AuthorizedHonest TokensKeepWorking HandleSound
PROPERTY LoginHonest
