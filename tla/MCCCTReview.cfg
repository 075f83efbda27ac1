\* Two schemas with up to two events, two requests at once.
CONSTANTS
    Events = {e1, e2}
    Schemas = {production, test}
    Production = production
    Slots = {s1, s2}
    None = None
    MaxActions = 3
SPECIFICATION FairSpec
INVARIANTS TypeOK AcceptOnce
PROPERTIES ShowsChosenSchema SelectionKept ButtonsReturn ExpiryNoticed
\* Nothing happens on a page that was left.
CHECK_DEADLOCK FALSE
