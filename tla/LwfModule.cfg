SPECIFICATION FairSpec
CONSTANTS
    Handles = {h1, h2}
    TxHandles = {h1}
    OidHandles = {h1}
    StatusHandles = {h2}
    Frames = {x1}
    Foreign = {y1}
    Requests = {r1}
    Codes = {s1, s2}
    Filters = {f1, f2}
    Ndis = Ndis
    None = None
    MaxQueued = 1
INVARIANTS
    PausedIsQuiet
    FilterAlive
    QueueBelongsToFilter
PROPERTIES
    HandlersReturn
    OidAnswered
