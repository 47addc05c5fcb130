SPECIFICATION FairSpec
CONSTANTS
    Nbls = {n1, n2}
    Frames = {f1}
    Handles = {h1}
    Clients = {c1, c2}
    Threads = {t1}
    Patterns <- MatchAll
    Watchdog = Watchdog
    NoHandle = NoHandle
INVARIANTS
    RundownExact
    NblsConserved
    PoolOutlivesFrames
PROPERTIES
    SendCompletes
