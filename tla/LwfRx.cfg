SPECIFICATION FairSpec
CONSTANTS
    n1 = n1
    n2 = n2
    Nbls = {n1, n2}
    Handles = {h1, h2}
    Clients = {c1}
    Threads = {t1, t2}
    Patterns <- AllOrOne
    Watchdog = Watchdog
    NoHandle = NoHandle
INVARIANTS
    RundownExact
    PausedHoldsNothing
    NblsConserved
PROPERTIES
    PauseCompletes
    HeldFrameReturned
