SPECIFICATION Spec
CONSTANTS
    n1 = n1
    n2 = n2
    Nbls = {n1, n2}
    Handles = {h1, h2}
    Clients = {c1, c2}
    Threads = {t1}
    Patterns <- AllOrOne
    Watchdog = Watchdog
    NoHandle = NoHandle
INVARIANTS
    ContextsFreedOnce
