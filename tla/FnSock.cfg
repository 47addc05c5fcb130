CONSTANTS
    Sockets = {s1}
    Connections = {c1}
    Threads = {t1, t2}
    NoBinding = NoBinding
    MaxData = 2
    MaxSends = 1
SPECIFICATION FairSpec
INVARIANTS
    ContextsAlive
    SendsAwaitedAtClose
    InOrder
    ConnectionsOwned
PROPERTIES
    CallsEnd
