CONSTANTS
    Sockets = {s1}
    Connections = {c1}
    Threads = {t1}
    NoBinding = NoBinding
    MaxData = 1
    MaxSends = 0
SPECIFICATION FairSpec
PROPERTIES
    ReceiveWaits
