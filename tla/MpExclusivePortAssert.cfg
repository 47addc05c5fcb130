SPECIFICATION Spec
CONSTANTS
    r1 = r1
    r2 = r2
    r3 = r3
    Handles = {h1, h2}
    Clients = {c1, c2}
    Ports = {p1, p2}
    Requests = {r1, r2, r3}
    Keys <- MCKeys
    Key <- MCKey
    Interface <- MCInterface
    Filters <- MCFilters
    Watchdog = Watchdog
    NoHandle = NoHandle
    NoPort = NoPort
INVARIANT CleanupMeetsSettledPorts
