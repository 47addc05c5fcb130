SPECIFICATION FairSpec
CONSTANTS
    Interfaces = {i1, i2}
    Handles = {h1, h2}
    Adapters = {a1, a2}
    None = None
    MaxLost = 1
INVARIANTS
    ReferencesCounted
    NothingDangles
    DeviceMeansMiniports
PROPERTY
    UnreferencedIsFreed
