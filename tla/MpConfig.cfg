SPECIFICATION Spec
CONSTANTS
    Clients = {c1, c2}
    OidThread = OidThread
    Stores = {OffloadConfig}
    Checksums <- MCChecksums
    Segmentations <- MCSegmentations
    Revision <- MCRevision
    Parameters <- MCParameters
    Registries <- MCRegistries
    RssTables <- MCRssTables
    NumRssQueues = 2
    GsoSizes = {7}
    Mtus = {1514, 9014}
    DefaultGso = 2
    MaxRssQueues = 3
    HashFlag = 16
INVARIANTS
    AloneAgrees
PROPERTIES
    RssFollowsTable
SYMMETRY Symmetry
