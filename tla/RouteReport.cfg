SPECIFICATION FairSpec
CONSTANTS
    Nodes <- Two
    Peers <- PeerNames
    NumPrefixes = 2
    MaxPerNode = 1
    FlapWindow = 1
    FlapLimit = 2
    LeaseExpiry = 1
    Environments <- PassingEnvironments
    MaxQueue = 1
INVARIANTS
    NoPhantom
    CursorHonest
PROPERTIES
    Settles
CHECK_DEADLOCK FALSE
