SPECIFICATION FairSpec
CONSTANTS
    Prefixes = {1, 2, 3}
    Admitted = {1, 2}
    MaxPrefixes = 1
    OwnHold = TRUE
    Environments <- PassingEnvironments
    Messages <- AnyMessage
    MaxMessages = 5
INVARIANTS
    RoutesAreRib
    SessionPerConnection
PROPERTIES
    SilentPeerWithdrawn
CHECK_DEADLOCK FALSE
