SPECIFICATION Spec
CONSTANTS
    Width <- MCWidth
    Nodes <- MCNodes
    DataEnvironments <- MCPlaces
    Replicas <- MCReplicas
    Configured = "A"
    LeaseTicks = 2
    WindowTicks = 1
    MaxBackoff = 2
    MaxQueue = 2
    CtlEnvironments <- MCSettings
    Me = "c"
    Pairs <- MCPairs
INVARIANTS
     NoBlackhole OneIdentity
PROPERTIES
    WatchdogHonest Rejoined ViewApplied Audited
