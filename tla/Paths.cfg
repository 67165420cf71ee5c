CONSTANTS
    Nodes = {1, 2, 3, 4}
    Pathful = {2}
    Capable = {3, 4}
    Budget = 2
    PendingMax = 3
    RelayConfigs <- Files
    Public = {3}
    ExitMisses = 2
    Rtts = {1}
    Ttl = 1
    Environments <- All
SPECIFICATION FairSpec
INVARIANTS OnePathPerId EventsComplete
PROPERTIES LivePathsStay TablesConverge RelaysConverge
CHECK_DEADLOCK FALSE
