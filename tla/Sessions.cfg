SPECIFICATION FairSpec
CONSTANTS
    Nodes <- Two
    Ephs = {1, 2, 3, 4, 5, 6, 7, 8}
    MaxMisses = 3
    Environments <- PassingEnvironments
CHECK_DEADLOCK FALSE
INVARIANT Agreement
PROPERTY InstanceOnce
PROPERTY Heals
PROPERTY TalkerServed
