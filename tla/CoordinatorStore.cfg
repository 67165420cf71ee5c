SPECIFICATION Spec
CONSTANTS
    p1 = p1  p2 = p2  c1 = c1  c2 = c2
    Nets <- TwoNets
    PubKeys <- OnePub
    AuthKeys <- LastingAndOther
    OneTimeKeys <- NoKeys
    KeyNet <- NetOf
    KeyExpiry <- ExpiryOf
    Attrs <- WanAttr
    Configs <- OneConfig
    Conns <- TwoConns
    Reporters = {1}
    ChallengeWindow = 0
    RevokeWindow = 0
    LeaseExpiry = 0
    StoreMayFail = TRUE
    MaxNodeId = 2
    MaxKeyVersion = 2
    MaxTime = 1
    MaxCrashes = 1
SYMMETRY Symmetric
VIEW Essential
CHECK_DEADLOCK FALSE
INVARIANT StoreLoadable
