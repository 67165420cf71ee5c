SPECIFICATION Spec
CONSTANTS
    p1 = p1  p2 = p2  c1 = c1  c2 = c2
    Nets <- OneNet
    PubKeys <- TwoPubs
    AuthKeys <- OnceAndMulti
    OneTimeKeys <- OnlyOnce
    KeyNet <- NetOf
    KeyExpiry <- ExpiryOf
    Attrs <- WanAttr
    Configs <- KeyConfigs
    Conns <- TwoConns
    Reporters = {}
    ChallengeWindow = 1
    RevokeWindow = 1
    LeaseExpiry = 0
    StoreMayFail = FALSE
    MaxNodeId = 2
    MaxKeyVersion = 1
    MaxTime = 2
    MaxCrashes = 1
SYMMETRY Symmetric
VIEW WithHistories
CHECK_DEADLOCK FALSE
INVARIANT OneTimeKeyOnce
INVARIANT RevocationRotates
INVARIANT AckedIsDurable
PROPERTY MembershipKept
PROPERTY AdmissionFresh
