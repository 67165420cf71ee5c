SPECIFICATION Spec
CONSTANTS r1 = r1 r2 = r2 r3 = r3
    Replicas <- Three
    Environments <- Timeouts
SYMMETRY Symmetric
INVARIANT LeadersKeepAnswers
CHECK_DEADLOCK FALSE
