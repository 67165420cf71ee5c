SPECIFICATION Spec
CONSTANTS r1 = r1 r2 = r2 r3 = r3
    Replicas <- Three
    Environments <- Passing
SYMMETRY Symmetric
INVARIANTS ReplicasReplay AuditSound LeadersKeepAnswers
CHECK_DEADLOCK FALSE
