SPECIFICATION Spec
CONSTANTS
    MaxApprovals = 2
    Me = me
    Other = other
    NoApproval = noApproval
    Nobody = nobody
    MaxLoads = 2
    MaxFailures = 1
INVARIANTS
    OwnDecision
    WokenOnce
    KeepsPending
CHECK_DEADLOCK FALSE
