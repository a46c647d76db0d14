CONSTANTS
    Clients = {c1, c2, c3}
    NoClient = NoClient
    MaxAttempts = 2
    LeaseCoversHolder = TRUE
    RunMayTimeOut = FALSE
    GrantsBeforeTimeout = 0
SPECIFICATION Spec
SYMMETRY ClientSymmetry
INVARIANTS
    TypeOK
    MutualExclusion
    IInv
    NoRequestLost
    ReleaseReachesGranter
PROPERTY
    ImplementsLock
