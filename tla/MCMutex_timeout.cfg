CONSTANTS
    Clients = {c1, c2, c3, c4}
    NoClient = NoClient
    MaxAttempts = 1
    LeaseCoversHolder = TRUE
    RunMayTimeOut = TRUE
    GrantsBeforeTimeout = 2
SPECIFICATION Spec
SYMMETRY ClientSymmetry
INVARIANT
    MutualExclusion
