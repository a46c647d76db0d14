CONSTANTS
    Clients = {c1, c2}
    NoClient = NoClient
    MaxAttempts = 2
    LeaseCoversHolder = TRUE
    RunMayTimeOut = TRUE
    GrantsBeforeTimeout = 1
SPECIFICATION FairSpec
INVARIANT
    ExclusionWithinRun
PROPERTIES
    EventuallyLocked
    EventuallyFinished
