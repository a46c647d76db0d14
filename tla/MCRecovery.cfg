CONSTANTS
    Trips = {t1, t2, t3}
    Signaled = t1
    SignalLimit = 1
    MaxSignals = 3
    RegisteredTypes = {"tripWorkflow", "TripWorkflow"}
    Concurrency = 2
    MaxAttempts = 2
    AttemptsOverlap = TRUE
SPECIFICATION MCSpec
CHECK_DEADLOCK FALSE
INVARIANTS
    RecoveryIInv
    NeverOvercounts
    DoneIsRecovered
    TerminatedIsPending
PROPERTY
    EventuallyCompletes
