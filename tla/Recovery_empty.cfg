CONSTANTS
    Trips = {t1}
    SignalLimit = 10
    MaxSignals = 2
    RegisteredTypes = {"tripWorkflow"}
    Concurrency = 2
    MaxAttempts = 2
    AttemptsOverlap = FALSE
SPECIFICATION FairSpec
CHECK_DEADLOCK FALSE
PROPERTY
    RecoveryEnds
