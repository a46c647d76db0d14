CONSTANTS
    Trips = {t1}
    SignalLimit = 10
    MaxSignals = 12
    RegisteredTypes = {"tripWorkflow"}
SPECIFICATION TripFairSpec
CHECK_DEADLOCK FALSE
PROPERTY
    ReceivedIsCounted
