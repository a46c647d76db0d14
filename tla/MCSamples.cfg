CONSTANTS
    Trips = {t1}
    SignalLimit = 2
    MaxSignals = 4
    RegisteredTypes = {"tripWorkflow"}
    Signals = {s1, s2, s3, s4}
    maxSignalsPerExecution = 2
    MaxCrashes = 1
    Keys = {k1, k2, k3}
    Users = {u1, u2}
    Sizes = {1, 2, 3}
    TTLs = {0, 1}
    MaxTime = 4
    signalToSignalTimeout = 2
    fromFirstSignalTimeout = 4
    MaxAwaitTime = 6
    Operators = {o1, o2}
    MaxClicks = 3
    MaxBlind = 1
    MaxWorkers = 2
    BatchSizes = {1, 2, 3, 4, 5, 6, 7, 8, 9, 10, 11, 12, 20}
    MaxLosses = 2
    Hosts = {h1, h2}
    MaxAttempts = 4
    MaxFaults = 2
    workerCount = 3
    Reviewers = {r1, r2}
    Payer = Payer
    TimeoutsFire = TRUE
    MaxRestarts = 1
    Workflows <- InterpretedWorkflows
    Samples = {"autoscaling", "cron", "dsl", "expense", "fileprocessing", "pso",
    "branch", "cancelactivity", "childworkflow", "choice", "consistentquery", "crossdomain",
    "ctxpropagation", "delaystart", "dynamic", "greetings", "helloworld", "tracing",
    "localactivity", "mutex", "pickfirst", "query", "retryactivity", "searchattributes",
    "sideeffect", "signalcounter", "sleep", "splitmerge", "timer", "new_activities",
    "new_branch", "new_cancelactivity", "new_childworkflow", "new_choice",
    "new_concurrency", "new_consistentquery", "new_ctxpropagation", "new_data",
    "new_delaystart", "new_greetings", "new_helloworld", "new_localactivity",
    "new_operations", "new_pickfirst", "new_retryactivity", "new_schedule",
    "new_sideeffect", "new_signal", "new_signalcounter", "new_sleep", "new_splitmerge",
    "new_timer", "new_tracing", "new_versioning", "versioning_v1", "versioning_v2",
    "versioning_v3"}
    Strangers = {"autoscaling", "cron", "dsl", "expense", "fileprocessing", "pso",
    "branch", "cancelactivity", "childworkflow", "choice", "consistentquery", "crossdomain",
    "ctxpropagation", "delaystart", "dynamic", "greetings", "helloworld", "tracing",
    "localactivity", "mutex", "pickfirst", "query", "retryactivity", "searchattributes",
    "sideeffect", "signalcounter", "sleep", "splitmerge", "timer", "new_activities",
    "new_branch", "new_childworkflow", "new_choice", "new_concurrency",
    "new_consistentquery", "new_ctxpropagation", "new_data", "new_delaystart",
    "new_greetings", "new_helloworld", "new_localactivity", "new_pickfirst",
    "new_retryactivity", "new_schedule", "new_sideeffect", "new_signal",
    "new_signalcounter", "new_sleep", "new_splitmerge", "new_timer", "new_tracing",
    "new_versioning", "versioning_v1", "versioning_v2"}
SPECIFICATION SamplesSpec
CHECK_DEADLOCK FALSE
INVARIANTS
    CounterIInv
    CacheIInv
    LookupIsFresh
    HandledInTime
    GivenUpOnlyWhenLate
    LogLeadsToStatus
    NoStepDroppedEarly
    NeighboursAgree
    CompletedMeansDone
    EmailOnlyWhenSlow
    CleanedUp
    TotalsOfChunks
    RetryIInv
    AttemptsSuffice
    ArgumentsBound
    UploadedIsProcessed
    FilesAccounted
    ExpenseIInv
    DecisionWasMade
    Served
PROPERTIES
    CounterNeverDecreases
    ImplementsTally
    EventuallyCounted
    AwaitEnds
    StartedExpenseEnds
    ButtonsWork
