----------------------------- MODULE NewCatalog -----------------------------
(* The programs under src/new_samples in the terms of Catalog: what the     *)
(* workflow functions schedule, and what StartWorker of each worker.go      *)
(* registers. Executions are started from the command line, with the task  *)
(* list and the workflow type that the README of the sample gives.          *)
EXTENDS Catalog

\* Every type is registered under a name with this prefix.
CS(n) == "cadence_samples." \o n

(* What the workflow functions schedule. A function that was registered is *)
(* scheduled under its registered name, one that was not under main.<name>. *)
DynamicWorkflow == <<Do(CS("DynamicGreetingActivity"))>>
ParallelBranchPickFirstWorkflow == <<Do(CS("ParallelActivity"))>>
BranchWorkflow == <<Do(CS("BranchActivity"))>>
CancelWorkflow ==
    <<Do(CS("LongRunningActivity")),
      OneOf({CS("SkippedActivity"), CS("CleanupActivity")})>>
ParentWorkflow == <<Child(CS("ChildWorkflow"))>>
ChildWorkflow == <<ContinueAs(CS("ChildWorkflow"))>>
ChoiceWorkflow ==
    <<Do(CS("GetOrderActivity")),
      OneOf({CS("ProcessAppleActivity"), CS("ProcessBananaActivity"),
             CS("ProcessOrangeActivity")}) \union {{}}>>
BatchWorkflow == <<Do(CS("BatchActivity"))>>
CrossDomainWorkflow ==
    <<ChildIn(CS("ChildDomainWorkflow"), "child-domain", "child-task-list")>>
ChildDomainWorkflow == <<Do(CS("ChildDomainActivity"))>>
CtxPropagationWorkflow == <<Do(CS("CtxPropagationActivity"))>>
CompressionDataConverterWorkflow == <<Do(CS("CompressionDataConverterActivity"))>>
EncryptionDataConverterWorkflow == <<Do(CS("EncryptionDataConverterActivity"))>>
S3OffloadDataConverterWorkflow == <<Do(CS("S3OffloadDataConverterActivity"))>>
DelayStartWorkflow == <<Do(CS("DelayStartActivity"))>>
\* The names are constants of dynamic.go.
DynamicGreetingsWorkflow ==
    <<Do("main.GetGreetingActivity"), Do("main.GetNameActivity"), Do("main.SayGreetingActivity")>>
GreetingsWorkflow ==
    <<Do(CS("GetGreetingActivity")), Do(CS("GetNameActivity")), Do(CS("SayGreetingActivity"))>>
HelloWorldWorkflow == <<Do(CS("HelloWorldActivity"))>>
LocalActivityWorkflow == <<Maybe(CS("ProcessActivity"))>>
OperationsCancelWorkflow ==
    <<Do(CS("ActivityToBeCanceled")),
      OneOf({CS("ActivityToBeSkipped"), CS("CleanupActivity")})>>
PickFirstWorkflow == <<Do(CS("RaceActivity"))>>
MarkdownQueryWorkflow == <<Do(Main("MarkdownQueryActivity"))>>
RetryWorkflow == <<Do(CS("BatchProcessingActivity"))>>
scheduledWorkflow == <<Do("scheduledActivity")>>
SimpleSignalWorkflow == <<Do(CS("SimpleSignalActivity"))>>
AwaitSignalWorkflow ==
    <<Do(CS("Signal1Activity")), Do(CS("Signal2Activity")), Do(CS("Signal3Activity"))>>
SignalCounterWorkflow == <<ContinueAs(CS("SignalCounterWorkflow"))>>
SleepWorkflow == <<Do(CS("MainSleepActivity"))>>
SplitMergeWorkflow == <<Do(CS("ChunkProcessingActivity"))>>
TimerWorkflow ==
    <<Together({CS("OrderProcessingActivity"), CS("SendEmailActivity")})
        \union Do(CS("OrderProcessingActivity"))>>
TracingWorkflow == <<Do(CS("TracingActivity"))>>
VersionedWorkflow == <<OneOf({CS("OldActivity"), CS("NewActivity")})>>

-----------------------------------------------------------------------------
\* The constants Domain and TaskListName of the generated worker.go files.
Generated(ws, as, started) ==
    Helper("cadence-samples-worker",
           [n \in UNION {{CS(w), Main(w)} : w \in DOMAIN ws} |->
               ws[CHOOSE w \in DOMAIN ws : n \in {CS(w), Main(w)}]],
           {CS(a) : a \in as}, {CS(w) : w \in started})
One(n, w, as) == Generated(n :> w, as, {n})

activitiesWorker == Generated(
    ("DynamicWorkflow" :> DynamicWorkflow)
        @@ ("ParallelBranchPickFirstWorkflow" :> ParallelBranchPickFirstWorkflow),
    {"DynamicGreetingActivity", "ParallelActivity"},
    {"DynamicWorkflow", "ParallelBranchPickFirstWorkflow"})
branchWorker == One("BranchWorkflow", BranchWorkflow, {"BranchActivity"})
cancelactivityWorker == One("CancelWorkflow", CancelWorkflow,
    {"LongRunningActivity", "CleanupActivity", "SkippedActivity"})
childworkflowWorker == Generated(
    ("ParentWorkflow" :> ParentWorkflow) @@ ("ChildWorkflow" :> ChildWorkflow), {},
    {"ParentWorkflow"})
choiceWorker == One("ChoiceWorkflow", ChoiceWorkflow,
    {"GetOrderActivity", "ProcessAppleActivity", "ProcessBananaActivity",
     "ProcessOrangeActivity"})
concurrencyWorker == One("BatchWorkflow", BatchWorkflow, {"BatchActivity"})
consistentqueryWorker == One("ConsistentQueryWorkflow", Waits, {})
crossdomainWorker == Generated(
    ("CrossDomainWorkflow" :> CrossDomainWorkflow)
        @@ ("ChildDomainWorkflow" :> ChildDomainWorkflow),
    {"ChildDomainActivity"}, {"CrossDomainWorkflow"})
ctxpropagationWorker == One("CtxPropagationWorkflow", CtxPropagationWorkflow,
    {"CtxPropagationActivity"})

startCompressionWorker == Helper("cadence-samples-data-compression",
    WithAlias(CS("CompressionDataConverterWorkflow"), "CompressionDataConverterWorkflow",
              CompressionDataConverterWorkflow),
    {CS("CompressionDataConverterActivity")}, {CS("CompressionDataConverterWorkflow")})
startEncryptionWorker == Helper("cadence-samples-data-encryption",
    WithAlias(CS("EncryptionDataConverterWorkflow"), "EncryptionDataConverterWorkflow",
              EncryptionDataConverterWorkflow),
    {CS("EncryptionDataConverterActivity")}, {CS("EncryptionDataConverterWorkflow")})
startS3OffloadWorker == Helper("cadence-samples-data-s3",
    WithAlias(CS("S3OffloadDataConverterWorkflow"), "S3OffloadDataConverterWorkflow",
              S3OffloadDataConverterWorkflow),
    {CS("S3OffloadDataConverterActivity")}, {CS("S3OffloadDataConverterWorkflow")})
dataWorker ==
    LET parts == {startCompressionWorker, startEncryptionWorker, startS3OffloadWorker}
    IN  Sample(UNION {p.workers : p \in parts}, UNION {p.starts : p \in parts})

delaystartWorker == One("DelayStartWorkflow", DelayStartWorkflow, {"DelayStartActivity"})
GreetingActivities == {"GetNameActivity", "GetGreetingActivity", "SayGreetingActivity"}
dynamicWorker == One("DynamicGreetingsWorkflow", DynamicGreetingsWorkflow, GreetingActivities)
greetingsWorker == One("GreetingsWorkflow", GreetingsWorkflow, GreetingActivities)
helloworldWorker == One("HelloWorldWorkflow", HelloWorldWorkflow, {"HelloWorldActivity"})
localactivityWorker == One("LocalActivityWorkflow", LocalActivityWorkflow, {"ProcessActivity"})
operationsWorker == One("CancelWorkflow", OperationsCancelWorkflow,
    {"ActivityToBeCanceled", "CleanupActivity", "ActivityToBeSkipped"})
pickfirstWorker == One("PickFirstWorkflow", PickFirstWorkflow, {"RaceActivity"})
queryWorker == Generated(
    ("QueryWorkflow" :> Waits) @@ ("LunchVoteWorkflow" :> Waits)
        @@ ("MarkdownQueryWorkflow" :> MarkdownQueryWorkflow)
        @@ ("OrderFulfillmentWorkflow" :> Waits), {},
    {"QueryWorkflow", "LunchVoteWorkflow", "MarkdownQueryWorkflow", "OrderFulfillmentWorkflow"})
retryactivityWorker == One("RetryWorkflow", RetryWorkflow, {"BatchProcessingActivity"})
\* The type of the workflow and the list of the action are those of
\* startWorkflowAction.
scheduleWorker == Helper("schedule-sample-worker",
    WithAlias("scheduledWorkflow", "scheduledWorkflow", scheduledWorkflow),
    {"scheduledActivity"}, {"scheduledWorkflow"})
sideeffectWorker == One("SideEffectWorkflow", Waits, {})
signalWorker == Generated(
    ("SimpleSignalWorkflow" :> SimpleSignalWorkflow)
        @@ ("AwaitSignalWorkflow" :> AwaitSignalWorkflow),
    {"SimpleSignalActivity", "Signal1Activity", "Signal2Activity", "Signal3Activity"},
    {"SimpleSignalWorkflow", "AwaitSignalWorkflow"})
signalcounterWorker == One("SignalCounterWorkflow", SignalCounterWorkflow, {})
sleepWorker == One("SleepWorkflow", SleepWorkflow, {"MainSleepActivity"})
splitmergeWorker == One("SplitMergeWorkflow", SplitMergeWorkflow, {"ChunkProcessingActivity"})
timerWorker == One("TimerWorkflow", TimerWorkflow,
    {"OrderProcessingActivity", "SendEmailActivity"})
tracingWorker == One("TracingWorkflow", TracingWorkflow, {"TracingActivity"})
versioningWorker == One("VersionedWorkflow", VersionedWorkflow, {"OldActivity", "NewActivity"})

\* client_tls has no worker of its own: it starts the workflow of hello_world.
client_tlsMain == Sample(helloworldWorker.workers,
    {Task("workflow", CS("HelloWorldWorkflow"), "default", "cadence-samples-worker")})

NewSamples ==
    [new_activities |-> activitiesWorker, new_branch |-> branchWorker,
     new_cancelactivity |-> cancelactivityWorker, new_childworkflow |-> childworkflowWorker,
     new_choice |-> choiceWorker, new_concurrency |-> concurrencyWorker,
     new_consistentquery |-> consistentqueryWorker, new_crossdomain |-> crossdomainWorker,
     new_ctxpropagation |-> ctxpropagationWorker, new_data |-> dataWorker,
     new_delaystart |-> delaystartWorker, new_dynamic |-> dynamicWorker,
     new_greetings |-> greetingsWorker, new_helloworld |-> helloworldWorker,
     new_localactivity |-> localactivityWorker, new_operations |-> operationsWorker,
     new_pickfirst |-> pickfirstWorker, new_query |-> queryWorker,
     new_retryactivity |-> retryactivityWorker, new_schedule |-> scheduleWorker,
     new_sideeffect |-> sideeffectWorker, new_signal |-> signalWorker,
     new_signalcounter |-> signalcounterWorker, new_sleep |-> sleepWorker,
     new_splitmerge |-> splitmergeWorker, new_timer |-> timerWorker,
     new_tracing |-> tracingWorker, new_versioning |-> versioningWorker,
     client_tls |-> client_tlsMain]
=============================================================================
