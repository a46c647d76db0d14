------------------------------ MODULE Catalog ------------------------------
(* The programs under src/cmd/samples as a deployment sees them: what a     *)
(* workflow function schedules, and what a main function registers with its *)
(* worker, on which domain and task list, and which executions it starts.   *)
(*                                                                          *)
(* A workflow is a sequence of stages. A stage is a set of alternatives, one *)
(* of which the code takes, and an alternative is the set of tasks it        *)
(* schedules together; tasks of one type in one alternative count as one. A *)
(* stage may name the workflow itself with ContinueAs. Local activities are  *)
(* no tasks: they run inside the decision.                                   *)
EXTENDS Naturals, Sequences, TLC

Task(k, n, d, l) == [kind |-> k, type |-> n, domain |-> d, list |-> l]

\* "" is the domain, or the list, of the workflow that schedules the task.
Inherited == ""
Activity(n) == Task("activity", n, Inherited, Inherited)

Do(n)          == {{Activity(n)}}
Maybe(n)       == Do(n) \union {{}}
OneOf(ns)      == {{Activity(n)} : n \in ns}
Together(ns)   == {{Activity(n) : n \in ns}}
AnyOf(ns)      == {{Activity(n) : n \in s} : s \in SUBSET ns}
Child(n)       == {{Task("workflow", n, Inherited, Inherited)}}
ChildIn(n, d, l) == {{Task("workflow", n, d, l)}}
ContinueAs(n)  == {{Task("continue", n, Inherited, Inherited)}, {}}

(* A worker, the workflow types it registers with what each schedules, and   *)
(* the activity types it registers.                                          *)
Worker(d, l, ws, as) == [domain |-> d, list |-> l, workflows |-> ws, activities |-> as]
Sample(ws, ss) == [workers |-> ws, starts |-> ss]

\* config/development.yaml
DomainName == "cadence-samples"

(* StartWorkers of the helper polls one task list of the configured domain  *)
(* for every registered type; StartWorkflow starts on the same list.        *)
Helper(l, ws, as, started) ==
    Sample({Worker(DomainName, l, ws, as)},
           {Task("workflow", n, DomainName, l) : n \in started})

\* A function registered without an alias has its qualified name.
Main(n) == "main." \o n
Mains(ns) == {Main(n) : n \in ns}

\* A worker looks the type of a workflow up among the aliases first, so that a
\* function registered under an alias is also found by its own name. A starter
\* that registers nothing asks for that name.
WithAlias(alias, n, w) == (alias :> w) @@ (Main(n) :> w)

-----------------------------------------------------------------------------
(* What the workflow functions schedule. *)
sampleCronWorkflow == <<Do(Main("sampleCronActivity"))>>
simpleDSLWorkflow ==
    <<Do(Main("sampleActivity1")),
      Together(Mains({"sampleActivity2", "sampleActivity4"})),
      Together(Mains({"sampleActivity3", "sampleActivity5"})),
      Do(Main("sampleActivity1"))>>
sampleExpenseWorkflow ==
    <<Do(Main("createExpenseActivity")), Do(Main("waitForDecisionActivity")),
      Maybe(Main("paymentActivity"))>>
sampleFileProcessingWorkflow ==
    <<Do("downloadFileActivity"), Do("processFileActivity"), Do("uploadFileActivity")>>
samplePSOWorkflow ==
    <<Do("initParticleActivityName"), Child(Main("samplePSOChildWorkflow"))>>
samplePSOChildWorkflow ==
    <<Do("updateParticleActivityName"), ContinueAs(Main("samplePSOChildWorkflow"))>>
sampleBranchWorkflow == <<Do(Main("sampleActivity"))>>
sampleParallelWorkflow == <<Do(Main("sampleActivity")), Maybe(Main("sampleActivity"))>>
sampleCancelWorkflow ==
    <<Do(Main("activityToBeCanceled")),
      OneOf(Mains({"activityToBeSkipped", "cleanupActivity"}))>>
sampleParentWorkflow == <<Child(Main("sampleChildWorkflow"))>>
sampleChildWorkflow == <<ContinueAs(Main("sampleChildWorkflow"))>>
Orders == Mains({"orderAppleActivity", "orderBananaActivity",
                 "orderCherryActivity", "orderOrangeActivity"})
exclusiveChoiceWorkflow == <<Do(Main("getOrderActivity")), OneOf(Orders)>>
multiChoiceWorkflow == <<Do(Main("getBasketOrderActivity")), AnyOf(Orders)>>
wf0 == <<ChildIn(Main("wf1"), "domain1", "cross-domain-tl1"),
         ChildIn(Main("wf2"), "domain2", "cross-domain-tl2")>>
wf1 == <<Do(Main("activity1"))>>
wf2 == <<Do(Main("activity2"))>>
sampleCtxPropWorkflow == <<Do("sampleActivity")>>
delayStartWorkflow == <<Do(Main("delayStartActivity"))>>
dynamicGreetingsWorkflow ==
    <<Do("main.getGreetingActivity"), Do("main.getNameActivity"), Do("main.sayGreetingActivity")>>
sampleGreetingsWorkflow ==
    <<Do(Main("getGreetingActivity")), Do(Main("getNameActivity")), Do(Main("sayGreetingActivity"))>>
helloWorldWorkflow == <<Do(Main("helloWorldActivity"))>>
tracedHelloWorldWorkflow == <<Do(Main("helloWorldActivity"))>>
Conditions == Mains({"activityForCondition0", "activityForCondition1", "activityForCondition2",
                     "activityForCondition3", "activityForCondition4"})
processingWorkflow == <<AnyOf(Conditions)>>
signalHandlingWorkflow ==
    <<Child(Main("processingWorkflow")) \union {{}}>>
samplePickFirstWorkflow == <<Do(Main("sampleActivity"))>>
retryWorkflow == <<Do(Main("batchProcessingActivity"))>>
searchAttributesWorkflow == <<Do(Main("listExecutions"))>>
sampleSignalCounterWorkflow == <<ContinueAs(Main("sampleSignalCounterWorkflow"))>>
sleepWorkflow == <<Do(Main("mainSleepActivity"))>>
sampleSplitMergeWorkflow == <<Do(Main("chunkProcessingActivity"))>>
sampleTimerWorkflow ==
    <<Together(Mains({"orderProcessingActivity", "sendEmailActivity"}))
        \union Do(Main("orderProcessingActivity"))>>
recoverWorkflow ==
    <<Do(Main("listOpenExecutions")), Maybe(Main("recoverExecutions"))>>
tripWorkflow == <<ContinueAs("TripWorkflow")>>
AutoscalingWorkflow == <<Do("loadGenerationActivity")>>
\* What VersionedWorkflowV<v> schedules in an execution that it started.
VersionedWorkflowOf(v) == <<Do(IF v <= 2 THEN "FooActivity" ELSE "BarActivity")>>
\* A workflow that only waits for timers, signals or queries.
Waits == <<>>

-----------------------------------------------------------------------------
(* What each main function registers, polls and starts. *)
cronMain == Helper("cronGroup", Main("sampleCronWorkflow") :> sampleCronWorkflow,
    Mains({"sampleCronActivity"}), Mains({"sampleCronWorkflow"}))
dslMain == Helper("dslGroup", Main("simpleDSLWorkflow") :> simpleDSLWorkflow,
    Mains({"sampleActivity1", "sampleActivity2", "sampleActivity3", "sampleActivity4",
           "sampleActivity5"}),
    Mains({"simpleDSLWorkflow"}))
expenseMain == Helper("expenseGroup", Main("sampleExpenseWorkflow") :> sampleExpenseWorkflow,
    Mains({"createExpenseActivity", "waitForDecisionActivity", "paymentActivity"}),
    Mains({"sampleExpenseWorkflow"}))

\* The second worker polls the list of the host, for activities only.
WithHostWorker(s) ==
    LET w == CHOOSE v \in s.workers : TRUE
    IN  [s EXCEPT !.workers = {w, Worker(w.domain, "host", <<>>, w.activities)}]
fileprocessingMain == WithHostWorker(Helper("FileProcessorGroup",
    Main("sampleFileProcessingWorkflow") :> sampleFileProcessingWorkflow,
    {"downloadFileActivity", "processFileActivity", "uploadFileActivity"},
    Mains({"sampleFileProcessingWorkflow"})))
recoveryMain == WithHostWorker(Helper("recoveryGroup",
    WithAlias("recoverWorkflow", "recoverWorkflow", recoverWorkflow)
        @@ WithAlias("tripWorkflow", "tripWorkflow", tripWorkflow),
    Mains({"listOpenExecutions", "recoverExecutions"}),
    Mains({"tripWorkflow", "recoverWorkflow"})))

\* Mutant of psoMain: the child workflow is not registered.
psoMainParentOnly == Helper("PSO", Main("samplePSOWorkflow") :> samplePSOWorkflow,
    {"initParticleActivityName", "updateParticleActivityName"}, Mains({"samplePSOWorkflow"}))

psoMain == Helper("PSO",
    (Main("samplePSOWorkflow") :> samplePSOWorkflow)
        @@ (Main("samplePSOChildWorkflow") :> samplePSOChildWorkflow),
    {"initParticleActivityName", "updateParticleActivityName"}, Mains({"samplePSOWorkflow"}))
branchMain == Helper("branchGroup",
    (Main("sampleBranchWorkflow") :> sampleBranchWorkflow)
        @@ (Main("sampleParallelWorkflow") :> sampleParallelWorkflow),
    Mains({"sampleActivity"}), Mains({"sampleBranchWorkflow", "sampleParallelWorkflow"}))
cancelactivityMain == Helper("cancelGroup",
    Main("sampleCancelWorkflow") :> sampleCancelWorkflow,
    Mains({"activityToBeCanceled", "activityToBeSkipped", "cleanupActivity"}),
    Mains({"sampleCancelWorkflow"}))
childworkflowMain == Helper("childWorkflowGroup",
    (Main("sampleChildWorkflow") :> sampleChildWorkflow)
        @@ (Main("sampleParentWorkflow") :> sampleParentWorkflow),
    {}, Mains({"sampleParentWorkflow"}))
choiceMain == Helper("choiceGroup",
    (Main("exclusiveChoiceWorkflow") :> exclusiveChoiceWorkflow)
        @@ (Main("multiChoiceWorkflow") :> multiChoiceWorkflow),
    Orders \union Mains({"getOrderActivity", "getBasketOrderActivity"}),
    Mains({"exclusiveChoiceWorkflow", "multiChoiceWorkflow"}))
consistentqueryMain == Helper("queryGroup", Main("queryWorkflow") :> Waits,
    {}, Mains({"queryWorkflow"}))
setupWorker(d, l, ws, as) == Worker(d, l, ws, as)
crossdomainMain == Sample(
    {setupWorker("domain0", "cross-domain-tl0", Main("wf0") :> wf0, {}),
     setupWorker("domain1", "cross-domain-tl1", Main("wf1") :> wf1, Mains({"activity1"})),
     setupWorker("domain2", "cross-domain-tl2", Main("wf2") :> wf2, Mains({"activity2"}))},
    {Task("workflow", Main("wf0"), "domain0", "cross-domain-tl0")})
ctxpropagationMain == Helper("CtxPropagatorGroup",
    Main("sampleCtxPropWorkflow") :> sampleCtxPropWorkflow,
    {"sampleActivity"}, Mains({"sampleCtxPropWorkflow"}))
delaystartMain == Helper("delaystartGroup",
    WithAlias("delayStartWorkflow", "delayStartWorkflow", delayStartWorkflow),
    Mains({"delayStartActivity"}), {"delayStartWorkflow"})
dynamicMain == Helper("dynamicGroup",
    Main("sampleGreetingsWorkflow") :> dynamicGreetingsWorkflow,
    {"main.getGreetingActivity", "main.getNameActivity", "main.sayGreetingActivity"},
    {"main.sampleGreetingsWorkflow"})
greetingsMain == Helper("greetingsGroup",
    Main("sampleGreetingsWorkflow") :> sampleGreetingsWorkflow,
    Mains({"getGreetingActivity", "getNameActivity", "sayGreetingActivity"}),
    Mains({"sampleGreetingsWorkflow"}))
helloworldMain == Helper("helloWorldGroup",
    WithAlias("helloWorldWorkflow", "helloWorldWorkflow", helloWorldWorkflow),
    Mains({"helloWorldActivity"}), {"helloWorldWorkflow"})
tracingMain == Helper("helloWorldGroup",
    WithAlias("helloWorldWorkflow", "helloWorldWorkflow", tracedHelloWorldWorkflow),
    Mains({"helloWorldActivity"}), {"helloWorldWorkflow"})
localactivityMain == Helper("localActivityGroup",
    (Main("processingWorkflow") :> processingWorkflow)
        @@ (Main("signalHandlingWorkflow") :> signalHandlingWorkflow),
    Conditions, Mains({"signalHandlingWorkflow"}))
mutexMain == Helper("mutexExample",
    (Main("mutexWorkflow") :> Waits) @@ (Main("sampleWorkflowWithMutex") :> Waits),
    Mains({"signalWithStartMutexWorkflowActivity"}), Mains({"sampleWorkflowWithMutex"}))
pickfirstMain == Helper("pickfirstGroup",
    Main("samplePickFirstWorkflow") :> samplePickFirstWorkflow,
    Mains({"sampleActivity"}), Mains({"samplePickFirstWorkflow"}))
queryMain == Helper("queryGroup", Main("queryWorkflow") :> Waits,
    {}, Mains({"queryWorkflow"}))
retryactivityMain == Helper("retryactivityGroup", Main("retryWorkflow") :> retryWorkflow,
    Mains({"batchProcessingActivity"}), Mains({"retryWorkflow"}))
searchattributesMain == Helper("searchAttributesGroup",
    Main("searchAttributesWorkflow") :> searchAttributesWorkflow,
    Mains({"listExecutions"}), Mains({"searchAttributesWorkflow"}))
sideeffectMain == Helper("HelloSideEffect", Main("SideEffectWorkflow") :> Waits,
    {}, Mains({"SideEffectWorkflow"}))
signalcounterMain == Helper("signal_counter",
    Main("sampleSignalCounterWorkflow") :> sampleSignalCounterWorkflow,
    {}, Mains({"sampleSignalCounterWorkflow"}))
sleepMain == Helper("sleepTaskList", WithAlias("sleepWorkflow", "sleepWorkflow", sleepWorkflow),
    Mains({"mainSleepActivity"}), {"sleepWorkflow"})
splitmergeMain == Helper("splitmergeGroup",
    Main("sampleSplitMergeWorkflow") :> sampleSplitMergeWorkflow,
    Mains({"chunkProcessingActivity"}), Mains({"sampleSplitMergeWorkflow"}))
timerMain == Helper("timerGroup", Main("sampleTimerWorkflow") :> sampleTimerWorkflow,
    Mains({"orderProcessingActivity", "sendEmailActivity"}), Mains({"sampleTimerWorkflow"}))
autoscalingMain == Helper("autoscaling-monitoring",
    WithAlias("autoscalingWorkflow", "AutoscalingWorkflow", AutoscalingWorkflow),
    {"loadGenerationActivity"}, {"autoscalingWorkflow"})
\* One program, started with -v 1, 2, 3 or 4.
SetupHelperForVersionedWorkflow(v) == Helper("versioning",
    WithAlias("VersionedWorkflow", "VersionedWorkflowV" \o ToString(v), VersionedWorkflowOf(v)),
    (IF v < 4 THEN {"FooActivity"} ELSE {}) \union (IF v > 1 THEN {"BarActivity"} ELSE {}),
    {"VersionedWorkflow"})

RecipeSamples ==
    [autoscaling |-> autoscalingMain, cron |-> cronMain, dsl |-> dslMain,
     expense |-> expenseMain, fileprocessing |-> fileprocessingMain,
     recovery |-> recoveryMain, pso |-> psoMain, branch |-> branchMain,
     cancelactivity |-> cancelactivityMain, childworkflow |-> childworkflowMain,
     choice |-> choiceMain, consistentquery |-> consistentqueryMain,
     crossdomain |-> crossdomainMain, ctxpropagation |-> ctxpropagationMain,
     delaystart |-> delaystartMain, dynamic |-> dynamicMain,
     greetings |-> greetingsMain, helloworld |-> helloworldMain,
     tracing |-> tracingMain, localactivity |-> localactivityMain,
     mutex |-> mutexMain, pickfirst |-> pickfirstMain, query |-> queryMain,
     retryactivity |-> retryactivityMain, searchattributes |-> searchattributesMain,
     sideeffect |-> sideeffectMain, signalcounter |-> signalcounterMain,
     sleep |-> sleepMain, splitmerge |-> splitmergeMain, timer |-> timerMain,
     versioning_v1 |-> SetupHelperForVersionedWorkflow(1),
     versioning_v2 |-> SetupHelperForVersionedWorkflow(2),
     versioning_v3 |-> SetupHelperForVersionedWorkflow(3),
     versioning_v4 |-> SetupHelperForVersionedWorkflow(4)]
=============================================================================
