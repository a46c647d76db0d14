----------------------------- MODULE MCSamples -----------------------------
(* The samples that share nothing but the server, for TLC: a behaviour is  *)
(* one of one sample, and the others do not start.                         *)
EXTENDS Trip, SignalCounter, LRU, AwaitSignals, OrderFulfillment, Versioning,
        Recipes, RetryActivity, DSL, FileProcessing, Expense, Deployment

VARIABLE sample

ASSUME SamplesAreKnown == Samples \union Strangers \subseteq DOMAIN AllSamples

\* What the sample comes with, and a workflow whose activities have no result
\* or come after an empty block.
deepWorkflow ==
    [Variables |-> {"arg1"},
     Statements |->
        <<InParallel(<<2, 3>>),
          ActivityInvocation({"arg1"}, ""),
          InSequence(<<4, 5, 7>>),
          InParallel(<<>>),
          InParallel(<<6>>),
          ActivityInvocation({}, "result1"),
          ActivityInvocation({"arg1", "result1"}, "")>>]
InterpretedWorkflows == SampleWorkflows \union {deepWorkflow}

ASSUME ResultsComeFirst == \A w \in InterpretedWorkflows : BindsInOrder(w)

mcVars == <<sample, tripVars, counterVars, cacheVars, awaitVars, orderVars, versioningVars,
            recipeVars, retryVars, dslVars, fileVars, expenseVars, deploymentVars>>

Undeployed == [sample |-> "timer", stranger |-> NoStranger]

\* Each sample starts as it may; what does not start stays as one of its
\* initial states.
Parked(s, init) == sample # s => init

SamplesInit ==
    /\ sample \in {"trip", "counter", "cache", "await", "order", "versioning",
                   "recipe", "retry", "dsl", "file", "expense", "deployment"}
    /\ TripInit
    /\ Init /\ Parked("counter", channel = [s \in Signals |-> "channelA"])
    /\ CacheInit /\ Parked("cache", cacheOpts = [maxSize |-> 1, ttl |-> 0, pin |-> FALSE])
    /\ AwaitInit
    /\ OrderInit
    /\ VersioningInit
    /\ RecipesInit /\ Parked("recipe", recipe = "branch")
    /\ RetryInit /\ Parked("retry", batchSize = 1)
    /\ DSLInit /\ Parked("dsl", dslWorkflow = workflow1)
    /\ FileInit
    /\ ExpenseInit
    /\ Parked("expense",
              ask = [c \in Callers |-> IF c = Payer THEN "payment" ELSE "approve"])
    /\ DeploymentInit /\ Parked("deployment", deployed = Undeployed)

SamplesNext ==
    /\ UNCHANGED sample
    /\ \/ /\ sample = "trip"
          /\ TripNext
          /\ UNCHANGED <<counterVars, cacheVars, awaitVars, orderVars, versioningVars,
                         recipeVars, retryVars, dslVars, fileVars, expenseVars, deploymentVars>>
       \/ /\ sample = "counter"
          /\ Next
          /\ UNCHANGED <<tripVars, cacheVars, awaitVars, orderVars, versioningVars,
                         recipeVars, retryVars, dslVars, fileVars, expenseVars, deploymentVars>>
       \/ /\ sample = "cache"
          /\ CacheNext
          /\ UNCHANGED <<tripVars, counterVars, awaitVars, orderVars, versioningVars,
                         recipeVars, retryVars, dslVars, fileVars, expenseVars, deploymentVars>>
       \/ /\ sample = "await"
          /\ AwaitNext
          /\ UNCHANGED <<tripVars, counterVars, cacheVars, orderVars, versioningVars,
                         recipeVars, retryVars, dslVars, fileVars, expenseVars, deploymentVars>>
       \/ /\ sample = "order"
          /\ OrderNext
          /\ UNCHANGED <<tripVars, counterVars, cacheVars, awaitVars, versioningVars,
                         recipeVars, retryVars, dslVars, fileVars, expenseVars, deploymentVars>>
       \/ /\ sample = "versioning"
          /\ VersioningNext
          /\ UNCHANGED <<tripVars, counterVars, cacheVars, awaitVars, orderVars,
                         recipeVars, retryVars, dslVars, fileVars, expenseVars, deploymentVars>>
       \/ /\ sample = "recipe"
          /\ RecipesNext
          /\ UNCHANGED <<tripVars, counterVars, cacheVars, awaitVars, orderVars,
                         versioningVars, retryVars, dslVars, fileVars, expenseVars, deploymentVars>>
       \/ /\ sample = "retry"
          /\ RetryNext
          /\ UNCHANGED <<tripVars, counterVars, cacheVars, awaitVars, orderVars,
                         versioningVars, recipeVars, dslVars, fileVars, expenseVars, deploymentVars>>
       \/ /\ sample = "dsl"
          /\ DSLNext
          /\ UNCHANGED <<tripVars, counterVars, cacheVars, awaitVars, orderVars,
                         versioningVars, recipeVars, retryVars, fileVars, expenseVars, deploymentVars>>
       \/ /\ sample = "file"
          /\ FileNext
          /\ UNCHANGED <<tripVars, counterVars, cacheVars, awaitVars, orderVars,
                         versioningVars, recipeVars, retryVars, dslVars, expenseVars, deploymentVars>>
       \/ /\ sample = "expense"
          /\ ExpenseNext
          /\ UNCHANGED <<tripVars, counterVars, cacheVars, awaitVars, orderVars,
                         versioningVars, recipeVars, retryVars, dslVars, fileVars, deploymentVars>>
       \/ /\ sample = "deployment"
          /\ DeploymentNext
          /\ UNCHANGED <<tripVars, counterVars, cacheVars, awaitVars, orderVars,
                         versioningVars, recipeVars, retryVars, dslVars, fileVars, expenseVars>>

\* The fairness of each module, for the behaviours of its sample.
SamplesFairness ==
    /\ WF_counterVars(sample = "counter" /\ WorkerStep)
    /\ WF_awaitVars(sample = "await" /\ AwaitProgress)
    /\ WF_expenseVars(sample = "expense" /\ ExpenseStep)
    /\ WF_expenseVars(sample = "expense" /\ ActivityFails)
    /\ WF_expenseVars(sample = "expense" /\ ReadOldState(Payer))
    /\ \A c \in Callers : WF_expenseVars(sample = "expense" /\ HandlerStep(c))

SamplesSpec == SamplesInit /\ [][SamplesNext]_mcVars /\ SamplesFairness

\* An expense that was started comes to its end, whatever is decided and lost.
StartedExpenseEnds == sample = "expense" => ExpenseEnds
=============================================================================
