# Verification of the Cadence samples

TLA+ specifications of the programs in this repository: workflows, activities
and small servers written for the Cadence workflow engine. TLC checks small
instances; TLAPS proves some results for every instance. `PROJECT.json` lists
components, runs, mutants, the source lines of every definition, findings,
hazards and theorems.

    tlc -workers 2 -config MCMutex_safety.cfg MCMutex
    tlapm MutexProofs.tla

## The system

Every sample is an independent program. What they share is the engine: a
*workflow* is deterministic code whose steps (decisions) are driven by a
history, and a worker that lost its state replays that history; an *activity*
is ordinary code that may be timed out, retried and run twice; *signals* reach
the history of an open run in order, and a run may close by *continuing as
new*. The Cadence server and client libraries are not in the repository: they
are modelled from how the samples use them, and marked external.

### Inventory

| Component | State | Operations | What is hard | What makes it correct |
|---|---|---|---|---|
| mutex (`cmd/samples/recipes/mutex`) | buffered requests and releases of the mutex run, its holder; clients between request and release | request by signal-with-start in a retried local activity, grant, release, unlock timeout, timeouts of clients and of the run | repeated requests, a request racing the completion of the run, grants to closed clients, lost releases, three timeouts | mutual exclusion, no lost request, releases reach the granter, progress |
| trip (`cmd/samples/recovery/trip_workflow.go`) | counter, signals received by this run | receive, continue as new, query | signals at a run boundary, the type of the next run | the counter never goes back and counts no signal twice |
| recovery (`recovery_workflow.go`) | list in a host's cache, batches, heartbeats | list, split, restart one trip (read, terminate, start, replay), retry | overlapping attempts, signals while recovering, failures between two calls, host-local data, empty lists | every listed trip of a successful batch recovered, none left terminated, no signal counted twice |
| LRU cache (`recovery/cache`) | entries, access order, reference counts, expiry | Get, Put, PutIfNotExist, Delete, Release | capacity boundary, pinning against expiry and deletion | capacity, recency, pins respected |
| signal counter (`recipes/signalcounter`, `new_samples/signalcounter`) | counter, signals of this run | receive from two channels, continue as new when drained | signals during the closing decision, replay after a crash | each signal counted exactly once |
| expense (`cmd/samples/expense`) | two maps of the dummy server; workflow and asynchronous activity | create, register callback, approve, reject, pay | unsynchronised handlers, contradictory decisions, completion racing timeout, restart | payment follows an approval, the workflow ends |
| await signals (`new_samples/signal`) | three flags, time of the first signal, a timer | listen, wait with timeout, run an activity | any order of signals, timers against signals in one decision | handled in order and in time, given up only when late, it ends |
| order fulfillment (`new_samples/query`) | status, action log, seven channels, dashboards | seven signals, a query | selector order against arrival order, buttons of an old dashboard | the log explains the status, buttons work, no step lost needlessly |
| versioning (`recipes/versioning`) | version recorded in the history, workers | four versions of a workflow, deployments, stop | replay by another version | neighbouring versions agree |
| file processing (`cmd/samples/fileprocessing`) | files of a host, session, attempts | download, process, upload, four rounds | attempts that were given up still run, files removed before a retry, host loss | what is uploaded was processed |
| retry activity (`recipes/retryactivity`) | next task, heartbeat | process, report, fail, resume | lost reports, crashes, batch sizes | no task skipped, five attempts suffice |
| DSL (`cmd/samples/dsl`) | bindings | sequence, parallel, activity | first error of a block, arguments bound in time | arguments bound, all activities run |
| control flow recipes | futures, a channel | pick first, timer, cancel, split and merge, branch, parallel | losers, two futures ready in one decision, a context that is canceled | nothing left running, cleanup, totals |
| task lists and registrations of all samples | open executions and their tasks | deploy, start, decide, perform | names and lists agree by strings only; all generated workers share one list | each sample's tasks are served by its own workers |
| PSO, local activity, query, lunch vote, search attribute, propagation, greeting, cron, schedule, batch, autoscaling samples | none or one variable | activities one after the other | nothing concurrent of their own | only the tasks they schedule |
| data converters, generators, Python SDK samples | none, or a conversation | encode and decode; write files; ask a language model | libraries | not modelled |

Parts interact in few places: a recovery terminates, starts and signals trips;
its activities share the LRU cache of their host; a mutex run and its clients
exchange signals; the expense server completes an activity of its workflow;
the workers of all generated samples share the task list
`cadence-samples-worker`.

## Plan

Built in this order: the mutex, then trips and recovery, the signal counter,
the expense sample, each with runs and a first proof; then the cache, the
samples with timers and selectors, versions, files, retries, the DSL and the
recipes, in one composite run; last the catalogue of all samples, with what
each registers, polls, starts and schedules.

Proofs came in the order of what they say about the whole: the lock and its
refinement, the counters, then the recovery beside the trips, then the samples
whose state is smaller.

The last theorems generalise what was a fixed instance: the chunks of the
recipes, the trees of the DSL and the catalogue of a deployment are parameters,
or hypotheses, of theirs.

What could follow: the composition of `LRU` with the list that `Recovery` keeps
in it, which `ListEvicted` stands for now.

## Modules

| Module | Models |
|---|---|
| `Lock` | abstract lock: each client goes from out to in to done, one inside at a time |
| `Mutex` | the mutex sample; `L == INSTANCE Lock WITH status <- LockStatus` |
| `MCMutex` | symmetry for TLC |
| `Trip` | the trip workflows |
| `Batches` | the arithmetic that splits a list into batches |
| `Recovery` | EXTENDS `Trip` and `Batches`: the recovery beside the trips |
| `Tally` | abstract tally: a total that grows by all that was accepted since |
| `SignalCounter` | the signal counting workflow; `Runs == INSTANCE Tally WITH accepted <- buffered \union history, total <- input` |
| `Expense` | the expense workflow, its activities and the dummy server |
| `LRU` | the cache of the recovery sample |
| `AwaitSignals` | the signals that are awaited in order |
| `OrderFulfillment` | the order, its selector and its dashboard |
| `Versioning` | four versions of a workflow and their workers |
| `FileProcessing` | sessions, attempts and temporary files |
| `RetryActivity` | the activity that resumes from its heartbeat |
| `DSL` | the interpreter, for any workflows that are trees, and the two of the sample |
| `Recipes` | six control flow recipes |
| `Catalog`, `NewCatalog` | data: what each program of `cmd/samples` and `new_samples` registers, polls, starts and schedules |
| `Deployment` | `Programs == INSTANCE NewCatalog`: a sample, and maybe another, deployed and run |
| `MCRecovery` | the bounds of `Recovery` for TLC |
| `MCSamples` | twelve specifications, one of them per behaviour, for TLC |
| `MutexProofs`, `ExpenseProofs`, `LRUProofs`, `DeploymentProofs` | theorems about the module they are named for, with their proofs |
| `RecoveryProofs` | the same about `Batches`, `Trip` and `Recovery` |
| `SignalsProofs` | about `SignalCounter`, `AwaitSignals` and `OrderFulfillment` |
| `ActivityProofs` | about `RetryActivity` and `FileProcessing` |
| `RecipesProofs` | about `Versioning`, `Recipes` and `DSL` |

Operators whose comment starts with "Mutant of" are wrong versions of the
definition after them. No specification uses them: putting one in place of the
definition shows that a property notices.

### Mutex

`client[c]` is the place of one execution of `sampleWorkflowWithMutex`:
`locking` (local activity), `waiting` (blocked in `Receive`), `critical`,
`unlocking`, `released`, and three closed states. `SendRequest` is one attempt
of the local activity; its result may be lost, and a later attempt repeats the
request. `SignalWithStart` buffers a request with the open run or starts a run.
`mutex` is the place in the loop of `mutexWorkflow`: `looping`
(`ReceiveAsync`), `granting` and `granted` (`SignalExternalWorkflow(...).Get`),
`awaiting` (`Select`). A release goes to the run recorded in `execution`, and is
dropped if that run is closed. All grants of one sender use the same release
channel, as `_generateUnlockChannelName` makes them.

External behaviour assumed: a run cannot complete while it has an unseen
request, hence `Finish` tests the buffer; an acquire signal to a closed sender
is an error.

`LeaseCoversHolder` says that `unlockTimeout` is no shorter than the execution
timeout of a client: both are ten minutes in the sample (`mutex_workflow.go:196`
and `main.go:42`), and the timer starts after the client did, so that the client
is closed when it fires. `RunMayTimeOut` adds the timeout of the mutex run
(one hour, `mutex_workflow.go:148`). It takes several leases to fill an hour;
`GrantsBeforeTimeout` stands for that number. `expired` remembers the runs that
timed out: a client that waits for one of those may get no lock, one that waits
for a run that completed must have got it (`EventuallyLocked`).

### Trip, Batches, Recovery

`trip[t]` is the latest run of a workflow id: open, number, type, the counter it
started with, signals in its history and received ones. A worker executes only
the types it registered: `main.go` registers `tripWorkflow`, while
`ContinueAsNew` and `StartRun` name `TripWorkflow`.

`Recovery` runs beside. `work[b]` has the current attempt of batch `b` and, if
`AttemptsOverlap`, one that missed its heartbeat and goes on: an activity is not
stopped when the server gives up on it. Each external call of
`recoverSingleExecution` is a step: `ReadHistory`, `Terminate`, `StartRun`, one
`Replay` per signal, `FinishIndex` with its heartbeat. `TerminateWorkflow` gets
an empty run id and closes whichever run is latest; `late` has the trips that an
abandoned attempt was the last to close. Any call may fail; a host may restart
and lose its list; other recoveries may evict it. A recovery lists any subset of
the open trips, because visibility lags behind and filters by a type name.

The model keeps one abandoned attempt of a batch: when the current one is
abandoned too, an older one is no longer followed. Three attempts of one batch
that are at work at the same moment are therefore not modelled.

`TerminatedIsPending` holds for overlapping attempts because of what it leaves
out, and says so: an abandoned attempt that reaches `Terminate` after its
successor has reported the trip closes it again, and if it dies before
`StartRun` the trip stays closed in a batch that succeeded. `late` marks exactly
these trips; every other closed trip is in a batch that is not done.

### SignalCounter

A signal stands for the integer it carries, so that `counter` can say how often
each was added. `buffered` signals are unseen by the run; `history` and `inbox`
are those of the run. Continuing as new is refused while a signal is buffered,
and the run is replayed from its input (`ReplayRun`), as after a worker crash.
`ImplementsTally` looks at the runs together from outside, where only their
inputs last: of all their steps an acceptance and a continuation as new are
steps of `Tally`, which must hand on everything accepted so far, and the others
are none.

### Expense

Each access of a handler to `allExpense` or `tokenMap` is a step: `actionHandler`
reads the old state, writes, reads up to three times and reports. The maps have
no lock. Within a map access Go promises nothing and the runtime may stop the
process; `ServerRestart` stands for that and for any other crash. Reviewers ask
once each, for either decision, at any time after the creation. An activity that
timed out is not stopped: `late` is its request, which may reach the server
after the workflow has failed. A payment that arrives then still marks the
expense as completed, and must still follow an approval.

### What a decision is

Several modules rest on how the client library runs workflow code. A decision
starts with everything that reached the history since the last one. The
coroutine of the workflow function runs first, then the others in the order in
which they were started, until all of them block. A selector that finds
something ready takes the first case in the order of registration; one that is
blocked is woken by what arrives first. A worker that gets a decision without
its state replays the history. These assumptions decide close races, so they
are stated here and are marked external in `PROJECT.json`.

### LRU

Every method holds the mutex, so each is one action. A value is its key.
`byKey` is the set `cached`, `byAccess` the sequence `access`. `putInternal`
has two cases, `Refresh` and `Insert`, and the latter three: the entry fits, the
cache is full of pinned entries (the insert is taken back), the oldest entry
goes. The size is compared after the insert, so a cache of size n keeps n - 1
entries; `BelowCapacity` says `<`, not `<=`. `held` is what users got in pin
mode and have not released. A user holds a key once, and nobody deletes what
another one holds: the cache guards against neither. `got` is what the last call
returned, by which method, and whether its time to live had passed: `Get` drops
such an entry unless it is pinned (`LookupIsFresh`), `Put` and `PutIfNotExist`
return it (`cache_expired`).

### AwaitSignals

A unit of the clock is fifteen seconds, so the timeouts of the code, 30 and 60
seconds, are 2 and 4. `AwaitSignal` is the wait with a timer, `NextSignal` what
follows an activity. Within a decision the workflow runs before the coroutine
that sets the flags: a signal that comes in the batch of the fired timer comes
too late, though it is in the history. `GivenUpOnlyWhenLate` says what is
promised in spite of it.

### OrderFulfillment

A signal remembers what its sender saw (`seen`), which no code reads; only
`ButtonsWork` does. `SelectSignal` is a round of the loop: the selector found
the signal, or was blocked and woken by it. A signal for another status is
received and forgotten. The selector has its channels in the order in which an
order goes through its statuses, and `NoStepDroppedEarly` says what this is good
for: of the signals that one decision finds, none is dropped for a status that
is reached later in the same decision. It does not hold for the signal that
wakes a blocked selector, which is taken in the order of arrival. The server
refuses to close a run for which a signal is buffered: `OrderCloseRefused` takes
the decision back to what `begun` recorded, and it is made again with the
signals that arrived.

### Versioning, FileProcessing, RetryActivity, DSL, Recipes

`Versioning` keeps of a history the version marker and the activity.
`FirstDecision` runs the code of a version, `waitForSignal` the later decisions,
each after a replay that must agree with the history (`Supports`).

`FileProcessing` lets an attempt that the server no longer waits for go on. An
attempt is known by its number, and so is the file it writes. `ReadFile` and the
end of the activity are separate steps, the removal of the input is part of the
latter. A session that no host takes in time costs a round as any error does
(`CreationTimeout`). `FilesAccounted` is about every round and every fault: apart
from the file of the open session there are no more files than faults and lost
rounds.

`RetryActivity` may lose any heartbeat report, and an attempt when its worker
crashes. `ExpirationInterval` may end the retries at any time: how long an
attempt takes depends on the batch, and no bound on it is assumed.

`DSL` interprets any of `Workflows`, which `workflow1.yaml` and `workflow2.yaml`
become statements numbered from the root. A workflow must be a tree
(`WorkflowsAreTrees`), as what is read from a file is. `Subtree` gives the
statements of each subtree, and so says without recursion which calls of
`execute` have returned (`Done`, `Failed`) and which have been made (`Called`).
`BindsInOrder` is a property of a workflow: each activity uses only results that
must be there before it.

In `Recipes` the variable `recipe` chooses the workflow, `stage` is where its
code waits. `workerCount` is the parameter of split and merge; `total` keeps how
often the result of each chunk was added. A chunk that fails sends its error,
which is received like a result and adds nothing.

### Catalog, NewCatalog, Deployment

A worker takes any task of its list, and fails it if it does not know the type;
names agree only as strings. The catalogues translate every `main.go` and
`worker.go` into workers and starts, and every workflow function into stages of
the tasks it schedules. `Deployment` runs one sample and, beside it, maybe a
stranger whose workers poll one of the same lists. A decision is made by any
worker that knows the type, with the code of the worker that made the first.

A worker looks a workflow type up among its aliases first, so that a function
registered under an alias is also found by its own name (`WithAlias`): the
recovery sample's `main.tripWorkflow` reaches the function registered as
`tripWorkflow`. The versioning recipe is four samples, one for each value of its
`-v` flag.

`Coherent(s)` is what can be read off the programs without running them: a
sample registers what it starts and, for the types that it registers, what the
code of that name schedules, its own or that of a stranger on its lists. It is
the hypothesis of a theorem; the runs do not assume it, and check `Served`
itself.

The run `samples` deploys every sample that keeps `Served`. Left out of
`Samples`, because they do not: `new_query` (the run `deployment_query`),
`new_dynamic`, `new_crossdomain`, `client_tls` and `recovery` (see the findings),
and `versioning_v4`, which a worker of version 1 or 2 on its list breaks. Left
out of `Strangers` besides: `new_cancelactivity` and `new_operations`, which
register different code under one type, and `versioning_v3` and `versioning_v4`,
whose activities a worker of version 1 does not know. What the versions may do
to one another's executions is the subject of `Versioning`.

## Runs

| Run | Instance | Shows |
|---|---|---|
| `mutex_safety` | 3 clients, 2 attempts each, symmetric; no run timeout | type, `MutualExclusion`, `NoRequestLost`, `ReleaseReachesGranter`, the inductive `IInv`, and that `Mutex` implements `Lock` |
| `mutex_liveness` | 2 clients, runs may time out after one grant | `ExclusionWithinRun`, `EventuallyLocked`, `EventuallyFinished` |
| `mutex_timeout` | 4 clients, runs time out after two grants | **violation** of `MutualExclusion` |
| `recovery` | 1 trip with 3 signals, limit 1, or 3 trips in 2 batches; 2 attempts and an abandoned one | the inductive `RecoveryIInv` (types included), `NeverOvercounts`, `DoneIsRecovered`, `TerminatedIsPending`, `EventuallyCompletes` |
| `recovery_lost` | 1 trip, 2 signals | **violation** of `AllSignalsReplayed` |
| `recovery_empty` | 1 trip | **violation** of `RecoveryEnds` |
| `trip_type` | 1 trip, limit 10, 12 signals | **violation** of `ReceivedIsCounted` |
| `expense_early` | 1 reviewer, no timeout | **violation** of `ApprovalCompletes` |
| `samples` | twelve specifications, see below | the 26 properties below |
| `deployment_query` | the query sample alone | **violation** of `Served` |
| `cache_expired` | 1 key, size 2, time to live 1 | **violation** of `ReturnedIsFresh` |
| `versioning_matrix` | 4 versions, 2 workers at a time | **violation** of `MatrixHolds` |

A behaviour of `samples` is one of a single module: the initial state chooses
`sample`, the state of the others does not change, so that their state spaces
add up.

| `sample` | Instance | Properties |
|---|---|---|
| trip | 1 trip, limit 2, 4 signals | `CounterNeverDecreases` |
| counter | 4 signals, limit 2, 1 lost decision | `CounterIInv` (with `EachSignalOnce`), `ImplementsTally`, `EventuallyCounted` |
| cache | 3 keys, 2 users, sizes 1 to 3, with and without time to live and pins, 4 times | `CacheIInv`, `LookupIsFresh` |
| await | timeouts 2 and 4, the clock free up to 6 | `HandledInTime`, `GivenUpOnlyWhenLate`, `AwaitEnds` |
| order | 2 operators, 3 clicks, 1 signal without a dashboard | `LogLeadsToStatus`, `NoStepDroppedEarly`, `ButtonsWork` |
| versioning | 4 versions, 2 workers at a time | `NeighboursAgree` |
| recipe | six recipes, 3 chunks and branches | `CompletedMeansDone`, `EmailOnlyWhenSlow`, `CleanedUp`, `TotalsOfChunks` |
| retry | batches of 1 to 12 and of 20, 2 losses | `RetryIInv`, `AttemptsSuffice` |
| dsl | both workflows of the sample, and `deepWorkflow` | `ArgumentsBound` |
| file | 2 hosts, 4 attempts, 2 faults | `UploadedIsProcessed`, `FilesAccounted` |
| expense | 2 reviewers, timeouts, 1 restart | `DecisionWasMade`, the inductive `ExpenseIInv`, `StartedExpenseEnds` (`ExpenseEnds` for its behaviours) |
| deployment | 57 samples, each alone and with each of 54 strangers that shares a list | `Served` |

Why the bounds are enough. Two attempts give the repeated request; three clients
give a holder, a queued client and a third that meets the completion of the run.
In `recovery` signals reach one trip, and only if the recovery lists no other,
since attempts on different trips share nothing but the list; three signals with
a limit of one cross two run boundaries, and both workflow types are registered,
which adds the behaviours of continuing as new to those of the code as it is.
Three trips without signals make one full and one short batch. Two attempts and
an abandoned one are a retry that meets its predecessor; one abandoned attempt is
under way at a time over all batches. `MCRecovery` has these bounds
in `Bounded`. The limits of 10 and 3 signals are scaled to 1 or 2 except in `trip_type`,
which uses the real one. Two reviewers contradict each other, in either order, before and after the
report of either. In `samples` three keys in a cache of size three are one more than it
keeps; the clock of `await` passes the total timeout; three clicks and a blind
signal are enough for two operators to act on old dashboards; twelve batch sizes
cover every remainder modulo three at every number of attempts, and 20 is the
sample's; four attempts with two faults let an abandoned attempt meet the
next one on its host. Two workers are enough for a rollout, since one decision
has one worker. Deadlock is checked for the mutex, whose `Terminated` step marks the
intended end; the other specifications stop when senders and reviewers do.

## Fairness

Weak fairness of each client's steps and of the mutex run: workers poll,
the server delivers, timers fire. Nothing forces a client to start, and no
execution timeout is relied upon. In `Recovery`, the decisions and the attempts
of the current batch are fair, failures are not; retries are bounded by the
policy, so failures cannot go on forever. In `SignalCounter` the worker is fair,
crashes and signals are free. In `Expense` handlers return and a pending
activity's timeout fires (`workflow.go:20-38` sets them all); reviewers need
not decide. In `expense_early` no timeout exists at all, so that the violation
cannot be blamed on one. `SamplesFairness` repeats the fairness of the counter, and
makes the waits for signals fair: activities end, decisions are made and time
passes (`AwaitProgress`); whether the later signals come is free. It repeats that
of the expense as well.

## Findings

- `mutex_timeout`: a mutex run that times out while serving a long queue loses
  its holder, and the next run grants at once (`README.md:2` of the sample).
- `recovery_lost`: signals accepted between reading the history and terminating
  the run are in neither, and errors of replayed signals are dropped.
- `recovery_empty`: with nothing to recover the workflow divides by zero in
  every decision until it times out.
- `trip_type`: after ten signals a trip continues under a type nobody registers.
- `expense_early`: an approval before the callback is registered fails the
  workflow of an approved expense.
- `versioning_matrix`: a worker of version 4 cannot continue what version 2
  started, whose marker says `DefaultVersion`; the README's matrix says it can.
  The same line says that a worker of version 1 cannot continue it, and it can:
  `MatrixWrongTwice` proves that these two entries are wrong and no other.
- `cache_expired`: `Put` returns the entry it finds without a look at its age
  (`lru.go:149-163`), though `cache.go:31-32` promises that entries older than
  the time to live will not be returned. `Get` keeps the promise without pins.
- `deployment_query`: `new_samples/query/markdown_query.go:55` executes
  `MarkdownQueryActivity`, which no worker of the sample registers: the Complete
  button of its dashboard makes the workflow wait an hour and fail.

Read, and not made a run of:

- Four more samples violate `Served` when they are put into `Samples`.
  `new_samples/dynamic` schedules `main.GetGreetingActivity` and the like
  (`dynamic.go:20-25`), and its worker registers `cadence_samples.` names
  (`worker.go:48-50`); the child domain of `new_samples/crossdomain` has no
  worker; `client_tls` starts in the domain `default`, which the worker of
  `hello_world` does not poll; the trips of `recovery` continue as
  `TripWorkflow`, which is neither an alias nor the name of a function (the run
  `trip_type` shows what becomes of their signals).
- `new_cancelactivity` and `new_operations` register different code under one
  type on one list: each breaks the other when it runs beside it. Each is
  deployed in `samples`, neither is a stranger there.
- `recipes/query` and `recipes/consistentquery` share `queryGroup`, and
  `helloworld` and `tracing` share `helloWorldGroup`, with equal type names: a
  decision may be made by the other sample's code, which `Served` allows.
- The comment of `parallel_pick_first_workflow.go:14-15` speaks of the first
  branch that completes, the loop at `:56-61` waits for all of them.
- The load generator of the autoscaling sample panics when its bounds are equal
  (`activities.go:24`); `searchattributes_workflow.go:106` indexes an empty list
  if nothing was found.
- In `cancelactivity` a heartbeat timeout that races the cancellation ends the
  run without the cleanup: the one case that `CleanedUp` allows.

## Proofs

Each theorem holds for every value of the constants that its module's named
assumption allows, and assumes nothing else unless it is said here. Every safety
invariant below is a conjunct, or a consequence, of an inductive invariant, of
which TLC has checked a small instance.

`MutexProofs`, for any set of clients and number of attempts. `TypeCorrect`
needs no assumption. `Invariance` (`Spec => []IInv`) and, from it,
`MutualExclusionHolds`, `NoRequestLostHolds`, `ReleaseReachesGranterHolds` and
`Refinement` (`Spec => L!Spec`) assume `LeaseCoversHolder` and `~RunMayTimeOut`;
the run `mutex_timeout` shows what the second is for. Mutual exclusion alone is
not inductive: a second grant can only be excluded if every acquire signal still
in flight belongs to the current holder (`GrantIsHeld`), which needs that a
release in the buffer comes from a client that left (`UnlocksAreReleased`), and
that a client holding the lock knows the run that granted it (`RunIsKnown`).
`ExclusionWithinRunHolds` says what is left when runs may time out; it assumes
`LeaseCoversHolder` alone. Its invariant `RunIInv` is another one, because an
earlier run's grants are out of everybody's sight: it follows the clients that
sent one request only (`Single`). Such a client is in the hands of no run but
the one it asked (`RequestIsOfRun`); an open run holds every lock of such a
client that it handed out (`LockIsHeld`); and of the runs that are gone each
left at most one of them behind (`OneLockOfRun`), to which nothing is added.

`RecoveryProofs`, for any trips, limits, registered types, concurrency and
attempts. `BatchesCover` and `BatchesDisjoint`: the batches are the list, each
index in one of them, for every count and every integer concurrency.
`RecoveryInvariance` is built in layers, each with the ones before:

- types and shape (`RecoveryTypeCorrect`): an attempt stays within its batch, and
  the server waits for attempts of running batches only. The bounds of a batch
  are where the arithmetic of `Batches` comes in, so that `Target` of an attempt
  is a listed trip;
- the signals of a run (`NeverOvercountsHolds`, with overlapping attempts).
  That no run counts more than was sent is not inductive: an attempt carries a
  count it read, and adds the signals it read to whatever run it started.
  `ReplaysOwnRun` says that these never exceed what was sent, that the signals
  still to be replayed fit beside those the run has, and that no two attempts
  replay to one run;
- progress (`DoneIsRecoveredHolds`): whatever lies behind a working attempt or a
  heartbeat is recovered (`ProgressIsRecovered`), and success is reported behind
  the last index;
- closed trips (`TerminatedIsPendingHolds`), overlapping attempts or not.
  `ClosedIsAhead` says that a closed trip which is not `late` lies ahead of the
  heartbeat of its batch and not behind its attempt, also where the next attempt
  resumes. An abandoned attempt marks what it closes, so that it can disturb
  nothing else; the current attempt takes the mark off when it closes the trip
  again, and then has the trip ahead of it.

`CounterNeverDecreasesHolds` is about `TripSpec`, trips beside no recovery; a
recovery starts a trip from a count that an abandoned attempt may have read
long before.

`ExpenseProofs`: `ExpenseIInv` is inductive for any number of reviewers;
`RecordsAreDecisions` traces every value in the map and in a handler to a
decision, `PaymentFollowsWait` keeps the payment's state out of the reports, and
says of a payment still on its way that its workflow has failed and somebody
approved.

`LRUProofs`, for any keys, users, sizes and times to live: `CacheIInv` is
inductive. The capacity needs that `access` has each cached key once, and that
nothing that is held is evicted needs that reference counts are numbers of
holders (`PinsAreCounted`). `LookupsAreFresh` needs that a cache without pins
has all its counts at 0 (`UnpinnedCountsNothing`): `Get` drops an expired entry
only if its count is 0.

`SignalsProofs`. `SignalCounter`, for any signals, limit and number of lost
decisions: `CounterIInv` is inductive; its part `HistoryIsRun` says that a run's
history is exactly what its counter adds to its input plus what it has yet to
receive, and is what makes a replay harmless. `EachSignalOnceHolds` follows, and
`RunsAreOneTally` (`Spec => ImplementsTally`): an accepted signal is new to the
tally because it is in no place, and a run that continues has, with nothing left
in its channels, added to its input its whole history. `AwaitSignals`, for any
timeouts: `AlwaysHandledInTime`, from
an invariant that no timer is set beyond the total timeout and that time does
not pass over one; `AlwaysGivenUpLate`, from `LateIInv`, which adds what a
running timer was set from. `OrderFulfillment`, for any operators and bounds:
the log leads to the status (`AuditTrail`), and `SelectorOrderSuffices` from
`DroppedComeFirst` (what was dropped has no later channel than what is still to
be taken) and the two tables, in which no channel leaves the order where an
earlier one asks (`NoWayBack`). What a decision began with is itself such a log
and status (`BegunIsKnown`), so that going back to it when the close is refused
keeps both. `ButtonsAlwaysWork` is an action property: it
needs that a signal in the history or in a channel asks for the status that its
sender saw (`SignalsFit`), hence that every dashboard fits its badge
(`ButtonsFit`).

`ActivityProofs`. `RetryActivity`, for any batch sizes: `RetryIInv` (no attempt
starts behind a task that was not processed) and `AttemptsSuffice`. The latter
needs arithmetic: with nothing lost, an attempt that is not the last processed
at least a third, rounded down, of the batch (and at least one task), and the
remainder of four such attempts fits the fifth, for every size. What is left as
a reason to fail is that `ExpirationInterval` is over, which the property names.
`FileProcessing`, for any hosts, attempts and faults: `OnlyProcessedIsUploaded`,
because attempt numbers are fresh (`NumbersAreFresh`), so that an abandoned
attempt can neither write nor remove the file of its successor; and
`OneFileForEachFailure`. Counting files alone is not inductive, since an
abandoned attempt may write later: `Debt` are the attempts that left a file no
session will take and those that may still do so, and there is at most one for
each fault and each lost round (`DebtIsAccounted`).

`RecipesProofs`. `Versioning`, for any number of workers: the version that
started an execution determines its marker and its activity
(`HistoryIsOfStarter`), from which follow `NeighboursAlwaysAgree` and, for the
README's compatibility matrix, all sixteen entries of it, `MatrixWrongTwice`: who
can decide about a waiting execution is what the matrix says, but for executions
of version 2, which version 1 can continue and version 4 cannot.

`Recipes`: `NothingLeftBehind`, `NoEmailInTime`, `CleanupAlwaysRuns` and, for
every `workerCount`, `ChunksCountedOnce` share `RecipesIInv`, which says for each
recipe what its activities can be in where the code waits. `CleanedUp` binds a
run wherever it stands, open, failed or completed. For the merge it says
that the chunks added are those received without an error (`MergePlan`), and
that only the tasks of a recipe are ever scheduled (`OnlyOwn`), so that all
chunks are received when it completes.

`DSL`, for any workflows that are trees: `SequencesInOrder` (whatever was
invoked comes after everything that precedes it in a sequence, and was given
what that bound) is inductive because a statement that is called stays so, and
what is done stays done. `ArgumentsAlwaysBound` follows for the workflows that
bind in order; `ResultsComeFirst` of `MCSamples` checks that those of the sample
do.

`DeploymentProofs`, for any samples and strangers: `CoherentIsServed` (`Served`)
assumes that every sample is coherent. Nothing in it looks into the catalogue;
TLC checks `Served` of the samples there are, without that hypothesis. How
executions open children, continue as new and meet the stranger's workers is in
the proof. Its invariant says that every open execution is served, waits for
served tasks only, and has left stages whose tasks will be (`ExecutionOK`), also
when a stranger's worker made the first decision.

Only model-checked: liveness, since fairness is beyond the prover:
`EventuallyLocked`, `EventuallyFinished`, `EventuallyCompletes`, `ExpenseEnds`,
`EventuallyCounted`, `AwaitEnds`. Every invariant and action property of a
passing run is stated by a theorem.

## Not modelled

Payloads, logging, deserialisation (its errors are among the failing calls of
`CallFails`), the HTML list of the expense server, the markdown of query
answers, test mocks. The one-day expiry of the recovery's retries and the ten
minutes of the file processing's are covered by bounds on attempts: both end an
activity in an error.

- Data converters: gzip, AES and a blob store, all library calls without state.
  Which worker has which converter is in `NewCatalog`, through its list.
- PSO: floating point arithmetic and random numbers; the rest of it is one loop.
- Lunch vote, query, local activity, search attribute, context propagation,
  greeting, cron, schedule and batch samples: what they schedule is in the
  catalogues. They have no interleaving of their own beyond it: the votes are a
  list that one loop appends to, the future of a batch is the library's.
- Autoscaling: defaults of a configuration, and a load generator.
- Loggers, metrics, connections, TLS, generators and templates: input and output.
- Python SDK samples: conversations with language models, external in every
  step.
