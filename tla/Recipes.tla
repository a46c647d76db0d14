------------------------------- MODULE Recipes -------------------------------
(***************************************************************************)
(* The control flow recipes: workflows that wait for several activities,   *)
(* a timer or a cancellation at once.  Activities end in any order.  A     *)
(* decision sees everything that ended since the one before, and the code  *)
(* runs until it has to wait again.                                        *)
(***************************************************************************)
EXTENDS Integers, Sequences, FiniteSets

CONSTANT workerCount  \* the argument of the split-merge workflow

ASSUME WorkerCountIsInt == workerCount \in Int

VARIABLES
    recipe,      \* the workflow that runs
    stage,       \* where its code waits
    future,      \* the state of each activity, or timer, it may schedule
    ended,       \* the activities and timers that ended, in order
    cancelAsked, \* the workflow was asked to cancel
    canceling,   \* activities whose context the code has canceled
    merged,      \* the chunks whose result was received from the channel
    total        \* how often the result of each chunk is in the totals

recipeVars ==
    <<recipe, stage, future, ended, cancelAsked, canceling, merged, total>>

Recipes == {"pickfirst", "timer", "cancelactivity", "splitmerge", "branch", "parallel"}
Chunks == 1..workerCount
Tasks == 1..3 \union Chunks
First == 1
Second == 2
Order == 1
Timer == 2
Email == 3
LongRunning == 1
Cleanup == 3
totalBranches == 3

Final == {"ok", "error", "canceled"}
Ready == {t \in Tasks : future[t] \in Final}
Pending == {t \in Tasks : future[t] = "pending"}
Closed == {"completed", "failed"}

RecipesInit ==
    /\ recipe \in Recipes
    /\ stage = "start"
    /\ future = [t \in Tasks |-> "idle"]
    /\ ended = <<>>
    /\ cancelAsked = FALSE
    /\ canceling = {}
    /\ merged = {}
    /\ total = [c \in Chunks |-> 0]

-----------------------------------------------------------------------------
\* An activity returns, fails or, if it was told so, is canceled; a timer
\* fires.  LongRunning returns only when it is canceled or times out.
EndTask(t) ==
    /\ t \in Pending
    /\ \E s \in Final :
          /\ s = "canceled" => t \in canceling
          /\ recipe = "timer" /\ t = Timer => s = "ok"
          /\ recipe = "cancelactivity" /\ t = LongRunning => s # "ok"
          /\ future' = [future EXCEPT ![t] = s]
    /\ ended' = Append(ended, t)
    /\ UNCHANGED <<recipe, stage, cancelAsked, canceling, merged, total>>

\* -m cancel, of the recipe that has it.
CancelWorkflow ==
    /\ recipe = "cancelactivity"
    /\ stage \notin Closed
    /\ ~cancelAsked
    /\ cancelAsked' = TRUE
    /\ UNCHANGED <<recipe, stage, future, ended, canceling, merged, total>>

\* The code schedules ts and waits at s, or returns.
ScheduleAll(ts, s) ==
    /\ future' = [t \in Tasks |-> IF t \in ts THEN "pending" ELSE future[t]]
    /\ stage' = s
WaitAt(s) == ScheduleAll({}, s)

-----------------------------------------------------------------------------
\* Mutant of samplePickFirstWorkflow: the losers are not waited for.
PickWithoutDrain ==
    /\ recipe = "pickfirst"
    /\ \/ stage = "start" /\ ScheduleAll({First, Second}, "select") /\ UNCHANGED canceling
       \/ stage = "select" /\ Ready # {} /\ canceling' = Pending /\ WaitAt("completed")
    /\ UNCHANGED <<merged, total>>

(* samplePickFirstWorkflow: the first future that is ready is picked, the    *)
(* others are canceled and waited for.                                       *)
samplePickFirstWorkflow ==
    /\ recipe = "pickfirst"
    /\ \/ stage = "start" /\ ScheduleAll({First, Second}, "select") /\ UNCHANGED canceling
       \/ /\ stage = "select"
          /\ Ready # {}
          /\ canceling' = Pending
          /\ WaitAt(IF Pending = {} THEN "completed" ELSE "drain")
       \/ stage = "drain" /\ Pending = {} /\ WaitAt("completed") /\ UNCHANGED canceling
    /\ UNCHANGED <<merged, total>>

(* sampleTimerWorkflow: the order is waited for in any case, an e-mail goes  *)
(* out if the timer is first. The selector that waits is woken by the future *)
(* that is ready first, also when a decision finds both of them.             *)
SelectOrder ==
    /\ future[Order] \in Final
    /\ stage = "select" => ended[1] = Order
    /\ future' = [future EXCEPT ![Timer] = IF @ = "pending" THEN "canceled" ELSE @]
    /\ stage' = "completed"
\* Mutant of SelectTimer: the timer wins when both are ready.
SelectTimerFirst == future[Timer] = "ok" /\ ScheduleAll({Email}, "email")
SelectTimer ==
    /\ future[Timer] = "ok"
    /\ ended[1] = Timer
    /\ ScheduleAll({Email}, "email")
sampleTimerWorkflow ==
    /\ recipe = "timer"
    /\ \/ stage = "start" /\ ScheduleAll({Order, Timer}, "select")
       \/ stage = "select" /\ (SelectOrder \/ SelectTimer)
       \/ /\ stage = "email"
          /\ future[Email] \in Final
          /\ WaitAt(IF future[Order] \in Final THEN "completed" ELSE "order")
       \/ stage = "order" /\ SelectOrder
    /\ UNCHANGED <<canceling, merged, total>>

(* sampleCancelWorkflow: the context is canceled when the second activity   *)
(* would be scheduled, so that it never is; the cleanup, deferred, runs with *)
(* a context of its own.                                                     *)
CancelsContext ==
    /\ cancelAsked
    /\ stage = "long"
    /\ future[LongRunning] = "pending"
    /\ LongRunning \notin canceling
    /\ canceling' = {LongRunning}
    /\ UNCHANGED <<stage, future>>
\* Mutant of AfterLongRunning: the deferred function does not ask which error
\* it was.
CleanupAfterAnyError ==
    /\ stage = "long"
    /\ future[LongRunning] \in {"error", "canceled"}
    /\ ScheduleAll({Cleanup}, "cleanup")
AfterLongRunning ==
    /\ stage = "long"
    /\ \/ future[LongRunning] = "error" /\ WaitAt("failed")
       \/ future[LongRunning] = "canceled" /\ ScheduleAll({Cleanup}, "cleanup")
AfterCleanup ==
    /\ stage = "cleanup"
    /\ \/ future[Cleanup] = "ok" /\ WaitAt("completed")
       \/ future[Cleanup] = "error" /\ WaitAt("failed")
sampleCancelWorkflow ==
    /\ recipe = "cancelactivity"
    /\ \/ CancelsContext
       \/ /\ \/ /\ stage = "start"
                /\ IF cancelAsked THEN ScheduleAll({Cleanup}, "cleanup")
                                  ELSE ScheduleAll({LongRunning}, "long")
             \/ AfterLongRunning
             \/ AfterCleanup
          /\ UNCHANGED canceling
    /\ UNCHANGED <<merged, total>>

(* sampleSplitMergeWorkflow: one coroutine for each chunk sends its result,  *)
(* or its error, to the channel that the workflow receives from.  The totals *)
(* are kept by what was added to them.                                       *)
AddToTotals(cs) == total' = [c \in Chunks |-> IF c \in cs THEN total[c] + 1 ELSE total[c]]
\* Mutant of ReceiveChunks: a chunk whose activity failed is added as well.
ReceiveFailed(cs) == AddToTotals(cs) /\ merged' = merged \union cs
ReceiveChunks(cs) ==
    /\ AddToTotals({c \in cs : future[c] = "ok"})
    /\ merged' = merged \union cs
sampleSplitMergeWorkflow ==
    /\ recipe = "splitmerge"
    /\ \/ /\ stage = "start"
          /\ ScheduleAll(Chunks, IF Chunks = {} THEN "completed" ELSE "merge")
          /\ UNCHANGED <<merged, total>>
       \/ /\ stage = "merge"
          /\ Ready # merged
          /\ ReceiveChunks(Ready \ merged)
          /\ WaitAt(IF Ready = Chunks THEN "completed" ELSE "merge")
    /\ UNCHANGED canceling

(* sampleBranchWorkflow waits for its futures in order and returns the first *)
(* error it comes to.                                                        *)
FirstNotOk == {t \in 1..totalBranches : future[t] # "ok" /\ \A u \in 1..(t - 1) : future[u] = "ok"}
sampleBranchWorkflow ==
    /\ recipe = "branch"
    /\ \/ stage = "start" /\ ScheduleAll(1..totalBranches, "wait")
       \/ /\ stage = "wait"
          /\ \/ FirstNotOk = {} /\ WaitAt("completed")
             \/ (\E t \in FirstNotOk : future[t] = "error") /\ WaitAt("failed")
    /\ UNCHANGED <<canceling, merged, total>>

(* sampleParallelWorkflow: a coroutine with two activities, 1 and 2, and one *)
(* with activity 3; the first error that is received is returned.           *)
sampleParallelWorkflow ==
    /\ recipe = "parallel"
    /\ \/ stage = "start" /\ ScheduleAll({1, 3}, "receive")
       \/ /\ stage = "receive"
          /\ \/ (\E t \in Ready : future[t] = "error") /\ WaitAt("failed")
             \/ /\ \A t \in Ready : future[t] = "ok"
                /\ \/ 1 \in Ready /\ future[2] = "idle" /\ ScheduleAll({2}, "receive")
                   \/ Ready = 1..3 /\ WaitAt("completed")
    /\ UNCHANGED <<canceling, merged, total>>

Decision ==
    /\ \/ samplePickFirstWorkflow
       \/ sampleTimerWorkflow
       \/ sampleCancelWorkflow
       \/ sampleSplitMergeWorkflow
       \/ sampleBranchWorkflow
       \/ sampleParallelWorkflow
    /\ UNCHANGED <<recipe, ended, cancelAsked>>

RecipesNext == (\E t \in Tasks : EndTask(t)) \/ CancelWorkflow \/ Decision

RecipesSpec == RecipesInit /\ [][RecipesNext]_recipeVars

-----------------------------------------------------------------------------
RecipesTypeOK ==
    /\ recipe \in Recipes
    /\ stage \in Closed \union {"start", "select", "drain", "email", "order", "long",
                             "cleanup", "merge", "wait", "receive"}
    /\ future \in [Tasks -> Final \union {"idle", "pending"}]
    /\ ended \in Seq(Tasks)
    /\ cancelAsked \in BOOLEAN
    /\ canceling \subseteq Tasks /\ merged \subseteq Chunks
    /\ total \in [Chunks -> Nat]

\* A workflow that completes leaves nothing behind: whatever it scheduled has
\* ended, the losers of the race and the order whose e-mail went out included.
CompletedMeansDone == stage = "completed" => Pending = {}

\* The e-mail about the delay goes out only if the threshold passed while the
\* order was processed, also when a decision finds both of them ready.
EmailOnlyWhenSlow ==
    recipe = "timer" /\ future[Email] # "idle" =>
        \E i \in DOMAIN ended :
            /\ ended[i] = Timer
            /\ \A j \in 1..(i - 1) : ended[j] # Order

\* The cleanup is the answer to a cancellation.  Wherever the run stands, also
\* when it goes on or has failed, the cleanup was scheduled only if somebody
\* asked to cancel and after the long activity had ended as canceled or, the
\* request being first, was never scheduled.  A run closes without it in one
\* case only: the activity ended with an error of its own, which also a
\* cancellation under way does not change.  It completes if the cleanup did.
CleanedUp ==
    recipe = "cancelactivity" =>
        /\ future[Cleanup] # "idle"
              => cancelAsked /\ future[LongRunning] \in {"idle", "canceled"}
        /\ stage \in Closed => (future[Cleanup] = "idle" <=> future[LongRunning] = "error")
        /\ stage = "completed" <=> future[Cleanup] = "ok" /\ stage \in Closed

\* The merged totals are those of the chunks that were processed, each added
\* once, in whatever order and in however many decisions they came; those of
\* the activities that failed are left out, and no chunk is still processed.
TotalsOfChunks ==
    recipe = "splitmerge" /\ stage = "completed" =>
        \A c \in Chunks :
            /\ future[c] \in Final
            /\ total[c] = IF future[c] = "ok" THEN 1 ELSE 0
=============================================================================
