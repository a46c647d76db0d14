---------------------------- MODULE RecipesProofs ----------------------------
(* Proofs about the recipes: versioning, for any number of workers; what    *)
(* the control flow recipes leave behind when they close, for any number of *)
(* chunks; and the order in which the DSL interpreter runs any workflow.    *)
EXTENDS Versioning, Recipes, DSL, TLAPS

-----------------------------------------------------------------------------
(* Versioning: the inductive invariant.                                     *)

\* What the first decision of a worker writes into the history.
Written(v, marker, activity) ==
    execution.startedBy = v /\ execution.marker = marker /\ execution.activity = activity

HistoryIsOfStarter ==
    IF execution.status \in {"none", "started"}
    THEN execution.marker = NoMarker
    ELSE \/ Written(1, NoMarker, FooActivityName)
         \/ Written(2, DefaultVersion, FooActivityName)
         \/ Written(3, 1, BarActivityName)
         \/ Written(4, 1, BarActivityName)

VersioningIInv ==
    /\ VersioningTypeOK
    /\ HistoryIsOfStarter
    /\ NeighboursAgree

LEMMA VersioningInitInv == VersioningInit => VersioningIInv
  <1> SUFFICES ASSUME VersioningInit PROVE VersioningIInv
    OBVIOUS
  <1>1. VersioningTypeOK
    BY DEF VersioningInit, VersioningTypeOK, NoRun, Open
  <1> QED
    BY <1>1 DEF VersioningInit, VersioningIInv, HistoryIsOfStarter, NeighboursAgree, NoRun

\* A worker next to the one that started an execution can continue it.
LEMMA NeighbourSupports ==
    ASSUME HistoryIsOfStarter, execution.status \in {"scheduled", "waiting"},
           NEW v \in WorkerVersions, v - execution.startedBy \in {-1, 0, 1}
    PROVE  Supports(v) /\ execution.activity \in RegisteredActivities(v)
  <1>1. v \in {1, 2, 3, 4}
    BY DEF WorkerVersions
  <1> USE DEF Supports, RegisteredActivities, VersionIn, GetVersion, Replaying, MinSupported,
              ActivityOf, ExecuteWithMinVersion, DefaultVersion, NoMarker, FooActivityName,
              BarActivityName
  <1>2. CASE Written(1, NoMarker, FooActivityName) /\ v \in {1, 2}
    BY <1>2 DEF Written
  <1>3. CASE Written(2, DefaultVersion, FooActivityName) /\ v \in {1, 2, 3}
    BY <1>3 DEF Written
  <1>4. CASE Written(3, 1, BarActivityName) /\ v \in {2, 3, 4}
    BY <1>4 DEF Written
  <1>5. CASE Written(4, 1, BarActivityName) /\ v \in {3, 4}
    BY <1>5 DEF Written
  <1> QED  BY <1>1, <1>2, <1>3, <1>4, <1>5 DEF HistoryIsOfStarter, Written

\* What a worker cannot execute is not that of its neighbour.
LEMMA StrangersOnly ==
    ASSUME VersioningIInv, execution.status \in {"scheduled", "waiting"},
           NEW v \in WorkerVersions, NEW what \in {"activity", "decision"},
           ~(Supports(v) /\ execution.activity \in RegisteredActivities(v)),
           CannotExecute(v, what)
    PROVE  /\ unsupported' \subseteq [what : {"activity", "decision"}, by : WorkerVersions,
                                      startedBy : WorkerVersions]
           /\ NeighboursAgree'
  <1> DEFINE u == [what |-> what, by |-> v, startedBy |-> execution.startedBy]
  <1>1. unsupported' = unsupported \union {u}
    BY DEF CannotExecute
  <1>2. execution.startedBy \in WorkerVersions
    BY DEF VersioningIInv, HistoryIsOfStarter, Written, WorkerVersions
  <1>3. u.by - u.startedBy \notin {-1, 0, 1}
    BY NeighbourSupports DEF VersioningIInv
  <1> QED
    BY <1>1, <1>2, <1>3 DEF VersioningIInv, VersioningTypeOK, NeighboursAgree

LEMMA VersioningStepInv == VersioningIInv /\ [VersioningNext]_versioningVars => VersioningIInv'
  <1> SUFFICES ASSUME VersioningIInv, [VersioningNext]_versioningVars PROVE VersioningIInv'
    OBVIOUS
  <1> USE DEF VersioningIInv
  <1>1. ASSUME UNCHANGED <<execution, unsupported>>, polling' \subseteq WorkerVersions,
               stopSignal' \in BOOLEAN
        PROVE  VersioningIInv'
    BY <1>1 DEF VersioningTypeOK, HistoryIsOfStarter, NeighboursAgree, Written
  <1>2. ASSUME NEW v \in WorkerVersions, DeployVersion(v) \/ KillVersion(v)
        PROVE  VersioningIInv'
    BY <1>1, <1>2 DEF DeployVersion, KillVersion, VersioningTypeOK
  <1>3. CASE StopWorkflow \/ UNCHANGED versioningVars
    BY <1>1, <1>3 DEF StopWorkflow, versioningVars, VersioningTypeOK
  <1>4. CASE TriggerVersioned
    <2>1. /\ execution' = [status |-> "started", startedBy |-> 0, marker |-> NoMarker,
                           activity |-> "none"]
          /\ stopSignal' = FALSE /\ unsupported' = {} /\ polling' = polling
      BY <1>4 DEF TriggerVersioned, NoRun
    <2> QED
      BY <2>1 DEF VersioningTypeOK, HistoryIsOfStarter, NeighboursAgree, Open
  <1>5. ASSUME NEW v \in WorkerVersions, FirstDecision(v)
        PROVE  VersioningIInv'
    <2>1. execution.marker = NoMarker /\ execution.status = "started"
      BY <1>5 DEF FirstDecision, HistoryIsOfStarter
    <2>2. /\ execution' = [status |-> "scheduled", startedBy |-> v,
                           marker |-> IF v = 1 THEN NoMarker ELSE VersionIn(v),
                           activity |-> ActivityOf(v)]
          /\ UNCHANGED <<polling, stopSignal, unsupported>>
      BY <1>5 DEF FirstDecision
    <2>3. v \in {1, 2, 3, 4}
      BY DEF WorkerVersions
    <2>4. /\ v = 2 => VersionIn(v) = DefaultVersion
          /\ v \in {3, 4} => VersionIn(v) = 1
      BY <2>1 DEF VersionIn, GetVersion, Replaying, ExecuteWithMinVersion
    <2>5. /\ v \in {1, 2} => ActivityOf(v) = FooActivityName
          /\ v \in {3, 4} => ActivityOf(v) = BarActivityName
      BY <2>4 DEF ActivityOf, DefaultVersion
    <2>6. HistoryIsOfStarter'
      BY <2>2, <2>3, <2>4, <2>5 DEF HistoryIsOfStarter, Written
    <2>7. VersioningTypeOK'
      BY <2>2, <2>3, <2>4, <2>5 DEF VersioningTypeOK, Open
    <2> QED  BY <2>2, <2>6, <2>7 DEF NeighboursAgree
  <1>6. ASSUME execution.status \in {"scheduled", "waiting"}, UNCHANGED <<polling, stopSignal>>,
               NEW s \in {"waiting", "failed", "completed"},
               execution' = [execution EXCEPT !.status = s] \/ UNCHANGED execution,
               unsupported' \subseteq [what : {"activity", "decision"}, by : WorkerVersions,
                                       startedBy : WorkerVersions],
               NeighboursAgree'
        PROVE  VersioningIInv'
    <2>1. VersioningTypeOK'
      BY <1>6 DEF VersioningTypeOK, Open
    <2>2. HistoryIsOfStarter'
      BY <1>6 DEF VersioningTypeOK, HistoryIsOfStarter, Written
    <2> QED  BY <1>6, <2>1, <2>2
  <1>7. ASSUME NEW v \in WorkerVersions, PerformVersioned(v)
        PROVE  VersioningIInv'
    <2>1. CASE execution.activity \in RegisteredActivities(v)
      BY <1>6, <1>7, <2>1 DEF PerformVersioned, VersioningTypeOK, NeighboursAgree
    <2>2. CASE execution.activity \notin RegisteredActivities(v)
      BY <1>6, <1>7, <2>2, StrangersOnly DEF PerformVersioned
    <2> QED  BY <2>1, <2>2
  <1>8. ASSUME NEW v \in WorkerVersions, waitForSignal(v)
        PROVE  VersioningIInv'
    <2>1. CASE Supports(v)
      <3>1. /\ execution' = [execution EXCEPT !.status = "completed"] \/ UNCHANGED execution
            /\ UNCHANGED unsupported
        BY <1>8, <2>1 DEF waitForSignal, VersioningTypeOK
      <3> QED  BY <1>6, <1>8, <3>1 DEF waitForSignal, VersioningTypeOK, NeighboursAgree
    <2>2. CASE ~Supports(v)
      BY <1>6, <1>8, <2>2, StrangersOnly DEF waitForSignal
    <2> QED  BY <2>1, <2>2
  <1> QED
    BY <1>2, <1>3, <1>4, <1>5, <1>7, <1>8 DEF VersioningNext, VersioningTypeOK

\* However many workers of whatever versions come, go and take decisions and
\* activities: what one of them cannot execute was started by a version that is
\* at least two away from its own.
THEOREM NeighboursAlwaysAgree == VersioningSpec => []NeighboursAgree
  <1>1. VersioningIInv => NeighboursAgree
    BY DEF VersioningIInv
  <1> QED
    BY <1>1, VersioningInitInv, VersioningStepInv, PTL DEF VersioningSpec

\* The matrix is right about a pair of versions when the worker of the one can
\* decide about what the other started just when it is listed.
RightAbout(v) == Supports(v) <=> v \in Matrix[execution.startedBy]

\* The two pairs it is wrong about: version 1 about executions of version 2,
\* which it can continue, and version 4 about them, which it cannot.
MatrixErrors ==
    execution.status = "waiting" =>
        \A v \in WorkerVersions : RightAbout(v) <=> ~(execution.startedBy = 2 /\ v \in {1, 4})

LEMMA HistoryDecides ==
    ASSUME HistoryIsOfStarter
    PROVE  MatrixErrors
  <1> SUFFICES ASSUME execution.status = "waiting", NEW v \in WorkerVersions
               PROVE  RightAbout(v) <=> ~(execution.startedBy = 2 /\ v \in {1, 4})
    BY DEF MatrixErrors
  <1>1. v \in {1, 2, 3, 4}
    BY DEF WorkerVersions
  <1> USE <1>1 DEF RightAbout, Supports, VersionIn, GetVersion, Replaying, MinSupported,
        ActivityOf, ExecuteWithMinVersion, DefaultVersion, NoMarker, FooActivityName,
        BarActivityName, Matrix, WorkerVersions, Written
  <1>2. CASE Written(1, NoMarker, FooActivityName)
    BY <1>2
  <1>3. CASE Written(2, DefaultVersion, FooActivityName)
    BY <1>3
  <1>4. CASE Written(3, 1, BarActivityName) \/ Written(4, 1, BarActivityName)
    BY <1>4
  <1> QED  BY <1>2, <1>3, <1>4 DEF HistoryIsOfStarter

\* The compatibility matrix of README.md is wrong in exactly two of its sixteen
\* entries.  While an execution waits for its signal, the workers that can
\* decide about it are those that the matrix lists, with two exceptions: for
\* what version 2 started, version 1 can, and version 4 cannot.
THEOREM MatrixWrongTwice == VersioningSpec => []MatrixErrors
  <1>1. VersioningIInv => MatrixErrors
    BY HistoryDecides DEF VersioningIInv
  <1> QED
    BY <1>1, VersioningInitInv, VersioningStepInv, PTL DEF VersioningSpec

-----------------------------------------------------------------------------
(* The control flow recipes: the inductive invariant says, for each recipe, *)
(* what its activities can be in at each place its code waits.              *)

States == Final \union {"idle", "pending"}

StateOK ==
    /\ recipe \in Recipes
    /\ future \in [Tasks -> States]
    /\ ended \in Seq(Tasks)

\* The e-mail starts when the timer has fired; what waits for the order after
\* it has seen it end.
TimerPlan ==
    recipe = "timer" =>
        /\ stage \in {"start", "select", "email", "order", "completed"}
        /\ stage \in {"start", "select"} => future[Email] = "idle"
        /\ stage \in {"email", "order"} => future[Timer] = "ok"
        /\ stage = "order" => future[Email] \in Final
        /\ future[Timer] = "ok" => ended # <<>>

\* The cleanup runs in a canceled execution only, and after the activity it
\* cleans up after, which a canceled execution may never have scheduled.
CancelPlan ==
    recipe = "cancelactivity" =>
        /\ stage \in {"start", "long", "cleanup"} \union Closed
        /\ future[2] = "idle"
        /\ canceling # {} \/ future[LongRunning] = "canceled" => cancelAsked
        /\ stage = "start" => future[LongRunning] = "idle"
        /\ stage \in {"start", "long"} => future[Cleanup] = "idle"
        /\ stage = "cleanup" => cancelAsked /\ future[LongRunning] \in {"idle", "canceled"}
        /\ stage \in Closed => Pending = {}

\* The numbers of what a recipe may schedule; the others are never used.
Own == IF recipe = "splitmerge" THEN Chunks ELSE 1..3
OnlyOwn == \A t \in Tasks \ Own : future[t] = "idle"

\* A chunk is received once it is ready, and is then in the totals unless its
\* activity failed; the merge ends with the last chunk.
MergePlan ==
    recipe = "splitmerge" =>
        /\ stage \in {"start", "merge", "completed"}
        /\ stage = "start" => \A t \in Tasks : future[t] = "idle"
        /\ merged \subseteq Ready
        /\ total \in [Chunks -> Nat]
        /\ \A c \in Chunks : total[c] = IF c \in merged /\ future[c] = "ok" THEN 1 ELSE 0
        /\ stage = "completed" => Chunks \subseteq merged

RecipesIInv ==
    /\ StateOK
    /\ OnlyOwn
    /\ MergePlan
    /\ CompletedMeansDone
    /\ TimerPlan
    /\ EmailOnlyWhenSlow
    /\ CancelPlan
    /\ CleanedUp

LEMMA TaskNumbers ==
    /\ {1, 2, 3} \subseteq Tasks /\ Chunks \subseteq Tasks
    /\ 1..3 = {1, 2, 3} /\ Tasks = {1, 2, 3} \union Chunks
    /\ \A t \in Tasks : t \in Pending <=> future[t] = "pending"
    /\ \A t \in Tasks : t \in Ready <=> future[t] \in Final
    /\ Pending \subseteq Tasks /\ Ready \subseteq Tasks
  BY DEF Tasks, Pending, Ready

\* Only what a recipe may schedule is pending or ready.
LEMMA OwnTasks ==
    ASSUME RecipesIInv
    PROVE  /\ Pending \subseteq Own /\ Ready \subseteq Own
           /\ recipe # "splitmerge" => Own = {1, 2, 3}
           /\ recipe = "splitmerge" => Own = Chunks
  BY TaskNumbers DEF RecipesIInv, OnlyOwn, Own, Final

LEMMA RecipesInitInv == RecipesInit => RecipesIInv
  <1> SUFFICES ASSUME RecipesInit PROVE RecipesIInv
    OBVIOUS
  <1>1. /\ future = [t \in Tasks |-> "idle"] /\ merged = {} /\ stage = "start"
        /\ total = [c \in Chunks |-> 0]
    BY DEF RecipesInit
  <1>2. OnlyOwn /\ MergePlan
    BY <1>1 DEF OnlyOwn, MergePlan
  <1>3. StateOK
    BY DEF RecipesInit, StateOK, States
  <1>4. future[1] = "idle" /\ future[2] = "idle" /\ future[3] = "idle"
    BY <1>1, TaskNumbers
  <1>5. CompletedMeansDone /\ TimerPlan /\ EmailOnlyWhenSlow /\ CancelPlan /\ CleanedUp
    BY <1>4 DEF RecipesInit, CompletedMeansDone, TimerPlan, EmailOnlyWhenSlow, CancelPlan,
       CleanedUp, Closed, Timer, Email, LongRunning, Cleanup, Final
  <1> QED  BY <1>2, <1>3, <1>5 DEF RecipesIInv

\* What has ended stays in the order it ended.
LEMMA EndedGrows ==
    ASSUME RecipesIInv, NEW t \in Tasks, ended' = Append(ended, t)
    PROVE  /\ ended' \in Seq(Tasks) /\ ended' # <<>>
           /\ \A i \in DOMAIN ended : i \in DOMAIN ended' /\ ended'[i] = ended[i]
           /\ DOMAIN ended = 1..Len(ended) /\ Len(ended) \in Nat
  BY DEF RecipesIInv, StateOK

LEMMA EndTaskKeeps ==
    ASSUME RecipesIInv, NEW t \in Tasks, EndTask(t)
    PROVE  RecipesIInv'
  <1>1. PICK s \in Final :
           /\ s = "canceled" => t \in canceling
           /\ recipe = "timer" /\ t = Timer => s = "ok"
           /\ recipe = "cancelactivity" /\ t = LongRunning => s # "ok"
           /\ future' = [future EXCEPT ![t] = s]
    BY DEF EndTask
  <1>2. /\ future[t] = "pending" /\ ended' = Append(ended, t)
        /\ UNCHANGED <<recipe, stage, cancelAsked, canceling, merged, total>>
    BY DEF EndTask, Pending
  <1>3. /\ future \in [Tasks -> States] /\ future' \in [Tasks -> States]
        /\ future'[t] = s
        /\ \A u \in Tasks : u # t => future'[u] = future[u]
    BY <1>1 DEF RecipesIInv, StateOK, States
  <1>4. "pending" \notin Final /\ "idle" \notin Final
    BY DEF Final
  <1>5. StateOK'
    BY <1>2, <1>3, EndedGrows DEF RecipesIInv, StateOK
  <1>6. Pending' \subseteq Pending
    BY <1>1, <1>3, <1>4 DEF Pending
  <1>7. CompletedMeansDone'
    BY <1>2, <1>6 DEF RecipesIInv, CompletedMeansDone
  <1>8. TimerPlan'
    BY <1>1, <1>2, <1>3, <1>4, EndedGrows DEF RecipesIInv, TimerPlan, Timer, Email, Tasks
  <1>9. EmailOnlyWhenSlow'
    <2>1. SUFFICES ASSUME recipe = "timer", future'[Email] # "idle"
                   PROVE  \E i \in DOMAIN ended' :
                             /\ ended'[i] = Timer
                             /\ \A j \in 1..(i - 1) : ended'[j] # Order
      BY <1>2 DEF EmailOnlyWhenSlow
    <2>2. future[Email] # "idle"
      BY <1>2, <1>3, <2>1 DEF Email, Tasks
    <2>3. PICK i \in DOMAIN ended :
             ended[i] = Timer /\ \A j \in 1..(i - 1) : ended[j] # Order
      BY <2>1, <2>2 DEF RecipesIInv, EmailOnlyWhenSlow
    <2>4. \A j \in 1..(i - 1) : j \in DOMAIN ended
      BY <1>2, EndedGrows
    <2> QED  BY <1>2, <2>3, <2>4, EndedGrows
  <1>10. CancelPlan' /\ CleanedUp'
    <2>1. SUFFICES ASSUME recipe = "cancelactivity" PROVE CancelPlan' /\ CleanedUp'
      BY <1>2 DEF CancelPlan, CleanedUp
    <2>2. CASE stage \in Closed
      BY <1>2, <2>1, <2>2 DEF RecipesIInv, CancelPlan, Pending
    <2>3. CASE stage \notin Closed
      <3>1. future[2] = "idle" /\ t # 2
        BY <1>2, <2>1 DEF RecipesIInv, CancelPlan
      <3>2. CASE t = LongRunning
        BY <1>1, <1>2, <1>3, <1>4, <2>1, <2>3, <3>1, <3>2
           DEF RecipesIInv, CancelPlan, CleanedUp, Closed, LongRunning, Cleanup, Tasks, Final
      <3>3. CASE t = Cleanup
        BY <1>1, <1>2, <1>3, <1>4, <2>1, <2>3, <3>1, <3>3
           DEF RecipesIInv, CancelPlan, CleanedUp, Closed, LongRunning, Cleanup, Tasks, Final
      <3>4. t \in {1, 2, 3}
        BY <1>2, <2>1, OwnTasks, TaskNumbers
      <3> QED  BY <3>1, <3>2, <3>3, <3>4 DEF LongRunning, Cleanup
    <2> QED  BY <2>2, <2>3
  <1>11. OnlyOwn'
    BY <1>2, <1>3 DEF RecipesIInv, OnlyOwn, Own, Tasks
  <1>12. MergePlan'
    <2>1. SUFFICES ASSUME recipe = "splitmerge" PROVE MergePlan'
      BY <1>2 DEF MergePlan
    <2>2. t \notin merged
      BY <1>2, <1>4, <2>1, TaskNumbers DEF RecipesIInv, MergePlan
    <2>3. merged \subseteq Ready'
      BY <1>2, <1>3, <2>1, <2>2 DEF RecipesIInv, MergePlan, Ready
    <2>4. stage # "start"
      BY <1>2, <2>1 DEF RecipesIInv, MergePlan
    <2>5. \A c \in Chunks : total[c] = IF c \in merged /\ future'[c] = "ok" THEN 1 ELSE 0
      BY <1>3, <2>1, <2>2, TaskNumbers DEF RecipesIInv, MergePlan
    <2> QED  BY <1>2, <2>1, <2>3, <2>4, <2>5 DEF RecipesIInv, MergePlan
  <1> QED
    BY <1>5, <1>7, <1>8, <1>9, <1>10, <1>11, <1>12 DEF RecipesIInv

\* What a decision does with the activities: those of ts are scheduled.
LEMMA Schedules ==
    ASSUME RecipesIInv, NEW ts \in SUBSET Tasks, NEW s, ScheduleAll(ts, s)
    PROVE  /\ future' \in [Tasks -> States] /\ stage' = s
           /\ \A t \in Tasks : future'[t] = IF t \in ts THEN "pending" ELSE future[t]
           /\ Pending' = Pending \union ts
  <1>1. /\ future' = [t \in Tasks |-> IF t \in ts THEN "pending" ELSE future[t]]
        /\ stage' = s /\ future \in [Tasks -> States]
    BY DEF ScheduleAll, RecipesIInv, StateOK
  <1>2. "pending" \in States
    BY DEF States
  <1> QED  BY <1>1, <1>2 DEF Pending

\* A recipe that is neither the timer nor the cancellation completes only
\* when nothing of it runs; only the merge adds up totals.
LEMMA OthersKeep ==
    ASSUME RecipesIInv, recipe \notin {"timer", "cancelactivity"},
           UNCHANGED <<recipe, ended, cancelAsked>>,
           NEW ts \in SUBSET Tasks, NEW s, ScheduleAll(ts, s), ts \subseteq Own,
           s = "completed" => ts = {} /\ Pending = {},
           recipe = "splitmerge" => MergePlan'
    PROVE  RecipesIInv'
  <1>1. StateOK' /\ CompletedMeansDone' /\ OnlyOwn'
    BY Schedules DEF RecipesIInv, StateOK, CompletedMeansDone, OnlyOwn, Own, Tasks
  <1>2. MergePlan'
    BY DEF MergePlan
  <1> QED
    BY <1>1, <1>2 DEF RecipesIInv, TimerPlan, EmailOnlyWhenSlow, CancelPlan, CleanedUp

LEMMA PickFirstKeeps ==
    ASSUME RecipesIInv, samplePickFirstWorkflow, UNCHANGED <<recipe, ended, cancelAsked>>
    PROVE  RecipesIInv'
  <1>1. /\ {First, Second} \in SUBSET Tasks /\ {} \in SUBSET Tasks
        /\ {First, Second} \subseteq Own /\ recipe = "pickfirst"
    BY DEF First, Second, Tasks, Own, samplePickFirstWorkflow
  <1>2. CASE ScheduleAll({First, Second}, "select")
    BY <1>1, <1>2, OthersKeep DEF samplePickFirstWorkflow
  <1>3. CASE WaitAt(IF Pending = {} THEN "completed" ELSE "drain")
    BY <1>1, <1>3, OthersKeep DEF samplePickFirstWorkflow, WaitAt
  <1>4. CASE Pending = {} /\ WaitAt("completed")
    BY <1>1, <1>4, OthersKeep DEF samplePickFirstWorkflow, WaitAt
  <1> QED  BY <1>2, <1>3, <1>4 DEF samplePickFirstWorkflow

LEMMA SplitMergeKeeps ==
    ASSUME RecipesIInv, sampleSplitMergeWorkflow, UNCHANGED <<recipe, ended, cancelAsked>>
    PROVE  RecipesIInv'
  <1>1. /\ Chunks \in SUBSET Tasks /\ {} \in SUBSET Tasks /\ Chunks \subseteq Own
        /\ recipe = "splitmerge" /\ recipe' = "splitmerge"
        /\ Ready \subseteq Chunks /\ Pending \subseteq Chunks
    BY TaskNumbers, OwnTasks DEF sampleSplitMergeWorkflow
  <1>2. Ready = Chunks => Pending = {}
    BY <1>1, TaskNumbers DEF Final
  <1>3. MergePlan
    BY DEF RecipesIInv
  <1>4. CASE /\ stage = "start" /\ UNCHANGED <<merged, total>>
             /\ ScheduleAll(Chunks, IF Chunks = {} THEN "completed" ELSE "merge")
    <2> DEFINE s == IF Chunks = {} THEN "completed" ELSE "merge"
    <2>1. ScheduleAll(Chunks, s) /\ s \in {"completed", "merge"}
      BY <1>4
    <2>2. s = "completed" => Chunks = {}
      OBVIOUS
    <2> HIDE DEF s
    <2>3. /\ future' \in [Tasks -> States] /\ stage' = s
          /\ \A t \in Tasks : future'[t] = IF t \in Chunks THEN "pending" ELSE future[t]
      BY <1>1, <2>1, Schedules
    <2>4. Pending = {} /\ merged = {} /\ Ready = {}
      BY <1>1, <1>3, <1>4, TaskNumbers DEF MergePlan, Final
    <2>5. \A c \in Chunks : total[c] = 0
      BY <1>1, <1>3, <2>4 DEF MergePlan
    <2>6. MergePlan'
      BY <1>1, <1>3, <1>4, <2>1, <2>2, <2>3, <2>4, <2>5 DEF MergePlan
    <2> QED  BY <1>1, <2>1, <2>2, <2>4, <2>6, OthersKeep
  <1>5. CASE /\ stage = "merge" /\ ReceiveChunks(Ready \ merged)
             /\ WaitAt(IF Ready = Chunks THEN "completed" ELSE "merge")
    <2> DEFINE s == IF Ready = Chunks THEN "completed" ELSE "merge"
    <2>1. ScheduleAll({}, s) /\ s \in {"completed", "merge"}
      BY <1>5 DEF WaitAt
    <2>2. s = "completed" => Ready = Chunks
      OBVIOUS
    <2> HIDE DEF s
    <2>3. /\ future' \in [Tasks -> States] /\ stage' = s
          /\ \A t \in Tasks : future'[t] = IF t \in {} THEN "pending" ELSE future[t]
      BY <1>1, <2>1, Schedules
    <2>4. \A t \in Tasks : future'[t] = future[t]
      BY <2>3
    <2>5. merged \subseteq Ready /\ merged' = Ready /\ Ready' = Ready
      BY <1>1, <1>3, <1>5, <2>4 DEF ReceiveChunks, MergePlan, Ready
    <2>6. total' = [c \in Chunks |-> IF c \in Ready \ merged /\ future[c] = "ok"
                                     THEN total[c] + 1 ELSE total[c]]
      BY <1>5 DEF ReceiveChunks, AddToTotals
    <2>7. total' \in [Chunks -> Nat]
      BY <1>1, <1>3, <2>6 DEF MergePlan
    <2>8. \A c \in Chunks : total'[c] = IF c \in Ready /\ future[c] = "ok" THEN 1 ELSE 0
      BY <1>1, <1>3, <2>5, <2>6 DEF MergePlan
    <2>9. MergePlan'
      BY <1>1, <2>1, <2>2, <2>3, <2>4, <2>5, <2>7, <2>8, TaskNumbers DEF MergePlan
    <2> QED  BY <1>1, <1>2, <2>1, <2>2, <2>9, OthersKeep
  <1> QED  BY <1>4, <1>5 DEF sampleSplitMergeWorkflow

\* The futures are waited for in order, so without an error the last is ready
\* only when all are.
LEMMA BranchKeeps ==
    ASSUME RecipesIInv, sampleBranchWorkflow, UNCHANGED <<recipe, ended, cancelAsked>>
    PROVE  RecipesIInv'
  <1>1. /\ 1..totalBranches = {1, 2, 3} /\ {1, 2, 3} \in SUBSET Tasks
        /\ {} \in SUBSET Tasks /\ recipe = "branch" /\ Own = {1, 2, 3}
        /\ Pending \subseteq {1, 2, 3}
    BY TaskNumbers, OwnTasks DEF totalBranches, sampleBranchWorkflow
  <1>2. FirstNotOk = {} => Pending = {}
    <2>1. SUFFICES ASSUME FirstNotOk = {} PROVE \A t \in {1, 2, 3} : future[t] = "ok"
      BY <1>1, TaskNumbers
    <2>2. \A t \in {1, 2, 3} : (\A u \in 1..(t - 1) : future[u] = "ok") => future[t] = "ok"
      BY <1>1, <2>1, TaskNumbers DEF FirstNotOk
    <2>3. future[1] = "ok"
      BY <2>2
    <2>4. future[2] = "ok"
      BY <2>2, <2>3
    <2>5. future[3] = "ok"
      BY <2>2, <2>3, <2>4
    <2> QED  BY <2>3, <2>4, <2>5, TaskNumbers
  <1>3. CASE ScheduleAll(1..totalBranches, "wait")
    BY <1>1, <1>3, OthersKeep DEF sampleBranchWorkflow
  <1>4. CASE FirstNotOk = {} /\ WaitAt("completed")
    BY <1>1, <1>2, <1>4, OthersKeep DEF sampleBranchWorkflow, WaitAt
  <1>5. CASE WaitAt("failed")
    BY <1>1, <1>5, OthersKeep DEF sampleBranchWorkflow, WaitAt
  <1> QED  BY <1>3, <1>4, <1>5 DEF sampleBranchWorkflow

LEMMA ParallelKeeps ==
    ASSUME RecipesIInv, sampleParallelWorkflow, UNCHANGED <<recipe, ended, cancelAsked>>
    PROVE  RecipesIInv'
  <1>1. /\ {1, 3} \in SUBSET Tasks /\ {2} \in SUBSET Tasks /\ {} \in SUBSET Tasks
        /\ recipe = "parallel" /\ Own = {1, 2, 3} /\ Pending \subseteq {1, 2, 3}
        /\ {1, 3} \subseteq Own /\ {2} \subseteq Own
    BY TaskNumbers, OwnTasks DEF sampleParallelWorkflow
  <1>2. Ready = 1..3 => Pending = {}
    BY <1>1, TaskNumbers DEF Final
  <1>3. CASE ScheduleAll({1, 3}, "receive")
    BY <1>1, <1>3, OthersKeep DEF sampleParallelWorkflow
  <1>4. CASE ScheduleAll({2}, "receive")
    BY <1>1, <1>4, OthersKeep DEF sampleParallelWorkflow
  <1>5. CASE WaitAt("failed")
    BY <1>1, <1>5, OthersKeep DEF sampleParallelWorkflow, WaitAt
  <1>6. CASE Ready = 1..3 /\ WaitAt("completed")
    BY <1>1, <1>2, <1>6, OthersKeep DEF sampleParallelWorkflow, WaitAt
  <1> QED  BY <1>3, <1>4, <1>5, <1>6 DEF sampleParallelWorkflow

\* The order ends the run, and its timer with it.
LEMMA SelectOrderKeeps ==
    ASSUME RecipesIInv, recipe = "timer", SelectOrder, stage \in {"select", "order"},
           UNCHANGED <<recipe, ended, cancelAsked>>
    PROVE  RecipesIInv'
  <1>1. /\ future \in [Tasks -> States] /\ future[Order] \in Final
        /\ future' = [future EXCEPT ![Timer] =
                          IF future[Timer] = "pending" THEN "canceled" ELSE future[Timer]]
        /\ stage' = "completed"
    BY DEF SelectOrder, RecipesIInv, StateOK
  <1>2. /\ future' \in [Tasks -> States]
        /\ future'[1] = future[1] /\ future'[3] = future[3]
        /\ future'[2] = IF future[2] = "pending" THEN "canceled" ELSE future[2]
    BY <1>1 DEF States, Final, Timer, Tasks
  <1>3. StateOK'
    BY <1>2 DEF RecipesIInv, StateOK
  <1>4. future[3] # "pending"
    BY DEF RecipesIInv, TimerPlan, Email, Final
  <1>5. CompletedMeansDone' /\ OnlyOwn'
    <2>1. \A u \in Tasks : u # 2 => future'[u] = future[u]
      BY <1>1 DEF Timer
    <2>2. OnlyOwn'
      BY <2>1 DEF RecipesIInv, OnlyOwn, Own
    <2>3. \A u \in Tasks \ {1, 2, 3} : future'[u] # "pending"
      BY <2>2, TaskNumbers DEF OnlyOwn, Own
    <2>4. future'[1] # "pending" /\ future'[2] # "pending" /\ future'[3] # "pending"
      BY <1>1, <1>2, <1>4 DEF Order, Final
    <2> QED  BY <2>2, <2>3, <2>4 DEF CompletedMeansDone, Pending
  <1>6. TimerPlan'
    BY <1>1, <1>2 DEF RecipesIInv, TimerPlan, Timer, Email
  <1>7. EmailOnlyWhenSlow'
    BY <1>2 DEF RecipesIInv, EmailOnlyWhenSlow, Email
  <1> QED  BY <1>3, <1>5, <1>6, <1>7 DEF RecipesIInv, CancelPlan, CleanedUp, MergePlan

LEMMA TimerKeeps ==
    ASSUME RecipesIInv, sampleTimerWorkflow, UNCHANGED <<recipe, ended, cancelAsked>>
    PROVE  RecipesIInv'
  <1>1. recipe = "timer" /\ recipe' = "timer" /\ recipe' # "cancelactivity"
    BY DEF sampleTimerWorkflow
  <1>2. /\ CancelPlan' /\ CleanedUp' /\ MergePlan'
        /\ Own = {1, 2, 3} /\ Own' = {1, 2, 3} /\ Pending \subseteq {1, 2, 3}
    BY <1>1, OwnTasks, TaskNumbers DEF CancelPlan, CleanedUp, MergePlan, Own
  <1>3. CASE stage = "start" /\ ScheduleAll({Order, Timer}, "select")
    <2>0. {Order, Timer} \in SUBSET Tasks
      BY TaskNumbers DEF Order, Timer
    <2>1. /\ future' \in [Tasks -> States] /\ stage' = "select"
          /\ future'[Timer] = "pending" /\ future'[Email] = future[Email]
          /\ \A u \in Tasks \ {1, 2} : future'[u] = future[u]
      <3>1. /\ future' \in [Tasks -> States] /\ stage' = "select"
            /\ \A t \in Tasks : future'[t] =
                  IF t \in {Order, Timer} THEN "pending" ELSE future[t]
        BY <1>3, <2>0, Schedules
      <3> QED  BY <3>1, TaskNumbers DEF Order, Timer, Email
    <2>2. future'[Email] = "idle"
      BY <1>1, <1>3, <2>1 DEF RecipesIInv, TimerPlan
    <2>3. OnlyOwn'
      BY <1>2, <2>1 DEF RecipesIInv, OnlyOwn
    <2> QED
      BY <1>1, <1>2, <2>1, <2>2, <2>3
         DEF RecipesIInv, StateOK, CompletedMeansDone, TimerPlan, EmailOnlyWhenSlow
  <1>4. CASE stage = "select" /\ SelectTimer
    <2>1. /\ future' \in [Tasks -> States] /\ stage' = "email"
          /\ future[Timer] = "ok" /\ future'[Timer] = "ok" /\ ended[1] = Timer
          /\ \A u \in Tasks \ {3} : future'[u] = future[u]
      <3>1. {Email} \in SUBSET Tasks
        BY TaskNumbers DEF Email
      <3>2. /\ future' \in [Tasks -> States] /\ stage' = "email"
            /\ \A t \in Tasks : future'[t] = IF t \in {Email} THEN "pending" ELSE future[t]
        BY <1>4, <3>1, Schedules DEF SelectTimer
      <3> QED  BY <1>4, <3>2, TaskNumbers DEF SelectTimer, Timer, Email
    <2>2. 1 \in DOMAIN ended
      BY <1>1, <2>1 DEF RecipesIInv, StateOK, TimerPlan
    <2>3. EmailOnlyWhenSlow'
      BY <2>1, <2>2 DEF EmailOnlyWhenSlow
    <2>4. TimerPlan'
      BY <1>1, <2>1 DEF RecipesIInv, TimerPlan
    <2>5. OnlyOwn'
      BY <1>2, <2>1 DEF RecipesIInv, OnlyOwn
    <2> QED
      BY <1>2, <2>1, <2>3, <2>4, <2>5 DEF RecipesIInv, StateOK, CompletedMeansDone
  <1>5. CASE /\ stage = "email" /\ future[Email] \in Final
             /\ WaitAt(IF future[Order] \in Final THEN "completed" ELSE "order")
    <2>1. /\ future' \in [Tasks -> States] /\ Pending' = Pending
          /\ \A t \in Tasks : future'[t] = future[t]
          /\ stage' = IF future[Order] \in Final THEN "completed" ELSE "order"
      <3>1. {} \in SUBSET Tasks
        OBVIOUS
      <3> DEFINE s == IF future[Order] \in Final THEN "completed" ELSE "order"
      <3>2. ScheduleAll({}, s)
        BY <1>5 DEF WaitAt
      <3> HIDE DEF s
      <3>3. /\ future' \in [Tasks -> States] /\ stage' = s
            /\ \A t \in Tasks : future'[t] = IF t \in {} THEN "pending" ELSE future[t]
            /\ Pending' = Pending \union {}
        BY <3>1, <3>2, Schedules
      <3> QED  BY <3>3 DEF s
    <2>2. future[Timer] = "ok"
      BY <1>1, <1>5 DEF RecipesIInv, TimerPlan
    <2>3. CompletedMeansDone'
      BY <1>2, <1>5, <2>1, <2>2, TaskNumbers
         DEF CompletedMeansDone, Order, Timer, Email, Final
    <2>4. TimerPlan' /\ EmailOnlyWhenSlow'
      BY <1>1, <1>5, <2>1, <2>2
         DEF RecipesIInv, TimerPlan, EmailOnlyWhenSlow, Tasks, Timer, Email
    <2>5. OnlyOwn'
      BY <1>2, <2>1 DEF RecipesIInv, OnlyOwn
    <2> QED  BY <1>2, <2>1, <2>3, <2>4, <2>5 DEF RecipesIInv, StateOK
  <1>6. CASE stage \in {"select", "order"} /\ SelectOrder
    BY <1>1, <1>6, SelectOrderKeeps
  <1> QED  BY <1>3, <1>4, <1>5, <1>6 DEF sampleTimerWorkflow

LEMMA CancelKeeps ==
    ASSUME RecipesIInv, sampleCancelWorkflow, UNCHANGED <<recipe, ended, cancelAsked>>
    PROVE  RecipesIInv'
  <1>1. recipe = "cancelactivity" /\ recipe' = "cancelactivity"
    BY DEF sampleCancelWorkflow
  <1>2. /\ TimerPlan' /\ EmailOnlyWhenSlow' /\ MergePlan'
        /\ Own = {1, 2, 3} /\ Own' = {1, 2, 3} /\ Pending \subseteq {1, 2, 3}
    BY <1>1, OwnTasks, TaskNumbers DEF TimerPlan, EmailOnlyWhenSlow, MergePlan, Own
  <1>3. CancelPlan
    BY DEF RecipesIInv
  <1> USE DEF LongRunning, Cleanup
  <1>4. CASE CancelsContext
    BY <1>1, <1>2, <1>3, <1>4
       DEF CancelsContext, RecipesIInv, StateOK, CompletedMeansDone, CancelPlan, CleanedUp,
           Closed, Pending, OnlyOwn
  <1>5. ASSUME NEW ts \in SUBSET Tasks, NEW s, ScheduleAll(ts, s), canceling' = canceling,
               ts \subseteq {1, 3}, CancelPlan', CleanedUp', s = "completed" => Pending' = {}
        PROVE  RecipesIInv'
    <2>1. OnlyOwn'
      BY <1>2, <1>5, Schedules DEF RecipesIInv, OnlyOwn
    <2> QED
      BY <1>2, <1>5, <2>1, Schedules DEF RecipesIInv, StateOK, CompletedMeansDone
  <1>6. {LongRunning} \in SUBSET Tasks /\ {Cleanup} \in SUBSET Tasks /\ {} \in SUBSET Tasks
    BY DEF Tasks
  <1>7. CASE stage = "start" /\ canceling' = canceling
             /\ ((cancelAsked /\ ScheduleAll({Cleanup}, "cleanup"))
                   \/ ScheduleAll({LongRunning}, "long"))
    <2>1. CASE cancelAsked /\ ScheduleAll({Cleanup}, "cleanup")
      <3>0. /\ stage' = "cleanup"
            /\ \A t \in Tasks : future'[t] = IF t \in {3} THEN "pending" ELSE future[t]
        BY <1>6, <2>1, Schedules
      <3>1. /\ stage' = "cleanup" /\ future'[3] = "pending"
            /\ future'[1] = future[1] /\ future'[2] = future[2]
        BY <3>0, TaskNumbers
      <3>2. CancelPlan' /\ CleanedUp'
        BY <1>1, <1>3, <1>7, <2>1, <3>1 DEF CancelPlan, CleanedUp, Closed
      <3> QED  BY <1>5, <1>6, <1>7, <2>1, <3>2
    <2>2. CASE ScheduleAll({LongRunning}, "long")
      <3>1. /\ stage' = "long" /\ future'[1] = "pending"
            /\ future'[2] = future[2] /\ future'[3] = future[3]
        BY <1>6, <2>2, Schedules, TaskNumbers
      <3>2. CancelPlan' /\ CleanedUp'
        BY <1>1, <1>3, <1>7, <3>1 DEF CancelPlan, CleanedUp, Closed
      <3> QED  BY <1>5, <1>6, <1>7, <2>2, <3>2
    <2> QED  BY <1>7, <2>1, <2>2
  <1>8. CASE AfterLongRunning /\ canceling' = canceling
    <2>1. CASE future[LongRunning] = "error" /\ WaitAt("failed")
      <3>1. /\ stage' = "failed" /\ Pending' = Pending
            /\ \A t \in Tasks : future'[t] = future[t]
        BY <1>6, <2>1, Schedules DEF WaitAt
      <3>2. Pending = {}
        BY <1>1, <1>2, <1>3, <1>8, <2>1, TaskNumbers DEF AfterLongRunning, CancelPlan
      <3>3. CancelPlan' /\ CleanedUp'
        BY <1>1, <1>3, <1>8, <2>1, <3>1, <3>2, TaskNumbers
           DEF AfterLongRunning, CancelPlan, CleanedUp, Closed
      <3> QED  BY <1>5, <1>6, <1>8, <2>1, <3>3 DEF WaitAt
    <2>2. CASE future[LongRunning] = "canceled" /\ ScheduleAll({Cleanup}, "cleanup")
      <3>0. /\ stage' = "cleanup"
            /\ \A t \in Tasks : future'[t] = IF t \in {3} THEN "pending" ELSE future[t]
        <4>1. {3} \in SUBSET Tasks /\ ScheduleAll({3}, "cleanup")
          BY <1>6, <2>2
        <4> QED  BY <4>1, Schedules
      <3>1. /\ stage' = "cleanup" /\ future'[3] = "pending"
            /\ future'[1] = future[1] /\ future'[2] = future[2]
        BY <3>0, TaskNumbers
      <3>2. CancelPlan' /\ CleanedUp'
        BY <1>1, <1>3, <1>8, <2>2, <3>1 DEF CancelPlan, CleanedUp, Closed
      <3> QED  BY <1>5, <1>6, <1>8, <2>2, <3>2
    <2> QED  BY <1>8, <2>1, <2>2 DEF AfterLongRunning
  <1>9. CASE AfterCleanup /\ canceling' = canceling
    <2>1. PICK s \in {"completed", "failed"} :
             /\ WaitAt(s)
             /\ s = "completed" => future[Cleanup] = "ok"
             /\ s = "failed" => future[Cleanup] = "error"
      BY <1>9 DEF AfterCleanup
    <2>2. /\ stage' = s /\ Pending' = Pending
          /\ \A t \in Tasks : future'[t] = future[t]
      BY <1>6, <2>1, Schedules DEF WaitAt
    <2>3. stage = "cleanup" /\ future[Cleanup] \in {"ok", "error"}
      BY <1>9, <2>1 DEF AfterCleanup
    <2>4. cancelAsked /\ future[1] \in {"idle", "canceled"} /\ future[2] = "idle"
      BY <1>1, <1>3, <2>3 DEF CancelPlan
    <2>5. Pending = {}
      BY <1>2, <2>3, <2>4, TaskNumbers
    <2>6. CancelPlan' /\ CleanedUp'
      BY <1>1, <1>3, <1>9, <2>1, <2>2, <2>3, <2>4, <2>5, TaskNumbers
         DEF CancelPlan, CleanedUp, Closed
    <2> QED  BY <1>5, <1>6, <1>9, <2>1, <2>2, <2>5, <2>6 DEF WaitAt
  <1> QED  BY <1>4, <1>7, <1>8, <1>9 DEF sampleCancelWorkflow

LEMMA RecipesStepInv == RecipesIInv /\ [RecipesNext]_recipeVars => RecipesIInv'
  <1> SUFFICES ASSUME RecipesIInv, [RecipesNext]_recipeVars PROVE RecipesIInv'
    OBVIOUS
  <1>1. ASSUME NEW t \in Tasks, EndTask(t) PROVE RecipesIInv'
    BY <1>1, EndTaskKeeps
  <1>2. CASE CancelWorkflow
    BY <1>2 DEF CancelWorkflow, RecipesIInv, StateOK, CompletedMeansDone, TimerPlan,
       EmailOnlyWhenSlow, CancelPlan, CleanedUp, Closed, Pending, OnlyOwn, Own, MergePlan, Ready
  <1>3. CASE Decision
    BY <1>3, PickFirstKeeps, TimerKeeps, CancelKeeps, SplitMergeKeeps, BranchKeeps,
       ParallelKeeps DEF Decision
  <1>4. CASE UNCHANGED recipeVars
    BY <1>4 DEF recipeVars, RecipesIInv, StateOK, CompletedMeansDone, TimerPlan,
       EmailOnlyWhenSlow, CancelPlan, CleanedUp, Pending, OnlyOwn, Own, MergePlan, Ready
  <1> QED  BY <1>1, <1>2, <1>3, <1>4 DEF RecipesNext

\* Whatever activities, timer and cancellation are faster, in each recipe: a
\* run that completes leaves nothing of its own running.
THEOREM NothingLeftBehind == RecipesSpec => []CompletedMeansDone
  <1>1. RecipesIInv => CompletedMeansDone
    BY DEF RecipesIInv
  <1> QED  BY <1>1, RecipesInitInv, RecipesStepInv, PTL DEF RecipesSpec

\* No e-mail goes out for an order that was processed before the threshold.
THEOREM NoEmailInTime == RecipesSpec => []EmailOnlyWhenSlow
  <1>1. RecipesIInv => EmailOnlyWhenSlow
    BY DEF RecipesIInv
  <1> QED  BY <1>1, RecipesInitInv, RecipesStepInv, PTL DEF RecipesSpec

\* At whatever moment a cancellation comes: no run, open or closed, cleans up
\* without one, and a run that closes has cleaned up unless its activity had
\* failed by itself.
THEOREM CleanupAlwaysRuns == RecipesSpec => []CleanedUp
  <1>1. RecipesIInv => CleanedUp
    BY DEF RecipesIInv
  <1> QED  BY <1>1, RecipesInitInv, RecipesStepInv, PTL DEF RecipesSpec

\* However many chunks there are, and in whatever order and in however many
\* decisions their results come: each is in the totals once, or not at all if
\* its activity failed.
THEOREM ChunksCountedOnce == RecipesSpec => []TotalsOfChunks
  <1>1. RecipesIInv => TotalsOfChunks
    BY TaskNumbers DEF RecipesIInv, MergePlan, TotalsOfChunks
  <1> QED  BY <1>1, RecipesInitInv, RecipesStepInv, PTL DEF RecipesSpec

-----------------------------------------------------------------------------
(* The DSL interpreter, for any set of workflows.                           *)

\* What ended well has bound its result.
ResultsAreBound ==
    /\ dslWorkflow.Variables \subseteq bindings
    /\ \A n \in Invocations :
          invoked[n].state = "ok" => ResultOf(dslWorkflow, n) \subseteq bindings

\* An activity runs after all those before it, and was given what they bound.
RunsInOrder ==
    \A n \in Invocations : invoked[n].state # "none" =>
        /\ \A a \in Before(dslWorkflow, n) : invoked[a].state = "ok"
        /\ Statements[n].Arguments \cap Known(dslWorkflow, n) \subseteq invoked[n].given

CompletedRanAll == dslOutcome = "completed" => \A n \in Invocations : invoked[n].state = "ok"

DSLIInv == DSLTypeOK /\ ResultsAreBound /\ RunsInOrder /\ CompletedRanAll

\* The subtrees of the statements of a block are of statements.
LEMMA SubtreesOfStatements ==
    ASSUME DSLTypeOK
    PROVE  /\ 1 \in DOMAIN Statements /\ Under(1) = DOMAIN Statements
           /\ \A m \in DOMAIN Statements \ Invocations :
                 /\ Statements[m].parts \in Seq(DOMAIN Statements)
                 /\ \A i \in DOMAIN Statements[m].parts :
                       Under(Statements[m].parts[i]) \subseteq DOMAIN Statements
  <1>1. dslWorkflow \in Workflows /\ IsTree(dslWorkflow)
    BY WorkflowsAreTrees DEF DSLTypeOK
  <1>2. \A r \in Nodes(dslWorkflow) : Under(r) \subseteq Nodes(dslWorkflow)
    BY <1>1 DEF Under, Subtree
  <1>3. \A m \in DOMAIN Statements \ Invocations :
           Statements[m].parts \in Seq(Nodes(dslWorkflow) \ {1})
    BY <1>1 DEF IsTree, Nodes, Invocations, Statements
  <1> QED  BY <1>1, <1>2, <1>3 DEF IsTree, Nodes, Under, Statements

\* The activities before one whose execute has been called have ended well.
LEMMA CalledAfterBefore ==
    ASSUME DSLTypeOK, NEW n \in Invocations, Called(n), NEW a \in Before(dslWorkflow, n)
    PROVE  a \in Invocations /\ invoked[a].state = "ok"
  <1>1. a \in Invocations
    BY DEF Before, Invocations
  <1>2. PICK m \in DOMAIN Statements \ Invocations :
           /\ Statements[m].kind = "sequence"
           /\ \E i, j \in DOMAIN Statements[m].parts :
                 /\ i < j
                 /\ a \in Under(Statements[m].parts[i])
                 /\ n \in Under(Statements[m].parts[j])
    BY DEF Before, Invocations, Nodes, Statements, Under
  <1>3. PICK i \in DOMAIN Statements[m].parts, j \in DOMAIN Statements[m].parts :
           /\ i < j
           /\ a \in Under(Statements[m].parts[i])
           /\ n \in Under(Statements[m].parts[j])
    BY <1>2
  <1>4. Statements[m].parts \in Seq(DOMAIN Statements)
    BY SubtreesOfStatements
  <1>5. i \in 1..(j - 1)
    BY <1>3, <1>4
  <1>6. Done(Statements[m].parts[i])
    BY <1>2, <1>3, <1>5 DEF Called, Earlier
  <1> QED  BY <1>1, <1>3, <1>6 DEF Done

LEMMA DSLInitInv == DSLInit => DSLIInv
  BY DEF DSLInit, DSLIInv, DSLTypeOK, ResultsAreBound, RunsInOrder, CompletedRanAll, NotInvoked

LEMMA ExecuteKeeps == DSLIInv /\ ExecuteReady => DSLIInv'
  <1> SUFFICES ASSUME DSLIInv, ExecuteReady PROVE DSLIInv'
    OBVIOUS
  <1> USE DEF DSLIInv
  <1>1. /\ invoked' = [n \in Invocations |->
                         IF n \in Executable
                         THEN [state |-> "scheduled", given |-> makeInput(n)] ELSE invoked[n]]
        /\ UNCHANGED <<dslWorkflow, bindings, dslOutcome>> /\ dslOutcome = "running"
        /\ Invocations' = Invocations /\ Statements' = Statements
    BY DEF ExecuteReady, Invocations, Statements
  <1>2. \A n \in Executable :
           /\ n \in Invocations /\ Called(n) /\ invoked[n].state = "none"
           /\ makeInput(n) = Statements[n].Arguments \cap bindings
    BY DEF Executable, makeInput
  <1>3. DSLTypeOK'
    BY <1>1, <1>2 DEF DSLTypeOK
  <1>4. \A n \in Invocations : invoked[n].state = "ok" <=> invoked'[n].state = "ok"
    BY <1>1, <1>2
  <1>5. ResultsAreBound' /\ CompletedRanAll'
    BY <1>1, <1>4 DEF ResultsAreBound, CompletedRanAll
  <1>6. RunsInOrder'
    <2>1. SUFFICES ASSUME NEW n \in Invocations, invoked'[n].state # "none"
                   PROVE  /\ \A a \in Before(dslWorkflow, n) : invoked'[a].state = "ok"
                          /\ Statements[n].Arguments \cap Known(dslWorkflow, n)
                                \subseteq invoked'[n].given
      BY <1>1 DEF RunsInOrder
    <2>2. Before(dslWorkflow, n) \subseteq Invocations
      BY DEF Before, Invocations
    <2>3. CASE n \in Executable
      <3>1. \A a \in Before(dslWorkflow, n) : a \in Invocations /\ invoked[a].state = "ok"
        BY <1>2, <2>3, CalledAfterBefore
      <3>2. Known(dslWorkflow, n) \subseteq bindings
        BY <3>1 DEF Known, ResultsAreBound
      <3> QED  BY <1>1, <1>2, <1>4, <2>3, <3>1, <3>2
    <2>4. CASE n \notin Executable
      BY <1>1, <1>4, <2>1, <2>2, <2>4 DEF RunsInOrder
    <2> QED  BY <2>3, <2>4
  <1> QED  BY <1>3, <1>5, <1>6

LEMMA EndInvocationKeeps ==
    ASSUME DSLIInv, NEW n \in Invocations, EndInvocation(n)
    PROVE  DSLIInv'
  <1> USE DEF DSLIInv
  <1>1. PICK s \in {"ok", "error"} :
           /\ invoked' = [invoked EXCEPT ![n].state = s]
           /\ bindings' = IF s = "ok" THEN bindings \union ResultOf(dslWorkflow, n) ELSE bindings
    BY DEF EndInvocation
  <1>2. /\ UNCHANGED <<dslWorkflow, dslOutcome>> /\ dslOutcome = "running"
        /\ Invocations' = Invocations /\ Statements' = Statements
        /\ invoked[n].state = "scheduled"
    BY DEF EndInvocation, Invocations, Statements
  <1>3. /\ DOMAIN invoked' = Invocations
        /\ invoked'[n].state = s /\ invoked'[n].given = invoked[n].given
        /\ invoked'[n] \in [state : {"none", "scheduled", "ok", "error"},
                            given : SUBSET Statements[n].Arguments]
        /\ \A m \in Invocations : m # n => invoked'[m] = invoked[m]
    BY <1>1 DEF DSLTypeOK
  <1>4. DSLTypeOK'
    BY <1>2, <1>3 DEF DSLTypeOK
  <1>5. ResultsAreBound' /\ CompletedRanAll'
    BY <1>1, <1>2, <1>3 DEF ResultsAreBound, CompletedRanAll
  <1>6. Before(dslWorkflow, n) \subseteq Invocations
        /\ \A m \in Invocations : Before(dslWorkflow, m) \subseteq Invocations
    BY DEF Before, Invocations
  <1>7. RunsInOrder'
    BY <1>2, <1>3, <1>6 DEF RunsInOrder
  <1> QED  BY <1>4, <1>5, <1>7

LEMMA DSLStepInv == DSLIInv /\ [DSLNext]_dslVars => DSLIInv'
  <1> SUFFICES ASSUME DSLIInv, [DSLNext]_dslVars PROVE DSLIInv'
    OBVIOUS
  <1>1. CASE ReturnDSL
    <2>1. /\ UNCHANGED <<dslWorkflow, bindings, invoked>>
          /\ dslOutcome' \in {"completed", "failed"}
          /\ dslOutcome' = "completed" => Done(1)
      BY <1>1 DEF ReturnDSL
    <2>2. Done(1) => \A n \in Invocations : invoked[n].state = "ok"
      BY SubtreesOfStatements DEF DSLIInv, Done, Invocations, ActivitiesOf, Nodes, Statements
    <2> QED
      BY <2>1, <2>2 DEF DSLIInv, DSLTypeOK, ResultsAreBound, RunsInOrder, CompletedRanAll,
         Invocations, Statements
  <1>2. CASE UNCHANGED dslVars
    BY <1>2 DEF dslVars, DSLIInv, DSLTypeOK, ResultsAreBound, RunsInOrder, CompletedRanAll,
       Invocations, Statements
  <1> QED
    BY <1>1, <1>2, ExecuteKeeps, EndInvocationKeeps DEF DSLNext

\* Whatever tree of sequences and parallel blocks is interpreted: an activity
\* runs after all of those that come before it in a sequence, and is given the
\* variables and the results that they have bound.
THEOREM SequencesInOrder == DSLSpec => []RunsInOrder
  <1>1. DSLIInv => RunsInOrder
    BY DEF DSLIInv
  <1> QED  BY <1>1, DSLInitInv, DSLStepInv, PTL DEF DSLSpec

\* A workflow that uses no result before it must be there has all of its
\* arguments; any that completes has run all of its activities.
THEOREM ArgumentsAlwaysBound == DSLSpec => []ArgumentsBound
  <1>1. DSLIInv => ArgumentsBound
    <2> SUFFICES ASSUME DSLIInv PROVE ArgumentsBound
      OBVIOUS
    <2>1. ASSUME BindsInOrder(dslWorkflow), NEW n \in Invocations, invoked[n].state # "none"
          PROVE  invoked[n].given = Statements[n].Arguments
      <3>1. Statements[n].Arguments \subseteq Known(dslWorkflow, n)
        BY <2>1 DEF BindsInOrder, Invocations, Statements
      <3>2. invoked[n].given \in SUBSET Statements[n].Arguments
        BY DEF DSLIInv, DSLTypeOK
      <3> QED  BY <2>1, <3>1, <3>2 DEF DSLIInv, RunsInOrder
    <2> QED  BY <2>1 DEF ArgumentsBound, DSLIInv, CompletedRanAll
  <1> QED  BY <1>1, DSLInitInv, DSLStepInv, PTL DEF DSLSpec
=============================================================================
