----------------------------- MODULE Versioning -----------------------------
(***************************************************************************)
(* recipes/versioning: one workflow type in four versions.  Workers of any *)
(* versions come and go while one execution, started by one of them, is    *)
(* continued by the others.  A worker replays the history before it        *)
(* decides, and the decision fails if its code asks for something else.    *)
(* A version marker that its code does not ask for is passed over.         *)
(***************************************************************************)
EXTENDS Integers, FiniteSets

CONSTANT MaxWorkers    \* bound of the workers that run side by side

ASSUME VersioningAssumption == MaxWorkers \in Nat \ {0}

VARIABLES
    polling,      \* the versions of the running workers
    execution,    \* the history of the execution with VersionedWorkflowID
    stopSignal,   \* StopSignal was sent and not received yet
    unsupported   \* decisions and activities that a worker could not execute

versioningVars == <<polling, execution, stopSignal, unsupported>>

WorkerVersions == 1..4
DefaultVersion == -1
NoMarker == 0
FooActivityName == "FooActivity"
BarActivityName == "BarActivity"

NoRun == [status |-> "none", startedBy |-> 0, marker |-> NoMarker, activity |-> "none"]
Open == {"started", "scheduled", "waiting"}

VersioningInit ==
    /\ polling = {}
    /\ execution = NoRun
    /\ stopSignal = FALSE
    /\ unsupported = {}

-----------------------------------------------------------------------------
(* workflow.GetVersion: the recorded version; in a replay without a record  *)
(* DefaultVersion; else the version that this worker prefers.               *)
Replaying == execution.status # "started"
GetVersion(prefers) ==
    IF execution.marker # NoMarker THEN execution.marker
    ELSE IF Replaying THEN DefaultVersion ELSE prefers

\* The version that each VersionedWorkflowV<n> works with, and the least and
\* the greatest it supports.  V1 asks for none.
ExecuteWithMinVersion == DefaultVersion
VersionIn(v) ==
    CASE v = 1 -> DefaultVersion
      [] v = 2 -> GetVersion(ExecuteWithMinVersion)
      [] v = 3 -> GetVersion(1)
      [] v = 4 -> GetVersion(1)
\* Mutant of MinSupported: V3 no longer supports DefaultVersion.
MinRaisedEarly(v) == IF v >= 3 THEN 1 ELSE DefaultVersion
MinSupported(v) == IF v = 4 THEN 1 ELSE DefaultVersion
ActivityOf(v) ==
    IF v = 1 \/ (v # 4 /\ VersionIn(v) = DefaultVersion)
    THEN FooActivityName ELSE BarActivityName

\* What SetupHelperForVersionedWorkflowV<n> registers.
RegisteredActivities(v) ==
    CASE v = 1 -> {FooActivityName}
      [] v \in {2, 3} -> {FooActivityName, BarActivityName}
      [] v = 4 -> {BarActivityName}

\* The replay agrees with the history, and no GetVersion panics.
Supports(v) ==
    /\ VersionIn(v) >= MinSupported(v)
    /\ Replaying => execution.activity = ActivityOf(v)

CannotExecute(v, what) ==
    unsupported' = unsupported \union
        {[what |-> what, by |-> v, startedBy |-> execution.startedBy]}

-----------------------------------------------------------------------------
\* -m worker -v <v>, and the end of that process.
DeployVersion(v) ==
    /\ v \notin polling
    /\ Cardinality(polling) < MaxWorkers
    /\ polling' = polling \union {v}
    /\ UNCHANGED <<execution, stopSignal, unsupported>>

KillVersion(v) ==
    /\ v \in polling
    /\ polling' = polling \ {v}
    /\ UNCHANGED <<execution, stopSignal, unsupported>>

\* -m trigger: one execution at a time, by its workflow id.
TriggerVersioned ==
    /\ execution.status \notin Open
    /\ execution' = [NoRun EXCEPT !.status = "started"]
    /\ stopSignal' = FALSE
    /\ unsupported' = {}
    /\ UNCHANGED polling

\* -m stop
StopWorkflow ==
    /\ execution.status \in Open
    /\ stopSignal' = TRUE
    /\ UNCHANGED <<polling, execution, unsupported>>

\* The first decision runs VersionedWorkflowV<v> up to its activity.
FirstDecision(v) ==
    /\ execution.status = "started"
    /\ execution' = [status |-> "scheduled", startedBy |-> v,
                     marker |-> IF v = 1 THEN NoMarker ELSE VersionIn(v),
                     activity |-> ActivityOf(v)]
    /\ UNCHANGED <<polling, stopSignal, unsupported>>

\* The activity goes to any worker that polls; one that does not know it lets
\* it time out, and the error is returned.
PerformVersioned(v) ==
    /\ execution.status = "scheduled"
    /\ IF execution.activity \in RegisteredActivities(v)
       THEN execution' = [execution EXCEPT !.status = "waiting"] /\ UNCHANGED unsupported
       ELSE execution' = [execution EXCEPT !.status = "failed"] /\ CannotExecute(v, "activity")
    /\ UNCHANGED <<polling, stopSignal>>

\* Every five seconds waitForSignal looks for the signal, on whatever worker
\* gets the decision.  A decision that fails is tried again.
waitForSignal(v) ==
    /\ execution.status = "waiting"
    /\ IF Supports(v)
       THEN /\ execution' = [execution EXCEPT !.status = IF stopSignal THEN "completed" ELSE @]
            /\ UNCHANGED unsupported
       ELSE CannotExecute(v, "decision") /\ UNCHANGED execution
    /\ UNCHANGED <<polling, stopSignal>>

VersioningNext ==
    \/ \E v \in WorkerVersions : DeployVersion(v)
    \/ TriggerVersioned
    \/ StopWorkflow
    \/ \E v \in polling :
          KillVersion(v) \/ FirstDecision(v) \/ PerformVersioned(v) \/ waitForSignal(v)

VersioningSpec == VersioningInit /\ [][VersioningNext]_versioningVars

-----------------------------------------------------------------------------
VersioningTypeOK ==
    /\ polling \subseteq WorkerVersions
    /\ execution \in [status : Open \union {"none", "failed", "completed"},
                      startedBy : {0} \union WorkerVersions,
                      marker : {NoMarker, DefaultVersion, 1},
                      activity : {"none", FooActivityName, BarActivityName}]
    /\ stopSignal \in BOOLEAN
    /\ unsupported \subseteq [what : {"activity", "decision"}, by : WorkerVersions,
                     startedBy : WorkerVersions]

\* A version can be deployed beside the one before it, take over from it and
\* be rolled back to it: whatever the order in which the workers come, go and
\* decide, nothing fails on a worker whose version is at most one away from
\* the version that started the execution.  This holds for version 1 about
\* executions of version 2 too, a pair that README.md:62 marks as incompatible:
\* under ExecuteWithMinVersion version 2 recorded DefaultVersion and FooActivity,
\* which is all that version 1 replays.
NeighboursAgree ==
    \A u \in unsupported : u.by - u.startedBy \notin {-1, 0, 1}

\* The compatibility matrix of README.md: the workers that decide what was
\* started by each version.
Matrix == [v \in WorkerVersions |-> IF v = 1 THEN {1, 2, 3} ELSE {2, 3, 4}]
MatrixHolds ==
    \A u \in unsupported : u.what = "decision" => u.by \notin Matrix[u.startedBy]
=============================================================================
