----------------------------- MODULE Deployment -----------------------------
(***************************************************************************)
(* One sample is deployed: its workers poll their task lists, and the      *)
(* executions that its main function, or its README, starts are decided    *)
(* and performed by whoever polls the list of a task.  A second sample     *)
(* that polls one of the same lists may run beside it: the generated       *)
(* samples all share cadence-samples-worker.                               *)
(***************************************************************************)
EXTENDS Sequences

CONSTANTS
    Samples,    \* the names of the samples to deploy
    Strangers   \* those that may run beside another

\* What each sample registers, polls, starts and schedules.
Programs == INSTANCE NewCatalog
AllSamples ==
    [s \in DOMAIN Programs!RecipeSamples \union DOMAIN Programs!NewSamples |->
        IF s \in DOMAIN Programs!RecipeSamples THEN Programs!RecipeSamples[s]
        ELSE Programs!NewSamples[s]]

VARIABLES
    deployed,    \* the sample, and the stranger that runs beside it
    executions,  \* the open executions, by the task that started each
    refused      \* tasks that a worker without their type got

deploymentVars == <<deployed, executions, refused>>

NoStranger == "no stranger"
Polls(w) == <<w.domain, w.list>>
SharesList(s, o) ==
    \E v \in AllSamples[s].workers, w \in AllSamples[o].workers : Polls(v) = Polls(w)

DeploymentInit ==
    /\ \E s \in Samples :
          \E o \in {NoStranger} \union {o \in Strangers \ {s} : SharesList(s, o)} :
             deployed = [sample |-> s, stranger |-> o]
    /\ executions = <<>>
    /\ refused = {}

Running == {deployed.sample, deployed.stranger} \ {NoStranger}
Own == AllSamples[deployed.sample]

\* A worker of sample s polls the list of task t.
Gets(s, w, t) == s \in Running /\ w \in AllSamples[s].workers /\ Polls(w) = <<t.domain, t.list>>
\* What a worker registered; the aliases of workflows are resolved by then.
Knows(w, t) ==
    t.type \in IF t.kind = "activity" THEN w.activities ELSE DOMAIN w.workflows

\* The workflow tasks that wait for a decision, and the activities that wait.
Decidable == {t \in DOMAIN executions : executions[t].pending = {}}
Activities ==
    UNION {{p \in executions[t].pending : p.kind = "activity"} : t \in DOMAIN executions}

\* What a workflow task schedules inherits its domain and list.
Resolved(task, by) ==
    [task EXCEPT !.domain = IF @ = Programs!Inherited THEN by.domain ELSE @,
                 !.list   = IF @ = Programs!Inherited THEN by.list ELSE @]

JustOpened == [started |-> FALSE, rest |-> <<>>, pending |-> {}]
\* The open executions, without t and with the new ones, t no longer waited for.
OpenAfter(t, new) ==
    [u \in new \union (DOMAIN executions \ {t}) |->
        IF u \in new THEN JustOpened ELSE [executions[u] EXCEPT !.pending = @ \ {t}]]

-----------------------------------------------------------------------------
\* An execution is started, by a command or by a main function.
Trigger(t) ==
    /\ executions = <<>>
    /\ executions' = [u \in {t} |-> JustOpened]
    /\ UNCHANGED <<deployed, refused>>

\* A decision: the execution runs the code of the worker that first decided it.
Stages(w, t) ==
    IF executions[t].started THEN executions[t].rest ELSE w.workflows[t.type]

Complete(w, t) ==
    /\ Stages(w, t) = <<>>
    /\ executions' = OpenAfter(t, {})

TasksOf(stage, by) == {Resolved(a, by) : a \in stage}

\* One alternative of the next stage is scheduled; children are opened, and a
\* workflow that continues as new takes the place of the run.
Schedule(w, t) ==
    /\ Stages(w, t) # <<>>
    /\ \E stage \in Head(Stages(w, t)) :
          LET tasks == TasksOf(stage, t)
              again == {a \in tasks : a.kind = "continue"}
              children == {a \in tasks : a.kind = "workflow"}
          IN  executions' =
                IF again # {}
                THEN OpenAfter(t, {[a EXCEPT !.kind = "workflow"] : a \in again})
                ELSE [u \in DOMAIN executions \union children |->
                        IF u = t
                        THEN [started |-> TRUE, rest |-> Tail(Stages(w, t)), pending |-> tasks]
                        ELSE IF u \in DOMAIN executions THEN executions[u] ELSE JustOpened]

Decide(w, t) ==
    /\ t \in Decidable
    /\ Knows(w, t)
    /\ Complete(w, t) \/ Schedule(w, t)
    /\ UNCHANGED <<deployed, refused>>

\* An activity is performed; its future becomes ready.
Perform(w, a) ==
    /\ a \in Activities
    /\ Knows(w, a)
    /\ executions' = [t \in DOMAIN executions |-> [executions[t] EXCEPT !.pending = @ \ {a}]]
    /\ UNCHANGED <<deployed, refused>>

\* A worker that does not know the type of its task.  A decision is tried
\* again, an activity times out and with it, unless the error is ignored, the
\* workflow.
Refuse(s, w, t) ==
    /\ t \in Decidable \union Activities
    /\ ~Knows(w, t)
    /\ refused' = refused \union {[by |-> s, type |-> t.type]}
    /\ \/ t.kind = "workflow" /\ UNCHANGED executions
       \/ /\ t.kind = "activity"
          /\ \E ignored \in BOOLEAN :
                executions' = [u \in DOMAIN executions |->
                    IF t \notin executions[u].pending THEN executions[u]
                    ELSE [executions[u] EXCEPT !.pending = @ \ {t},
                                               !.rest = IF ignored THEN @ ELSE <<>>]]
    /\ UNCHANGED deployed

DeploymentNext ==
    \/ \E t \in Own.starts : Trigger(t)
    \/ \E s \in Running : \E w \in AllSamples[s].workers, t \in Decidable \union Activities :
          /\ Gets(s, w, t)
          /\ Decide(w, t) \/ Perform(w, t) \/ Refuse(s, w, t)

DeploymentSpec == DeploymentInit /\ [][DeploymentNext]_deploymentVars

-----------------------------------------------------------------------------
\* The shape of a catalog.
TaskRecords ==
    [kind : {"activity", "workflow", "continue"}, type : STRING, domain : STRING, list : STRING]
WorkerOK(w) ==
    /\ w.domain \in STRING /\ w.list \in STRING
    /\ \A n \in DOMAIN w.workflows :
          n \in STRING /\ w.workflows[n] \in Seq(SUBSET (SUBSET TaskRecords))
SampleOK(s) ==
    /\ AllSamples[s].starts \subseteq [kind : {"workflow"}, type : STRING, domain : STRING,
                                      list : STRING]
    /\ \A w \in AllSamples[s].workers : WorkerOK(w)

\* A task is on a list that a worker of s polls and of a type that it registers.
ServedBy(s, t) == \E w \in AllSamples[s].workers : Polls(w) = <<t.domain, t.list>> /\ Knows(w, t)

\* Whatever a workflow of sample r schedules is served by s, if the workflow
\* itself is.
SchedulesFor(s, r) ==
    \A w \in AllSamples[r].workers : \A n \in DOMAIN w.workflows :
        ServedBy(s, Programs!Task("workflow", n, w.domain, w.list)) =>
            \A i \in DOMAIN w.workflows[n] : \A stage \in w.workflows[n][i] :
                \A a \in stage : ServedBy(s, Resolved(a, w))

\* What can be read off the programs without running them: a sample serves what
\* it starts and, with those that may run beside it, what that schedules; and it
\* has one worker for each of its lists.
Coherent(s) ==
    /\ s # NoStranger
    /\ \A r \in {s} \union Strangers : SampleOK(r)
    /\ \A t \in AllSamples[s].starts : ServedBy(s, t)
    /\ \A v, w \in AllSamples[s].workers : Polls(v) = Polls(w) => v = w
    /\ \A r \in {s} \union {o \in Strangers : SharesList(s, o)} : SchedulesFor(s, r)

\* What the sample schedules is served by the sample: each task that waits is
\* on a list polled by one of its own workers that registers the type, through
\* every chain of activities, children and continued runs; and if a task was
\* refused it was by a stranger.  markdown_query.go:74, "Use the Complete
\* button to complete this workflow", supposes as much of its sample, which
\* does not keep it; nor do four others, that the README lists with the
\* strangers whose types have the same names.
Served ==
    /\ \A t \in Decidable \union Activities :
          \E w \in Own.workers : Gets(deployed.sample, w, t) /\ Knows(w, t)
    /\ \A r \in refused : r.by = deployed.stranger
=============================================================================
