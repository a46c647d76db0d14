-------------------------- MODULE DeploymentProofs --------------------------
(* That a deployed sample serves what it schedules: it follows from what can *)
(* be read off each program alone, whichever samples there are and whichever *)
(* of them run side by side. Nothing here looks into the catalog.           *)
EXTENDS Deployment, Naturals, TLAPS

S == deployed.sample

\* The tasks of the stages are served once they have the list of t.
StagesServed(stages, t) ==
    /\ stages \in Seq(SUBSET (SUBSET TaskRecords))
    /\ \A i \in DOMAIN stages : \A stage \in stages[i] :
          \A a \in TasksOf(stage, t) : ServedBy(S, a)

DeployedOK ==
    /\ deployed \in [sample : Samples, stranger : Strangers \union {NoStranger}]
    /\ deployed.stranger # NoStranger =>
          deployed.stranger # S /\ SharesList(S, deployed.stranger)

ExecutionRecords ==
    [started : BOOLEAN, rest : Seq(SUBSET (SUBSET TaskRecords)), pending : SUBSET TaskRecords]

\* An open execution is served, as is what it waits for and what it may still
\* schedule.
ExecutionOK(t, e) ==
    /\ t \in TaskRecords /\ t.kind = "workflow" /\ ServedBy(S, t)
    /\ e \in ExecutionRecords
    /\ StagesServed(e.rest, t)
    /\ \A p \in e.pending : p.kind # "continue" /\ ServedBy(S, p)

DeploymentIInv ==
    /\ DeployedOK
    /\ \A t \in DOMAIN executions : ExecutionOK(t, executions[t])
    /\ \A r \in refused : r.by = deployed.stranger

CatalogIsCoherent == \A s \in Samples : Coherent(s)

-----------------------------------------------------------------------------
LEMMA JustOpenedOK ==
    ASSUME NEW t \in TaskRecords, t.kind = "workflow", ServedBy(S, t)
    PROVE  ExecutionOK(t, JustOpened)
  <1>1. /\ JustOpened \in ExecutionRecords
        /\ JustOpened.rest = <<>> /\ JustOpened.pending = {}
    BY DEF JustOpened, ExecutionRecords
  <1>2. StagesServed(<<>>, t)
    BY DEF StagesServed
  <1> QED  BY <1>1, <1>2 DEF ExecutionOK

\* An execution that waits for less is as good.
LEMMA WaitsForLess ==
    ASSUME NEW t, NEW e, ExecutionOK(t, e), NEW p
    PROVE  ExecutionOK(t, [e EXCEPT !.pending = @ \ p])
  <1> DEFINE f == [e EXCEPT !.pending = @ \ p]
  <1>1. e \in ExecutionRecords
    BY DEF ExecutionOK
  <1>2. f \in ExecutionRecords /\ f.rest = e.rest /\ f.pending = e.pending \ p
    BY <1>1 DEF ExecutionRecords
  <1> HIDE DEF f
  <1>3. ExecutionOK(t, f)
    BY <1>2 DEF ExecutionOK
  <1> QED  BY <1>3 DEF f

LEMMA DeploymentInitInv == CatalogIsCoherent /\ DeploymentInit => DeploymentIInv
  <1> SUFFICES ASSUME CatalogIsCoherent, DeploymentInit PROVE DeploymentIInv
    OBVIOUS
  <1>1. PICK s \in Samples :
           \E o \in {NoStranger} \union {o \in Strangers \ {s} : SharesList(s, o)} :
              deployed = [sample |-> s, stranger |-> o]
    BY DEF DeploymentInit
  <1>2. DeployedOK
    BY <1>1 DEF DeployedOK, S
  <1>3. executions = <<>> /\ refused = {}
    BY DEF DeploymentInit
  <1> QED  BY <1>2, <1>3 DEF DeploymentIInv

\* Who runs: the sample, and the stranger with which it was looked at.
LEMMA WhoRuns ==
    ASSUME CatalogIsCoherent, DeployedOK, NEW r \in Running
    PROVE  /\ Coherent(S) /\ SampleOK(r) /\ SchedulesFor(S, r)
           /\ r = S \/ (r = deployed.stranger /\ r # S)
  <1>1. S \in Samples /\ Coherent(S)
    BY DEF CatalogIsCoherent, DeployedOK, S
  <1>2. r = S \/ (r = deployed.stranger /\ r # S /\ r \in Strangers /\ SharesList(S, r))
    BY DEF Running, DeployedOK, S
  <1> QED  BY <1>1, <1>2 DEF Coherent

\* The stages of a workflow that is served are served.
LEMMA StagesOfWorkflow ==
    ASSUME CatalogIsCoherent, DeployedOK, NEW r \in Running, NEW w \in AllSamples[r].workers,
           NEW t \in TaskRecords, t.kind = "workflow", ServedBy(S, t),
           Polls(w) = <<t.domain, t.list>>, Knows(w, t)
    PROVE  StagesServed(w.workflows[t.type], t)
  <1>1. t.type \in DOMAIN w.workflows /\ w.domain = t.domain /\ w.list = t.list
    BY DEF Knows, Polls
  <1>2. w.workflows[t.type] \in Seq(SUBSET (SUBSET TaskRecords))
    BY <1>1, WhoRuns DEF SampleOK, WorkerOK
  <1>3. Programs!Task("workflow", t.type, w.domain, w.list) = t
    BY <1>1 DEF Programs!Task, TaskRecords
  <1>4. ServedBy(S, Programs!Task("workflow", t.type, w.domain, w.list))
    BY <1>3
  <1>5. \A i \in DOMAIN w.workflows[t.type] : \A stage \in w.workflows[t.type][i] :
           \A a \in stage : ServedBy(S, Resolved(a, w))
    BY <1>1, <1>4, WhoRuns DEF SchedulesFor
  <1>6. \A a : Resolved(a, w) = Resolved(a, t)
    BY <1>1 DEF Resolved
  <1>7. \A i \in DOMAIN w.workflows[t.type] : \A stage \in w.workflows[t.type][i] :
           \A b \in TasksOf(stage, t) : ServedBy(S, b)
    BY <1>5, <1>6 DEF TasksOf
  <1> QED  BY <1>2, <1>7 DEF StagesServed

LEMMA ResolvedTasks ==
    ASSUME NEW t \in TaskRecords, NEW stage \in SUBSET TaskRecords
    PROVE  TasksOf(stage, t) \subseteq TaskRecords
  BY DEF TasksOf, Resolved, TaskRecords, Programs!Inherited

\* The executions are those of before that are as good, and new ones.
LEMMA ExecutionsKeep ==
    ASSUME DeploymentIInv, UNCHANGED <<deployed, refused>>,
           \A t \in DOMAIN executions' : ExecutionOK(t, executions'[t])
    PROVE  DeploymentIInv'
  <1>1. S' = S
    BY DEF S
  <1>2. \A s, t : ServedBy(s, t)' <=> ServedBy(s, t)
    BY DEF ServedBy, Polls, Knows
  <1>3. \A t, e : ExecutionOK(t, e) <=> ExecutionOK(t, e)'
    BY <1>1 DEF ExecutionOK, StagesServed, ServedBy, Polls, Knows
  <1> QED  BY <1>3 DEF DeploymentIInv, DeployedOK, S

LEMMA ClosedKeeps ==
    ASSUME DeploymentIInv, UNCHANGED <<deployed, refused>>, NEW t,
           NEW new \in SUBSET TaskRecords,
           \A a \in new : a.kind = "workflow" /\ ServedBy(S, a),
           executions' = OpenAfter(t, new)
    PROVE  DeploymentIInv'
  <1>1. /\ DOMAIN executions' = new \union (DOMAIN executions \ {t})
        /\ \A u \in DOMAIN executions' :
              executions'[u] = IF u \in new THEN JustOpened
                               ELSE [executions[u] EXCEPT !.pending = @ \ {t}]
    BY DEF OpenAfter
  <1>2. SUFFICES ASSUME NEW u \in DOMAIN executions' PROVE ExecutionOK(u, executions'[u])
    BY ExecutionsKeep
  <1>3. CASE u \in new
    BY <1>1, <1>3, JustOpenedOK
  <1>4. CASE u \notin new
    <2>1. u \in DOMAIN executions /\ ExecutionOK(u, executions[u])
      BY <1>1, <1>4 DEF DeploymentIInv
    <2>2. ExecutionOK(u, [executions[u] EXCEPT !.pending = @ \ {t}])
      BY <2>1, WaitsForLess
    <2>3. executions'[u] = [executions[u] EXCEPT !.pending = @ \ {t}]
      BY <1>1, <1>4
    <2> QED  BY <2>2, <2>3
  <1> QED  BY <1>3, <1>4

LEMMA DecideKeeps ==
    ASSUME CatalogIsCoherent, DeploymentIInv, NEW r \in Running, NEW w \in AllSamples[r].workers,
           NEW t, Gets(r, w, t), Decide(w, t)
    PROVE  DeploymentIInv'
  <1>1. /\ t \in DOMAIN executions /\ Knows(w, t) /\ UNCHANGED <<deployed, refused>>
        /\ Polls(w) = <<t.domain, t.list>>
    BY DEF Decide, Decidable, Gets
  <1>2. ExecutionOK(t, executions[t])
    BY <1>1 DEF DeploymentIInv
  <1>3. t \in TaskRecords /\ t.kind = "workflow" /\ ServedBy(S, t)
    BY <1>2 DEF ExecutionOK
  <1>4. StagesServed(Stages(w, t), t)
    <2>1. StagesServed(w.workflows[t.type], t)
      BY <1>1, <1>3, StagesOfWorkflow DEF DeploymentIInv
    <2> QED  BY <1>2, <2>1 DEF Stages, ExecutionOK
  <1>5. CASE Complete(w, t)
    <2>1. {} \in SUBSET TaskRecords
      OBVIOUS
    <2> QED  BY <1>1, <1>5, <2>1, ClosedKeeps DEF Complete
  <1>6. CASE Schedule(w, t)
    <2> DEFINE stages == Stages(w, t)
    <2>1. PICK stage \in Head(stages) :
             LET tasks == TasksOf(stage, t)
                 again == {a \in tasks : a.kind = "continue"}
                 children == {a \in tasks : a.kind = "workflow"}
             IN  executions' =
                   IF again # {}
                   THEN OpenAfter(t, {[a EXCEPT !.kind = "workflow"] : a \in again})
                   ELSE [u \in DOMAIN executions \union children |->
                           IF u = t
                           THEN [started |-> TRUE, rest |-> Tail(stages), pending |-> tasks]
                           ELSE IF u \in DOMAIN executions THEN executions[u] ELSE JustOpened]
      BY <1>6 DEF Schedule
    <2> DEFINE tasks == TasksOf(stage, t)
               again == {a \in tasks : a.kind = "continue"}
               children == {a \in tasks : a.kind = "workflow"}
    <2>2. stages # <<>> /\ stages \in Seq(SUBSET (SUBSET TaskRecords))
      BY <1>4, <1>6 DEF StagesServed, Schedule
    <2>3. Head(stages) = stages[1] /\ 1 \in DOMAIN stages
          /\ stages[1] \in SUBSET (SUBSET TaskRecords)
      BY <2>2
    <2>4. tasks \subseteq TaskRecords /\ \A a \in tasks : ServedBy(S, a)
      BY <1>3, <1>4, <2>1, <2>3, ResolvedTasks DEF StagesServed
    <2>5. StagesServed(Tail(stages), t)
      <3>1. /\ Tail(stages) \in Seq(SUBSET (SUBSET TaskRecords))
            /\ \A i \in DOMAIN Tail(stages) : i + 1 \in DOMAIN stages
                                            /\ Tail(stages)[i] = stages[i + 1]
        BY <2>2
      <3> QED  BY <1>4, <3>1 DEF StagesServed
    <2> HIDE DEF stages, tasks
    <2>6. CASE again # {}
      <3> DEFINE new == {[a EXCEPT !.kind = "workflow"] : a \in again}
      <3>1. \A a \in again : /\ [a EXCEPT !.kind = "workflow"] \in TaskRecords
                             /\ [a EXCEPT !.kind = "workflow"].kind = "workflow"
                             /\ ServedBy(S, [a EXCEPT !.kind = "workflow"])
        <4> SUFFICES ASSUME NEW a \in again
                     PROVE  /\ [a EXCEPT !.kind = "workflow"] \in TaskRecords
                            /\ [a EXCEPT !.kind = "workflow"].kind = "workflow"
                            /\ ServedBy(S, [a EXCEPT !.kind = "workflow"])
          OBVIOUS
        <4> DEFINE b == [a EXCEPT !.kind = "workflow"]
        <4>1. a \in TaskRecords /\ a.kind = "continue" /\ ServedBy(S, a)
          BY <2>4
        <4>2. /\ b \in TaskRecords /\ b.kind = "workflow"
              /\ b.type = a.type /\ b.domain = a.domain /\ b.list = a.list
          BY <4>1 DEF TaskRecords
        <4> HIDE DEF b
        <4>3. ServedBy(S, b)
          BY <4>1, <4>2 DEF ServedBy, Knows
        <4> QED  BY <4>2, <4>3 DEF b
      <3>2. new \in SUBSET TaskRecords /\ \A b \in new : b.kind = "workflow" /\ ServedBy(S, b)
        BY <3>1
      <3>3. executions' = OpenAfter(t, new)
        BY <2>1, <2>6 DEF tasks
      <3> HIDE DEF new
      <3> QED  BY <1>1, <3>2, <3>3, ClosedKeeps
    <2>7. CASE again = {}
      <3> DEFINE e == [started |-> TRUE, rest |-> Tail(stages), pending |-> tasks]
      <3>1. /\ DOMAIN executions' = DOMAIN executions \union children
            /\ \A u \in DOMAIN executions' :
                  executions'[u] = IF u = t THEN e
                                   ELSE IF u \in DOMAIN executions THEN executions[u]
                                   ELSE JustOpened
        BY <2>1, <2>7 DEF tasks, stages
      <3>2. ExecutionOK(t, e)
        <4>1. e \in ExecutionRecords /\ e.rest = Tail(stages) /\ e.pending = tasks
          BY <2>2, <2>4 DEF ExecutionRecords
        <4> HIDE DEF e
        <4> QED  BY <1>3, <2>4, <2>5, <2>7, <4>1 DEF ExecutionOK
      <3> HIDE DEF e
      <3>3. ASSUME NEW u \in DOMAIN executions' PROVE ExecutionOK(u, executions'[u])
        <4>1. CASE u = t
          BY <3>1, <3>2, <4>1
        <4>2. CASE u # t /\ u \in DOMAIN executions
          BY <3>1, <4>2 DEF DeploymentIInv
        <4>3. CASE u # t /\ u \notin DOMAIN executions
          BY <2>4, <3>1, <4>3, JustOpenedOK
        <4> QED  BY <4>1, <4>2, <4>3
      <3> QED  BY <1>1, <3>3, ExecutionsKeep
    <2> QED  BY <2>6, <2>7
  <1> QED  BY <1>5, <1>6 DEF Decide

LEMMA PerformKeeps ==
    ASSUME DeploymentIInv, NEW w, NEW a, Perform(w, a)
    PROVE  DeploymentIInv'
  <1>1. /\ executions' = [t \in DOMAIN executions |-> [executions[t] EXCEPT !.pending = @ \ {a}]]
        /\ UNCHANGED <<deployed, refused>>
    BY DEF Perform
  <1>2. ASSUME NEW t \in DOMAIN executions' PROVE ExecutionOK(t, executions'[t])
    BY <1>1, WaitsForLess DEF DeploymentIInv
  <1> QED  BY <1>1, <1>2, ExecutionsKeep

\* A worker that gets what the sample scheduled and does not know it is the
\* stranger's.
LEMMA OnlyStrangersRefuse ==
    ASSUME CatalogIsCoherent, DeployedOK, NEW r \in Running, NEW w \in AllSamples[r].workers,
           NEW t, ServedBy(S, t), Polls(w) = <<t.domain, t.list>>, ~Knows(w, t)
    PROVE  r = deployed.stranger
  <1>1. PICK v \in AllSamples[S].workers : Polls(v) = <<t.domain, t.list>> /\ Knows(v, t)
    BY DEF ServedBy
  <1>2. r # S
    BY <1>1, WhoRuns DEF Coherent
  <1> QED  BY <1>2, WhoRuns

LEMMA WaitingIsServed ==
    ASSUME DeploymentIInv, NEW t \in Decidable \union Activities
    PROVE  ServedBy(S, t)
  BY DEF Decidable, Activities, DeploymentIInv, ExecutionOK

LEMMA RefuseKeeps ==
    ASSUME CatalogIsCoherent, DeploymentIInv, NEW r \in Running, NEW w \in AllSamples[r].workers,
           NEW t, Gets(r, w, t), Refuse(r, w, t)
    PROVE  DeploymentIInv'
  <1>1. /\ t \in Decidable \union Activities /\ ~Knows(w, t) /\ deployed' = deployed
        /\ Polls(w) = <<t.domain, t.list>>
        /\ refused' = refused \union {[by |-> r, type |-> t.type]}
    BY DEF Refuse, Gets
  <1>2. r = deployed.stranger
    <2>1. ServedBy(S, t)
      BY <1>1, WaitingIsServed
    <2> QED  BY <1>1, <2>1, OnlyStrangersRefuse DEF DeploymentIInv
  <1>3. \A q \in refused' : q.by = deployed.stranger
    BY <1>1, <1>2 DEF DeploymentIInv
  <1>4. \A u \in DOMAIN executions' : ExecutionOK(u, executions'[u])
    <2>1. CASE UNCHANGED executions
      BY <2>1 DEF DeploymentIInv
    <2>2. ASSUME NEW ignored \in BOOLEAN,
                 executions' = [u \in DOMAIN executions |->
                    IF t \notin executions[u].pending THEN executions[u]
                    ELSE [executions[u] EXCEPT !.pending = @ \ {t},
                                               !.rest = IF ignored THEN @ ELSE <<>>]],
                 NEW u \in DOMAIN executions'
          PROVE  ExecutionOK(u, executions'[u])
      <3>1. ExecutionOK(u, executions[u]) /\ u \in DOMAIN executions
        BY <2>2 DEF DeploymentIInv
      <3>2. CASE t \notin executions[u].pending
        BY <2>2, <3>1, <3>2
      <3>3. CASE t \in executions[u].pending
        <4> DEFINE e == executions[u]
                   q == IF ignored THEN e.rest ELSE <<>>
                   f == [e EXCEPT !.pending = @ \ {t}, !.rest = q]
        <4>1. e \in ExecutionRecords /\ StagesServed(e.rest, u)
          BY <3>1 DEF ExecutionOK
        <4>2. /\ f.pending = e.pending \ {t} /\ f.rest = IF ignored THEN e.rest ELSE <<>>
              /\ f \in ExecutionRecords
          <5>1. q \in Seq(SUBSET (SUBSET TaskRecords))
            BY <4>1 DEF ExecutionRecords
          <5> HIDE DEF e, q
          <5>2. f \in ExecutionRecords /\ f.pending = e.pending \ {t} /\ f.rest = q
            BY <4>1, <5>1 DEF ExecutionRecords
          <5> QED  BY <5>2 DEF q
        <4>3. StagesServed(<<>>, u)
          BY DEF StagesServed
        <4>4. executions'[u] = f
          BY <2>2, <3>1, <3>3
        <4>5. ExecutionOK(u, e)
          BY <3>1
        <4> HIDE DEF e, f
        <4>6. StagesServed(f.rest, u)
          BY <4>1, <4>2, <4>3
        <4>7. ExecutionOK(u, f)
          BY <4>2, <4>5, <4>6 DEF ExecutionOK
        <4> QED  BY <4>4, <4>7
      <3> QED  BY <3>2, <3>3
    <2> QED  BY <2>1, <2>2 DEF Refuse
  <1>5. S' = S
    BY <1>1 DEF S
  <1>6. \A u, e : ExecutionOK(u, e) <=> ExecutionOK(u, e)'
    BY <1>5 DEF ExecutionOK, StagesServed, ServedBy, Polls, Knows
  <1> QED  BY <1>1, <1>3, <1>4, <1>6 DEF DeploymentIInv, DeployedOK, S

LEMMA TriggerKeeps ==
    ASSUME CatalogIsCoherent, DeploymentIInv, NEW t \in Own.starts, Trigger(t)
    PROVE  DeploymentIInv'
  <1>1. S \in Samples /\ Coherent(S) /\ Own = AllSamples[S]
    BY DEF CatalogIsCoherent, DeploymentIInv, DeployedOK, S, Own
  <1>2. t \in TaskRecords /\ t.kind = "workflow" /\ ServedBy(S, t)
    BY <1>1 DEF Coherent, SampleOK, TaskRecords
  <1>3. \A u \in DOMAIN executions' : ExecutionOK(u, executions'[u])
    BY <1>2, JustOpenedOK DEF Trigger
  <1> QED  BY <1>3, ExecutionsKeep DEF Trigger

LEMMA DeploymentStepInv ==
    CatalogIsCoherent /\ DeploymentIInv /\ [DeploymentNext]_deploymentVars => DeploymentIInv'
  <1> SUFFICES ASSUME CatalogIsCoherent, DeploymentIInv, [DeploymentNext]_deploymentVars
               PROVE  DeploymentIInv'
    OBVIOUS
  <1>1. CASE UNCHANGED deploymentVars
    BY <1>1, ExecutionsKeep DEF deploymentVars, DeploymentIInv
  <1>2. ASSUME NEW t \in Own.starts, Trigger(t) PROVE DeploymentIInv'
    BY <1>2, TriggerKeeps
  <1>3. ASSUME NEW s \in Running, NEW w \in AllSamples[s].workers,
               NEW t \in Decidable \union Activities, Gets(s, w, t),
               Decide(w, t) \/ Perform(w, t) \/ Refuse(s, w, t)
        PROVE  DeploymentIInv'
    BY <1>3, DecideKeeps, PerformKeeps, RefuseKeeps
  <1> QED  BY <1>1, <1>2, <1>3 DEF DeploymentNext

\* Whatever is deployed, with whatever stranger beside it, and whichever of the
\* workers gets a task: if each program, looked at alone, lists what it and
\* those that share its lists schedule, then no task ever waits that no worker
\* of the sample can take, and none is refused by a worker of the sample.
THEOREM CoherentIsServed ==
    ASSUME CatalogIsCoherent
    PROVE  DeploymentSpec => []Served
  <1>1. DeploymentIInv => Served
    <2> SUFFICES ASSUME DeploymentIInv PROVE Served
      OBVIOUS
    <2>1. ASSUME NEW t \in Decidable \union Activities
          PROVE  \E w \in Own.workers : Gets(deployed.sample, w, t) /\ Knows(w, t)
      <3>1. S \in Running
        BY DEF Running, DeploymentIInv, DeployedOK, S, CatalogIsCoherent, Coherent
      <3> QED  BY <3>1, WaitingIsServed DEF ServedBy, Gets, Own, S
    <2> QED  BY <2>1 DEF Served, DeploymentIInv
  <1> QED
    BY <1>1, DeploymentInitInv, DeploymentStepInv, PTL DEF DeploymentSpec
=============================================================================
