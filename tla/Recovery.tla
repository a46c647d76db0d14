------------------------------ MODULE Recovery ------------------------------
(***************************************************************************)
(* The recovery workflow of cmd/samples/recovery, running beside the trip  *)
(* workflows it recovers.                                                  *)
(*                                                                         *)
(* recoverWorkflow lists the open trips, cuts the list into batches and    *)
(* runs one recoverExecutions activity for each.  The list itself is kept  *)
(* in the memory of the host that made it.  An activity is retried from    *)
(* its last heartbeat; an attempt that missed its heartbeat timeout may    *)
(* still be running ("stale") beside the attempt that replaces it.         *)
(*                                                                         *)
(* External: the server, which refuses to terminate a closed run and to    *)
(* start a second open run of an id, and which schedules the attempts.     *)
(***************************************************************************)
EXTENDS Trip, Batches, Sequences, FiniteSets

CONSTANTS
    MaxAttempts,        \* RetryPolicy.MaximumAttempts of recoverExecutions
    AttemptsOverlap     \* a timed out attempt may go on running

ASSUME RecoveryAssumption ==
    /\ IsFiniteSet(Trips)
    /\ MaxAttempts \in Nat \ {0}
    /\ AttemptsOverlap \in BOOLEAN

VARIABLES
    phase,      \* of recoverWorkflow
    listed,     \* openExecutions, in the cache of one host
    cached,     \* that host still has them
    batch,      \* per batch: its state, attempts so far and last heartbeat
    work,       \* per batch: the current attempt and a stale one
    recovered,  \* indices whose recovery some attempt has completed
    late        \* trips that a stale attempt was the last to terminate

recoveryVars == <<phase, listed, cached, batch, work, recovered, late>>
vars == <<tripVars, recoveryVars>>

-----------------------------------------------------------------------------

BatchIds == DOMAIN batch
Count == Len(listed)

Idle == [pc |-> "none"]
NoHeartbeat == -1

RecoveryInit ==
    /\ phase = "listing"
    /\ listed = <<>>
    /\ cached = FALSE
    /\ batch = <<>>
    /\ work = <<>>
    /\ recovered = {}
    /\ late = {}

Init == TripInit /\ RecoveryInit

\* The executions of a list, in some order.
ListOf(S) ==
    CHOOSE q \in [1..Cardinality(S) -> S] :
        \A t \in S : \E i \in 1..Cardinality(S) : q[i] = t

\* listOpenExecutions and the start of one activity per batch.  With no open
\* execution the division by the concurrency panics: the decision fails again
\* and again, until the execution timeout of a day.
ListAndSplit ==
    /\ phase = "listing"
    /\ \E open \in SUBSET {t \in Trips : trip[t].open} :
        LET n == Workers(Cardinality(open)) IN
        /\ listed' = ListOf(open)
        /\ phase' = IF open = {} THEN "panicked" ELSE "recovering"
        /\ batch' = [b \in 0..(n - 1) |->
                        [state |-> "running", attempts |-> 0,
                         heartbeat |-> NoHeartbeat]]
        /\ work' = [b \in 0..(n - 1) |-> [live |-> Idle, stale |-> Idle]]
    /\ cached' = TRUE
    /\ UNCHANGED <<tripVars, recovered, late>>

ListFails ==
    /\ phase = "listing"
    /\ phase' = "failed"
    /\ UNCHANGED <<tripVars, listed, cached, batch, work, recovered, late>>

-----------------------------------------------------------------------------
(* An attempt of recoverExecutions for batch b; s is its slot of work.     *)

At(b, s, pc) == work[b][s].pc = pc

\* Mutant of AttemptOver: one attempt more than MaximumAttempts.
AttemptOverLate(b) ==
    [batch EXCEPT ![b].attempts = @ + 1,
                  ![b].state = IF batch[b].attempts = MaxAttempts
                               THEN "failed" ELSE @]

AttemptOver(b) ==
    [batch EXCEPT ![b].attempts = @ + 1,
                  ![b].state = IF batch[b].attempts + 1 = MaxAttempts
                               THEN "failed" ELSE @]

\* The first index of an attempt: after the heartbeat, if there was one.
FirstIndex(b) ==
    IF batch[b].heartbeat = NoHeartbeat
    THEN StartIndex(Count, b)
    ELSE batch[b].heartbeat + 1

\* The attempt runs on the host that has the list.
BeginAttempt(b) ==
    /\ batch[b].state = "running"
    /\ At(b, "live", "none")
    /\ cached
    /\ work' = [work EXCEPT ![b].live = [pc |-> "next", index |-> FirstIndex(b)]]
    /\ UNCHANGED <<tripVars, phase, listed, cached, batch, recovered, late>>

\* On a host without it, the type assertion on the missing entry panics.
AttemptPanics(b) ==
    /\ batch[b].state = "running"
    /\ At(b, "live", "none")
    /\ batch' = AttemptOver(b)
    /\ UNCHANGED <<tripVars, phase, listed, cached, work, recovered, late>>

\* Mutant of ReadHistory: the new run is given the counter as it is now.
ReadHistoryWithCounter(b, s) ==
    /\ At(b, s, "next")
    /\ LET i == work[b][s].index IN
        /\ i < EndIndex(Count, b)
        /\ i < Count
        /\ LET t == trip[listed[i + 1]] IN
           work' = [work EXCEPT ![b][s] =
                      [pc |-> IF t.open THEN "terminate" ELSE "start", index |-> i,
                       base |-> TripCounter(listed[i + 1]), signals |-> t.hist]]
    /\ UNCHANGED <<tripVars, phase, listed, cached, batch, recovered, late>>

\* Mutant of ReadHistory: the heartbeat precedes the recovery.
HeartbeatFirst(b, s) ==
    /\ At(b, s, "next")
    /\ LET i == work[b][s].index IN
        /\ i < EndIndex(Count, b)
        /\ i < Count
        /\ batch' = [batch EXCEPT ![b].heartbeat = i]
        /\ LET t == trip[listed[i + 1]] IN
           work' = [work EXCEPT ![b][s] =
                      [pc |-> IF t.open THEN "terminate" ELSE "start",
                       index |-> i, base |-> t.base, signals |-> t.hist]]
    /\ UNCHANGED <<tripVars, phase, listed, cached, recovered, late>>

\* getHistory reads the latest run, whichever run was listed.
ReadHistory(b, s) ==
    /\ At(b, s, "next")
    /\ LET i == work[b][s].index IN
        /\ i < EndIndex(Count, b)
        /\ i < Count
        /\ LET t == trip[listed[i + 1]] IN
           work' = [work EXCEPT ![b][s] =
                      [pc |-> IF t.open THEN "terminate" ELSE "start",
                       index |-> i, base |-> t.base, signals |-> t.hist]]
    /\ UNCHANGED <<tripVars, phase, listed, cached, batch, recovered, late>>

Target(b, s) == listed[work[b][s].index + 1]

\* An attempt that returns an error, or whose RPC does.
EndInError(b, s) ==
    /\ work' = [work EXCEPT ![b][s] = Idle]
    /\ batch' = IF s = "live" THEN AttemptOver(b) ELSE batch

\* TerminateWorkflow names no run: it closes the latest one.
Terminate(b, s) ==
    /\ At(b, s, "terminate")
    /\ IF trip[Target(b, s)].open
       THEN /\ trip' = [trip EXCEPT ![Target(b, s)].open = FALSE]
            /\ late' = IF s = "stale" THEN late \union {Target(b, s)}
                       ELSE late \ {Target(b, s)}
            /\ work' = [work EXCEPT ![b][s].pc = "start"]
            /\ UNCHANGED batch
       ELSE /\ EndInError(b, s)
            /\ UNCHANGED <<trip, late>>
    /\ UNCHANGED <<sent, phase, listed, cached, recovered>>

\* StartWorkflow, with the state the run that was read had started with.
StartRun(b, s) ==
    /\ At(b, s, "start")
    /\ LET t == Target(b, s) IN
       IF ~trip[t].open
       THEN /\ trip' = [trip EXCEPT ![t] = NewRun(trip[t].run + 1, NextType,
                                                  work[b][s].base)]
            /\ work' = [work EXCEPT ![b][s] =
                          [pc |-> "replay", index |-> work[b][s].index,
                           run |-> trip[t].run + 1,
                           signals |-> work[b][s].signals]]
            /\ UNCHANGED batch
       ELSE /\ EndInError(b, s)
            /\ UNCHANGED trip
    /\ UNCHANGED <<sent, phase, listed, cached, recovered, late>>

\* One signal is sent to the new run.  An error, because that run is closed or
\* the call failed, is ignored.
Replay(b, s) ==
    /\ At(b, s, "replay")
    /\ work[b][s].signals > 0
    /\ LET t == Target(b, s) IN
       \/ /\ trip[t].open /\ trip[t].run = work[b][s].run
          /\ trip' = [trip EXCEPT ![t].hist = @ + 1]
       \/ UNCHANGED trip
    /\ work' = [work EXCEPT ![b][s].signals = @ - 1]
    /\ UNCHANGED <<sent, phase, listed, cached, batch, recovered, late>>

\* recoverSingleExecution returns and the heartbeat is recorded, unless the
\* client holds it back or the attempt is no longer the one the server knows.
FinishIndex(b, s) ==
    /\ At(b, s, "replay")
    /\ work[b][s].signals = 0
    /\ work' = [work EXCEPT ![b][s] =
                  [pc |-> "next", index |-> work[b][s].index + 1]]
    /\ recovered' = recovered \union {work[b][s].index}
    /\ \/ s = "live" /\ batch' = [batch EXCEPT ![b].heartbeat = work[b][s].index]
       \/ UNCHANGED batch
    /\ UNCHANGED <<tripVars, phase, listed, cached, late>>

EndBatch(b, s) ==
    /\ At(b, s, "next")
    /\ work[b][s].index >= EndIndex(Count, b) \/ work[b][s].index >= Count
    /\ work' = [work EXCEPT ![b][s] = Idle]
    /\ batch' = IF s = "live" THEN [batch EXCEPT ![b].state = "done"] ELSE batch
    /\ UNCHANGED <<tripVars, phase, listed, cached, recovered, late>>

\* Mutant of CallFails: a failed execution is logged and the loop goes on.
CallFailureIgnored(b, s) ==
    /\ work[b][s].pc \in {"terminate", "start"}
    /\ work' = [work EXCEPT ![b][s] =
                  [pc |-> "next", index |-> work[b][s].index + 1]]
    /\ UNCHANGED <<tripVars, phase, listed, cached, batch, recovered, late>>

CallFails(b, s) ==
    /\ work[b][s].pc \in {"next", "terminate", "start"}
    /\ EndInError(b, s)
    /\ UNCHANGED <<tripVars, phase, listed, cached, recovered, late>>

\* No heartbeat reached the server in time: the attempt is over for the server
\* and the worker process may go on with it.
HeartbeatTimeout(b) ==
    /\ ~At(b, "live", "none")
    /\ batch' = AttemptOver(b)
    /\ work' = [work EXCEPT ![b] =
                  [live |-> Idle,
                   stale |-> IF AttemptsOverlap THEN @.live ELSE @.stale]]
    /\ UNCHANGED <<tripVars, phase, listed, cached, recovered, late>>

\* The host restarts: its attempts are gone, and the list with them.
HostRestart ==
    /\ cached
    /\ cached' = FALSE
    /\ work' = [b \in BatchIds |-> [live |-> Idle, stale |-> Idle]]
    /\ batch' = [b \in BatchIds |->
                    IF At(b, "live", "none") THEN batch[b] ELSE AttemptOver(b)[b]]
    /\ UNCHANGED <<tripVars, phase, listed, recovered, late>>

\* Later recoveries on the host push the list out of its bounded cache.
ListEvicted ==
    /\ cached
    /\ cached' = FALSE
    /\ UNCHANGED <<tripVars, phase, listed, batch, work, recovered, late>>

\* Mutant of Complete: a failed activity returns before it sends "done".
CompleteIfDone ==
    /\ phase = "recovering"
    /\ \A b \in BatchIds : batch[b].state = "done"
    /\ phase' = "completed"
    /\ UNCHANGED <<tripVars, listed, cached, batch, work, recovered, late>>

\* Every batch sent "done", whether its activity succeeded or not.
Complete ==
    /\ phase = "recovering"
    /\ \A b \in BatchIds : batch[b].state # "running"
    /\ phase' = "completed"
    /\ UNCHANGED <<tripVars, listed, cached, batch, work, recovered, late>>

-----------------------------------------------------------------------------

AttemptStep(b, s) ==
    \/ ReadHistory(b, s) \/ Terminate(b, s) \/ StartRun(b, s)
    \/ Replay(b, s) \/ FinishIndex(b, s) \/ EndBatch(b, s)

BatchStep(b) ==
    BeginAttempt(b) \/ AttemptPanics(b) \/ AttemptStep(b, "live")

Failure ==
    \/ \E b \in BatchIds :
        \/ HeartbeatTimeout(b)
        \/ \E s \in {"live", "stale"} : CallFails(b, s)
    \/ HostRestart
    \/ ListEvicted

Next ==
    \/ TripNext /\ UNCHANGED recoveryVars
    \/ ListAndSplit \/ ListFails \/ Complete
    \/ \E b \in BatchIds : BatchStep(b) \/ AttemptStep(b, "stale")
    \/ Failure

Spec == Init /\ [][Next]_vars

(* Workers poll for the decisions and activities of the recovery.          *)
Fairness ==
    /\ WF_vars(ListAndSplit)
    /\ WF_vars(Complete)
    /\ \A b \in 0..(Cardinality(Trips) - 1) :
            WF_vars(b \in BatchIds /\ BatchStep(b))

FairSpec == Spec /\ Fairness

-----------------------------------------------------------------------------
(* Properties.                                                             *)

Slots == {"live", "stale"}

\* What an attempt may hold at each place.
Attempt ==
    [pc : {"none"}]
        \union [pc : {"next"}, index : Nat]
        \union [pc : {"terminate", "start"}, index : Nat, base : Nat, signals : Nat]
        \union [pc : {"replay"}, index : Nat, run : Nat, signals : Nat]

TypeOK ==
    /\ TripTypeOK
    /\ phase \in {"listing", "recovering", "panicked", "completed", "failed"}
    /\ listed \in Seq(Trips)
    /\ cached \in BOOLEAN
    /\ batch \in [BatchIds -> [state : {"running", "done", "failed"},
                              attempts : 0..MaxAttempts,
                              heartbeat : Nat \union {NoHeartbeat}]]
    /\ work \in [BatchIds -> [Slots -> Attempt]]
    /\ recovered \subseteq 0..(Count - 1)
    /\ late \subseteq Trips

Working(b, s) == ~At(b, s, "none")
OnTrip(b, s) == work[b][s].pc \in {"terminate", "start", "replay"}

\* The batches are those of the list, which has each trip once, and attempts
\* stay within them; the server waits for an attempt of running batches only.
ShapeOK ==
    /\ phase = "listing" => Count = 0
    /\ BatchIds = 0..(Workers(Count) - 1)
    /\ \A i, j \in 1..Count : listed[i] = listed[j] => i = j
    /\ \A b \in BatchIds :
        /\ Working(b, "live") => batch[b].state = "running"
        /\ batch[b].state = "running" => batch[b].attempts < MaxAttempts
        /\ batch[b].heartbeat # NoHeartbeat =>
              batch[b].heartbeat \in BatchRange(Count, b)
        /\ \A s \in Slots :
            /\ Working(b, s) => StartIndex(Count, b) <= work[b][s].index
            /\ OnTrip(b, s) => work[b][s].index \in BatchRange(Count, b)

\* A run is replayed to by the attempt that started it alone, which has no
\* more signals left than the senders sent.
ReplaysOwnRun ==
    \A b \in BatchIds, s \in Slots :
        /\ work[b][s].pc \in {"terminate", "start"} =>
              work[b][s].base + work[b][s].signals <= sent[Target(b, s)]
        /\ At(b, s, "replay") =>
              LET t == Target(b, s) IN
              /\ work[b][s].run <= trip[t].run
              /\ work[b][s].run = trip[t].run =>
                    trip[t].base + trip[t].hist + work[b][s].signals <= sent[t]
              /\ \A c \in BatchIds, u \in Slots :
                    At(c, u, "replay") /\ Target(c, u) = t /\ work[c][u].run = work[b][s].run
                        => c = b /\ u = s

\* What an attempt has left behind, and what a heartbeat reports, is recovered.
ProgressIsRecovered ==
    \A b \in BatchIds : \A i \in BatchRange(Count, b) :
        (\/ batch[b].state = "done"
         \/ i <= batch[b].heartbeat
         \/ Working(b, "live") /\ i < work[b]["live"].index) => i \in recovered

\* A closed trip that no stale attempt terminated is one the batch has yet to
\* get to, or to start again, in the attempt the server knows or in the one
\* that resumes from the heartbeat.
ClosedIsAhead ==
    /\ \A b \in BatchIds :
        Working(b, "live") => batch[b].heartbeat < work[b]["live"].index
    /\ \A i \in 0..(Count - 1) :
        ~trip[listed[i + 1]].open /\ listed[i + 1] \notin late =>
            \E b \in BatchIds :
                /\ i \in BatchRange(Count, b)
                /\ \/ batch[b].state = "failed"
                   \/ /\ batch[b].state = "running"
                      /\ batch[b].heartbeat < i
                      /\ Working(b, "live") => work[b]["live"].index <= i
                      /\ At(b, "live", "replay") => work[b]["live"].index < i

RecoveryIInv == TypeOK /\ ShapeOK /\ NeverOvercounts /\ ReplaysOwnRun /\ ProgressIsRecovered

\* An activity that reported success has recovered every execution of its
\* batch, whatever attempts it took and wherever they resumed; together the
\* batches are the whole list.
DoneIsRecovered ==
    /\ \A b \in BatchIds :
        batch[b].state = "done" => BatchRange(Count, b) \subseteq recovered
    /\ phase # "listing" =>
        0..(Count - 1) \subseteq UNION {BatchRange(Count, b) : b \in BatchIds}

\* A trip that recovery terminated is started again: while it is closed, the
\* batch that holds it is being worked on or has failed.  Only an attempt that
\* the server had given up on can close a trip of a batch that is done.
TerminatedIsPending ==
    \A i \in 0..(Count - 1) :
        ~trip[listed[i + 1]].open =>
            \/ listed[i + 1] \in late
            \/ \E b \in BatchIds :
                  i \in BatchRange(Count, b) /\ batch[b].state # "done"

\* recovery/README.md:3: recovery will "replay all signals from previous run":
\* when a trip's recovery is over, no signal its senders sent is missing.
AllSignalsReplayed ==
    \A i \in 0..(Count - 1) :
        (phase = "completed" /\ \A b \in BatchIds : batch[b].state = "done")
            => trip[listed[i + 1]].base + trip[listed[i + 1]].hist
                    = sent[listed[i + 1]]

\* recovery/README.md:2: recovery is "designed to restart all TripWorkflow
\* executions which are currently outstanding": however many there are, it
\* completes, or fails when it cannot list them.
RecoveryEnds == phase = "listing" ~> phase \in {"completed", "failed"}

\* The recovery workflow comes to an end once it has listed executions.
EventuallyCompletes == phase = "recovering" ~> phase = "completed"
=============================================================================
