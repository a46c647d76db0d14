---------------------------- MODULE RetryActivity ----------------------------
(***************************************************************************)
(* batchProcessingActivity of recipes/retryactivity (and its copy in       *)
(* new_samples/retryactivity): an activity that fails after a third of its *)
(* tasks and resumes, in the next attempt of its retry policy, from the    *)
(* progress that it reported.  A report is sent in the background and may  *)
(* be lost with the worker.                                                *)
(***************************************************************************)
EXTENDS Naturals

CONSTANTS
    BatchSizes,  \* the sizes of a batch to consider
    MaxLosses    \* bound of the crashes and of the reports that are lost

MaximumAttempts == 5
firstTaskID == 0

ASSUME RetryAssumption == BatchSizes \subseteq Nat \ {0} /\ MaxLosses \in Nat

VARIABLES
    batchSize,
    attempt,    \* the number of the attempt
    task,       \* i: the next task of the attempt
    inAttempt,  \* taskProcessedInThisAttempt
    reported,   \* the task after the one in the heartbeat details, 0 without
    processed,  \* how often each task was processed
    outcome,    \* running, backing off, success or failure of the activity
    expired,    \* no attempt could start within ExpirationInterval any more
    losses

retryVars ==
    <<batchSize, attempt, task, inAttempt, reported, processed, outcome, expired, losses>>

TaskIDs == firstTaskID..(firstTaskID + batchSize - 1)

RetryInit ==
    /\ batchSize \in BatchSizes
    /\ attempt = 1
    /\ task = firstTaskID
    /\ inAttempt = 0
    /\ reported = firstTaskID
    /\ processed = [i \in TaskIDs |-> 0]
    /\ outcome = "running"
    /\ expired = FALSE
    /\ losses = 0

-----------------------------------------------------------------------------
\* A third of the batch is done, and the last task is not.
SimulatesFailure ==
    /\ inAttempt + 1 >= batchSize \div 3
    /\ task < firstTaskID + batchSize - 1

\* The retry policy: MaximumAttempts attempts, with some time between them, and
\* none that would start after ExpirationInterval.
EndAttempt ==
    outcome' = IF attempt < MaximumAttempts /\ ~expired THEN "backoff" ELSE "failure"

\* The five minutes are over, or the next back-off would take longer than what
\* is left of them.  What runs or was promised a retry is not affected.
ExpirationInterval ==
    /\ outcome \in {"running", "backoff"}
    /\ ~expired
    /\ expired' = TRUE
    /\ UNCHANGED <<batchSize, attempt, task, inAttempt, reported, processed, outcome, losses>>

\* One round of the loop.  The report reaches the server, or is lost.
ProcessTask ==
    /\ outcome = "running"
    /\ task \in TaskIDs
    /\ processed' = [processed EXCEPT ![task] = @ + 1]
    /\ task' = task + 1
    /\ inAttempt' = inAttempt + 1
    /\ \/ reported' = task + 1 /\ UNCHANGED losses
       \/ losses < MaxLosses /\ losses' = losses + 1 /\ UNCHANGED reported
    /\ IF SimulatesFailure THEN EndAttempt ELSE UNCHANGED outcome
    /\ UNCHANGED <<batchSize, attempt, expired>>

\* The loop is over.
ReturnNil ==
    /\ outcome = "running"
    /\ task \notin TaskIDs
    /\ outcome' = "success"
    /\ UNCHANGED <<batchSize, attempt, task, inAttempt, reported, processed, expired, losses>>

\* The worker dies: the heartbeat timeout ends the attempt.
WorkerDies ==
    /\ outcome = "running"
    /\ losses < MaxLosses
    /\ losses' = losses + 1
    /\ EndAttempt
    /\ UNCHANGED <<batchSize, attempt, task, inAttempt, reported, processed, expired>>

\* Mutant of RetryAttempt: the attempt begins with the task that was reported.
RetryFromReported ==
    /\ outcome = "backoff"
    /\ attempt' = attempt + 1
    /\ task' = IF reported > firstTaskID THEN reported - 1 ELSE reported
    /\ inAttempt' = 0
    /\ outcome' = "running"
    /\ UNCHANGED <<batchSize, reported, processed, expired, losses>>

\* Mutant of RetryAttempt: the attempt skips the task after the reported one.
RetryBeyond ==
    /\ outcome = "backoff"
    /\ attempt' = attempt + 1
    /\ task' = IF reported < firstTaskID + batchSize THEN reported + 1 ELSE reported
    /\ inAttempt' = 0
    /\ outcome' = "running"
    /\ UNCHANGED <<batchSize, reported, processed, expired, losses>>

\* The next attempt begins behind the reported progress.
RetryAttempt ==
    /\ outcome = "backoff"
    /\ attempt' = attempt + 1
    /\ task' = reported
    /\ inAttempt' = 0
    /\ outcome' = "running"
    /\ UNCHANGED <<batchSize, reported, processed, expired, losses>>

RetryNext == ProcessTask \/ ReturnNil \/ WorkerDies \/ ExpirationInterval \/ RetryAttempt

RetrySpec == RetryInit /\ [][RetryNext]_retryVars

-----------------------------------------------------------------------------
RetryTypeOK ==
    /\ batchSize \in BatchSizes
    /\ attempt \in 1..MaximumAttempts
    /\ task \in firstTaskID..(firstTaskID + batchSize)
    /\ inAttempt \in 0..batchSize
    /\ reported \in firstTaskID..(firstTaskID + batchSize)
    /\ processed \in [TaskIDs -> Nat]
    /\ outcome \in {"running", "backoff", "success", "failure"}
    /\ expired \in BOOLEAN
    /\ losses \in 0..MaxLosses

\* Every task before the one that comes next was processed, and every task
\* before the one that a retry would resume from.
NothingSkipped ==
    /\ reported <= task
    /\ \A i \in TaskIDs : i < task => processed[i] >= 1

\* The activity succeeds only when every task of the batch was processed,
\* through whatever crashes, lost reports and retries.
SuccessMeansAll == outcome = "success" => \A i \in TaskIDs : processed[i] >= 1

\* The five attempts of the policy suffice for a batch of any size: if no report
\* is lost and no worker dies, no task is processed twice, and the activity
\* fails for one reason only, that the batch takes longer than the policy's
\* ExpirationInterval.
AttemptsSuffice ==
    losses = 0 =>
        /\ outcome = "failure" => expired
        /\ \A i \in TaskIDs : processed[i] <= 1

RetryIInv == RetryTypeOK /\ NothingSkipped /\ SuccessMeansAll
=============================================================================
