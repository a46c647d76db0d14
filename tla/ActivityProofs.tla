---------------------------- MODULE ActivityProofs ----------------------------
(* Proofs about the two samples whose activities are retried.               *)
(*                                                                          *)
(* RetryActivity: a success means that the whole batch was processed, and   *)
(* the attempts of the policy suffice for a batch of any size.              *)
(*                                                                          *)
(* FileProcessing, for any hosts and any number of attempts and faults:     *)
(* only a processed file is uploaded, and temporary files are left behind   *)
(* for the faults and the lost rounds only, one for each.                   *)
EXTENDS RetryActivity, FileProcessing, FiniteSetTheorems, TLAPS

-----------------------------------------------------------------------------
(* RetryActivity: the inductive invariants.                                 *)

\* An attempt that ended has a successor, and no attempt has processed more
\* tasks than come before its next one.
AttemptsAreBounded ==
    /\ outcome = "backoff" => attempt < MaximumAttempts
    /\ inAttempt <= task

ProgressIInv == RetryIInv /\ AttemptsAreBounded

\* The tasks of an attempt that is not the last one.
Third == IF batchSize \div 3 = 0 THEN 1 ELSE batchSize \div 3

\* While nothing is lost: the attempts before this one processed a third each,
\* and what was processed is what was reported.
Steady ==
    /\ reported = task
    /\ task = (attempt - 1) * Third + inAttempt
    /\ outcome = "running" /\ task < batchSize => inAttempt < Third
    /\ outcome = "backoff" => inAttempt = Third
    /\ outcome = "failure" => expired
    /\ \A i \in TaskIDs : processed[i] = IF i < task THEN 1 ELSE 0

SteadyIInv == ProgressIInv /\ (losses = 0 => Steady)

-----------------------------------------------------------------------------
(* What a third is: five of them are more than the batch.                   *)
LEMMA ThirdBounds ==
    ASSUME batchSize \in Nat \ {0}
    PROVE  /\ Third \in Nat \ {0}
           /\ Third >= batchSize \div 3
           /\ \A n \in Nat : n + 1 >= batchSize \div 3 => n + 1 >= Third
           /\ ~(5 * Third < batchSize)
  <1> DEFINE q == batchSize \div 3
  <1>1. q \in Nat /\ batchSize <= 3 * q + 2
    BY SMT
  <1>2. Third = IF q = 0 THEN 1 ELSE q
    BY DEF Third
  <1> HIDE DEF q
  <1>3. /\ Third \in Nat \ {0}
        /\ Third >= q
        /\ \A n \in Nat : n + 1 >= q => n + 1 >= Third
        /\ ~(5 * Third < batchSize)
    BY <1>1, <1>2, SMT
  <1> QED
    BY <1>3 DEF q

LEMMA NextMultiple ==
    ASSUME NEW a \in 1..4, NEW q \in Nat
    PROVE  (a - 1) * q + q = ((a + 1) - 1) * q
  <1>1. CASE a = 1  BY <1>1
  <1>2. CASE a = 2  BY <1>2
  <1>3. CASE a = 3  BY <1>3
  <1>4. CASE a = 4  BY <1>4
  <1> QED  BY <1>1, <1>2, <1>3, <1>4

-----------------------------------------------------------------------------
(* The progress that is reported is real.                                   *)

LEMMA RetryInitInv == RetryInit => ProgressIInv
  <1> SUFFICES ASSUME RetryInit PROVE ProgressIInv
    OBVIOUS
  <1> USE RetryAssumption DEF RetryInit, TaskIDs, firstTaskID, MaximumAttempts
  <1>1. RetryTypeOK
    <2>1. batchSize \in BatchSizes /\ batchSize \in Nat \ {0} /\ losses \in 0..MaxLosses
      OBVIOUS
    <2>2. processed \in [TaskIDs -> Nat] /\ expired \in BOOLEAN
      OBVIOUS
    <2> QED  BY <2>1, <2>2 DEF RetryTypeOK
  <1>2. NothingSkipped /\ SuccessMeansAll /\ AttemptsAreBounded
    BY DEF NothingSkipped, SuccessMeansAll, AttemptsAreBounded
  <1> QED  BY <1>1, <1>2 DEF ProgressIInv, RetryIInv

LEMMA RetryStepInv == ProgressIInv /\ [RetryNext]_retryVars => ProgressIInv'
  <1> SUFFICES ASSUME ProgressIInv, [RetryNext]_retryVars PROVE ProgressIInv'
    OBVIOUS
  <1> USE RetryAssumption DEF ProgressIInv, RetryIInv, RetryTypeOK, TaskIDs, firstTaskID,
          MaximumAttempts
  <1>1. CASE ProcessTask
    <2>1. /\ task < batchSize /\ task' = task + 1 /\ inAttempt' = inAttempt + 1
          /\ attempt' = attempt /\ batchSize' = batchSize
          /\ processed' = [processed EXCEPT ![task] = @ + 1]
          /\ reported' \in {reported, task + 1}
          /\ losses' \in 0..MaxLosses
          /\ outcome' \in {"running", "backoff", "failure"}
          /\ outcome' = "backoff" => attempt < 5
          /\ expired' = expired
      BY <1>1 DEF ProcessTask, EndAttempt
    <2>2. RetryTypeOK' /\ AttemptsAreBounded'
      BY <2>1 DEF AttemptsAreBounded
    <2>3. NothingSkipped'
      BY <2>1 DEF NothingSkipped
    <2>4. SuccessMeansAll'
      BY <2>1 DEF SuccessMeansAll
    <2> QED  BY <2>2, <2>3, <2>4
  <1>2. CASE ReturnNil
    <2>1. RetryTypeOK' /\ AttemptsAreBounded' /\ NothingSkipped'
      BY <1>2 DEF ReturnNil, AttemptsAreBounded, NothingSkipped
    <2>2. task >= batchSize
      BY <1>2 DEF ReturnNil
    <2>3. SuccessMeansAll'
      BY <1>2, <2>2 DEF ReturnNil, SuccessMeansAll, NothingSkipped
    <2> QED  BY <2>1, <2>3
  <1>3. CASE WorkerDies
    BY <1>3 DEF WorkerDies, EndAttempt, AttemptsAreBounded, NothingSkipped, SuccessMeansAll
  <1>4. CASE RetryAttempt
    BY <1>4 DEF RetryAttempt, AttemptsAreBounded, NothingSkipped, SuccessMeansAll
  <1>5. CASE ExpirationInterval
    BY <1>5 DEF ExpirationInterval, AttemptsAreBounded, NothingSkipped, SuccessMeansAll
  <1>6. CASE UNCHANGED retryVars
    BY <1>6 DEF retryVars, AttemptsAreBounded, NothingSkipped, SuccessMeansAll
  <1> QED  BY <1>1, <1>2, <1>3, <1>4, <1>5, <1>6 DEF RetryNext

\* For batches of any size and any number of crashes and lost reports: no
\* retry resumes beyond a task that was not processed, and the activity
\* succeeds only with the whole batch.
THEOREM ProgressIsReal == RetrySpec => []RetryIInv
  <1>1. ProgressIInv => RetryIInv
    BY DEF ProgressIInv
  <1> QED  BY <1>1, RetryInitInv, RetryStepInv, PTL DEF RetrySpec

-----------------------------------------------------------------------------
(* The attempts of the policy suffice.                                      *)

LEMMA SteadyInit == RetryInit => SteadyIInv
  <1> SUFFICES ASSUME RetryInit PROVE Steady
    BY RetryInitInv DEF SteadyIInv
  <1>1. batchSize \in Nat \ {0}
    BY RetryAssumption DEF RetryInit
  <1>2. Third \in Nat \ {0}
    BY <1>1, ThirdBounds
  <1> QED
    BY <1>1, <1>2 DEF RetryInit, Steady, TaskIDs, firstTaskID

LEMMA SteadyStep == SteadyIInv /\ [RetryNext]_retryVars => SteadyIInv'
  <1> SUFFICES ASSUME SteadyIInv, [RetryNext]_retryVars, losses' = 0 PROVE Steady'
    BY RetryStepInv DEF SteadyIInv
  <1> USE DEF TaskIDs, firstTaskID, MaximumAttempts
  <1>1. /\ batchSize \in Nat \ {0} /\ attempt \in 1..5 /\ task \in 0..batchSize
        /\ inAttempt \in 0..batchSize /\ losses \in Nat
        /\ processed \in [0..(batchSize - 1) -> Nat]
        /\ outcome = "backoff" => attempt < 5
    BY RetryAssumption
       DEF SteadyIInv, ProgressIInv, RetryIInv, RetryTypeOK, AttemptsAreBounded
  <1>2. batchSize' = batchSize /\ Third' = Third
    BY DEF RetryNext, ProcessTask, ReturnNil, WorkerDies, ExpirationInterval, RetryAttempt,
           retryVars, Third
  <1>3. losses = 0 /\ Steady
    BY <1>1 DEF RetryNext, ProcessTask, ReturnNil, WorkerDies, ExpirationInterval,
                RetryAttempt, retryVars, SteadyIInv
  <1>9. /\ Third \in Nat \ {0} /\ ~(5 * Third < batchSize)
        /\ inAttempt + 1 >= batchSize \div 3 => inAttempt + 1 >= Third
        /\ inAttempt + 1 >= Third => inAttempt + 1 >= batchSize \div 3
    <2> DEFINE q == batchSize \div 3
    <2>1. q \in Nat
      BY <1>1
    <2>2. /\ Third \in Nat \ {0} /\ Third >= q /\ ~(5 * Third < batchSize)
          /\ \A n \in Nat : n + 1 >= q => n + 1 >= Third
      BY <1>1, ThirdBounds
    <2>3. inAttempt \in Nat
      BY <1>1
    <2> HIDE DEF q
    <2>4. /\ inAttempt + 1 >= q => inAttempt + 1 >= Third
          /\ inAttempt + 1 >= Third => inAttempt + 1 >= q
      BY <2>1, <2>2, <2>3
    <2> QED  BY <2>2, <2>4 DEF q
  <1>4. CASE ProcessTask
    <2>1. /\ outcome = "running" /\ task < batchSize /\ attempt' = attempt
          /\ processed' = [processed EXCEPT ![task] = @ + 1]
          /\ task' = task + 1 /\ inAttempt' = inAttempt + 1 /\ reported' = task + 1
      BY <1>1, <1>3, <1>4 DEF ProcessTask
    <2>2. inAttempt < Third /\ task = (attempt - 1) * Third + inAttempt
      BY <1>3, <2>1 DEF Steady
    <2>3. \A i \in TaskIDs' : processed'[i] = IF i < task' THEN 1 ELSE 0
      BY <1>1, <1>2, <1>3, <2>1 DEF Steady
    <2>4. task' = (attempt' - 1) * Third' + inAttempt'
      <3> DEFINE p == (attempt - 1) * Third
      <3>1. p \in Nat
        BY <1>1, <1>9
      <3>2. task = p + inAttempt
        BY <2>2
      <3> HIDE DEF p
      <3>3. task + 1 = p + (inAttempt + 1)
        BY <1>1, <3>1, <3>2
      <3> QED  BY <1>2, <2>1, <3>3 DEF p
    <2>9. reported' = task'
      BY <2>1
    <2>5. CASE SimulatesFailure
      <3>1. inAttempt + 1 >= batchSize \div 3 /\ task < batchSize - 1
        BY <1>1, <2>5 DEF SimulatesFailure
      <3>2. inAttempt + 1 = Third
        BY <1>1, <1>9, <2>2, <3>1
      <3>3. attempt # 5
        <4>1. ASSUME attempt = 5 PROVE FALSE
          <5>1. task = 4 * Third + inAttempt
            BY <2>2, <4>1
          <5> QED  BY <1>1, <1>9, <3>1, <3>2, <5>1
        <4> QED  BY <4>1
      <3>4. attempt < 5
        BY <1>1, <3>3
      <3>5. expired' = expired /\ outcome' = IF expired THEN "failure" ELSE "backoff"
        BY <1>1, <1>4, <2>5, <3>4 DEF ProcessTask, EndAttempt, SteadyIInv, ProgressIInv,
           RetryIInv, RetryTypeOK
      <3>6. outcome' = "backoff" => inAttempt' = Third'
        BY <1>2, <2>1, <3>2
      <3>7. (outcome' = "failure" => expired') /\ outcome' # "running"
        BY <3>5
      <3> QED
        BY <2>9, <2>3, <2>4, <3>6, <3>7 DEF Steady
    <2>6. CASE ~SimulatesFailure
      <3>1. outcome' = "running"
        BY <1>4, <2>1, <2>6 DEF ProcessTask
      <3>2. task' < batchSize' => inAttempt' < Third'
        <4>1. SUFFICES ASSUME task' < batchSize' PROVE inAttempt + 1 < Third
          BY <1>2, <2>1
        <4>2. ~(inAttempt + 1 >= batchSize \div 3)
          BY <1>1, <1>2, <2>1, <2>6, <4>1 DEF SimulatesFailure
        <4> QED  BY <1>1, <1>9, <4>2
      <3>3. outcome' # "failure" /\ outcome' # "backoff"
        BY <3>1
      <3> QED
        BY <2>9, <2>3, <2>4, <3>2, <3>3 DEF Steady
    <2> QED  BY <2>5, <2>6
  <1>5. CASE ReturnNil
    BY <1>2, <1>3, <1>5 DEF ReturnNil, Steady
  <1>6. CASE WorkerDies
    BY <1>1, <1>3, <1>6 DEF WorkerDies
  <1>7. CASE RetryAttempt
    <2>1. /\ attempt' = attempt + 1 /\ task' = task /\ inAttempt' = 0 /\ reported' = task
          /\ outcome' = "running" /\ processed' = processed
          /\ task = (attempt - 1) * Third + Third
      BY <1>3, <1>7 DEF RetryAttempt, Steady
    <2>2. Third \in Nat \ {0}
      BY <1>9
    <2>3. attempt \in 1..4
      <3>1. attempt < 5
        BY <1>1, <1>7 DEF RetryAttempt
      <3> QED  BY <1>1, <3>1
    <2>4. (attempt - 1) * Third + Third = ((attempt + 1) - 1) * Third
      BY <2>2, <2>3, NextMultiple
    <2>5. task' = (attempt' - 1) * Third' + inAttempt'
      <3>1. ((attempt + 1) - 1) * Third \in Nat
        BY <2>2, <2>3
      <3> QED  BY <1>2, <2>1, <2>4, <3>1
    <2>6. task' < batchSize' => inAttempt' < Third'
      BY <1>2, <2>1, <2>2
    <2> QED
      BY <1>2, <1>3, <2>1, <2>5, <2>6 DEF Steady
  <1>8. CASE ExpirationInterval
    BY <1>2, <1>3, <1>8 DEF ExpirationInterval, Steady
  <1>10. CASE UNCHANGED retryVars
    BY <1>2, <1>3, <1>10 DEF retryVars, Steady
  <1> QED  BY <1>4, <1>5, <1>6, <1>7, <1>8, <1>10 DEF RetryNext

\* For batches of any size: if no report is lost and no worker dies, no task is
\* processed twice, and the activity fails only if ExpirationInterval leaves no
\* time for a retry, never because the policy's five attempts are used up.
THEOREM AttemptsAlwaysSuffice == RetrySpec => []AttemptsSuffice
  <1>1. SteadyIInv => AttemptsSuffice
    <2> SUFFICES ASSUME SteadyIInv, losses = 0
                 PROVE  /\ outcome = "failure" => expired
                        /\ \A i \in TaskIDs : processed[i] <= 1
      BY DEF AttemptsSuffice
    <2>1. Steady
      BY DEF SteadyIInv
    <2>2. ASSUME NEW i \in TaskIDs PROVE processed[i] <= 1
      <3>1. processed[i] = 0 \/ processed[i] = 1
        BY <2>1 DEF Steady
      <3> QED  BY <3>1
    <2> QED  BY <2>1, <2>2 DEF Steady
  <1> QED  BY <1>1, SteadyInit, SteadyStep, PTL DEF RetrySpec

-----------------------------------------------------------------------------
(* FileProcessing: the inductive invariant.                                 *)

\* The workflow is in a session only while it runs.
SessionIsOpen ==
    session # NoSession =>
        /\ fileRun = "running"
        /\ session.host \in Hosts
        /\ session.at \in {"download", "process", "upload"}

\* No two attempts have the same number, and an attempt has written its file
\* when it ends.
NumbersAreFresh ==
    /\ session.waiting <= attempts
    /\ session.fInfo <= attempts
    /\ \A a \in running :
        /\ a.n <= attempts
        /\ a.fInfo <= attempts
        /\ \A b \in running : a.n = b.n => a = b
        /\ \A f \in disk : f.by # a.n
    /\ \A f \in disk : f.by <= attempts

\* The file by attempt n is a processed one, and is written if it ever is.
IsProcessed(n) ==
    /\ \A a \in running : a.n # n
    /\ \A f \in disk : f.by = n => f.content = "DATA"

\* What is uploaded, or will be, is such a file.
UploadsOfProcessed ==
    /\ session.at = "upload" => IsProcessed(session.fInfo)
    /\ \A a \in running :
        a.at = "upload" => a.data \in {"none", "DATA"} /\ IsProcessed(a.fInfo)

\* An attempt reads, and will remove, the file that it was given; the file that
\* the workflow was given, if any, belongs to the session.
Reads(a, f) == a.at = "process" /\ a.host = f.host /\ a.fInfo = f.by
OfSession(f) == f.host = session.host /\ f.by = session.fInfo

\* The attempt that the workflow waits for works for the session, and a session
\* starts without a file; nobody writes two.
SessionMatches ==
    /\ session.at \in {"none", "download"} => session.fInfo = 0
    /\ \A a \in running : a.n = session.waiting =>
          /\ a.host = session.host /\ a.fInfo = session.fInfo
          /\ a.at = session.at /\ session # NoSession
    /\ \A f, g \in disk : f.by = g.by => f = g

\* What somebody has to answer for: the files that belong neither to the session
\* nor to an attempt that processes them, and the attempts that may still write
\* one without being waited for.
Loose == {f \in disk : ~OfSession(f) /\ \A a \in running : ~Reads(a, f)}
Writers == {a \in running : a.at \in {"download", "process"} /\ a.n # session.waiting}
Debt == {f.by : f \in Loose} \union {a.n : a \in Writers}
DebtIsAccounted == Cardinality(Debt) <= faults + RoundsLost

FileIInv ==
    /\ FileTypeOK
    /\ SessionIsOpen
    /\ NumbersAreFresh
    /\ UploadsOfProcessed
    /\ UploadedIsProcessed
    /\ SessionMatches
    /\ DebtIsAccounted

SessionRecord == [host : Hosts \union {"none"}, at : Activity, fInfo : 0..MaxAttempts,
                  waiting : 0..MaxAttempts]
AttemptRecord == [n : 1..MaxAttempts, host : Hosts, at : Activity, fInfo : 0..MaxAttempts,
                  data : Contents \union {"none"}]
FileRecord == [host : Hosts, by : 1..MaxAttempts, content : Contents]

LEMMA FileInitInv == FileInit => FileIInv
  <1> SUFFICES ASSUME FileInit PROVE FileIInv
    OBVIOUS
  <1> USE FileAssumption DEF FileInit, NoSession
  <1>1. FileTypeOK
    BY DEF FileTypeOK, Activity
  <1>2. SessionIsOpen /\ NumbersAreFresh
    BY DEF SessionIsOpen, NumbersAreFresh
  <1>3. UploadsOfProcessed /\ UploadedIsProcessed /\ SessionMatches
    BY DEF UploadsOfProcessed, UploadedIsProcessed, SessionMatches
  <1>4. DebtIsAccounted
    <2>1. Debt = {} /\ RoundsLost = 0 /\ faults = 0
      BY DEF Debt, Loose, Writers, RoundsLost
    <2> QED  BY <2>1, FS_EmptySet DEF DebtIsAccounted
  <1> QED  BY <1>1, <1>2, <1>3, <1>4 DEF FileIInv

\* A round that ends leaves no session, and is one more that was lost.
LEMMA RoundEnds ==
    ASSUME round \in 1..4, NextRound
    PROVE  /\ session' = NoSession
           /\ round' \in 1..4
           /\ fileRun' \in {fileRun, "failed"}
           /\ fileRun = "running" => RoundsLost' = RoundsLost + 1
  BY DEF NextRound, RoundsLost

\* The session after an attempt that failed, and after one that succeeded.
LEMMA ErrorReturns ==
    ASSUME FileTypeOK, SessionIsOpen, NEW a \in running, ReturnError(a)
    PROVE  /\ running' = running \ {a} /\ UNCHANGED <<fileRun, round>>
           /\ session' \in SessionRecord
           /\ session'.host = session.host /\ session'.at = session.at
           /\ session'.fInfo = session.fInfo
           /\ session'.waiting = IF session.waiting = a.n THEN 0 ELSE session.waiting
           /\ session = NoSession => session' = NoSession
  <1>1. session \in SessionRecord
    BY DEF FileTypeOK, SessionRecord
  <1>2. a.n # 0
    BY DEF FileTypeOK
  <1>3. session' = IF session.waiting = a.n THEN [session EXCEPT !.waiting = 0] ELSE session
    BY DEF ReturnError
  <1>4. 0 \in 0..MaxAttempts
    BY FileAssumption
  <1> QED  BY <1>1, <1>2, <1>3, <1>4 DEF ReturnError, SessionRecord, NoSession

LEMMA ResultReturns ==
    ASSUME FileTypeOK, SessionIsOpen, NEW a \in running,
           NEW next \in {"process", "upload"}, ReturnResult(a, next)
    PROVE  /\ running' = running \ {a} /\ UNCHANGED <<fileRun, round>>
           /\ session' \in SessionRecord
           /\ session'.host = session.host
           /\ session.waiting # a.n => session' = session
           /\ session.waiting = a.n => /\ session # NoSession
                                       /\ session'.at = next /\ session'.fInfo = a.n
                                       /\ session'.waiting = 0
  <1>1. session \in SessionRecord /\ a \in AttemptRecord
    BY DEF FileTypeOK, SessionRecord, AttemptRecord
  <1>2. a.n \in 0..MaxAttempts /\ a.n # 0 /\ 0 \in 0..MaxAttempts
    BY <1>1, FileAssumption DEF AttemptRecord
  <1>3. session' = IF session.waiting = a.n
                   THEN [session EXCEPT !.at = next, !.fInfo = a.n, !.waiting = 0]
                   ELSE session
    BY DEF ReturnResult
  <1>4. session.waiting = a.n => session # NoSession
    BY <1>2 DEF NoSession
  <1>5. next \in Activity
    BY DEF Activity
  <1> QED  BY <1>1, <1>2, <1>3, <1>4, <1>5 DEF ReturnResult, SessionRecord

\* Every step is one of these.
LEMMA FileCases ==
    ASSUME FileNext
    PROVE  \/ \E h \in Hosts : CreateSession(h)
           \/ \E h \in Hosts : HostCrash(h)
           \/ CreationTimeout \/ SessionTimeout
           \/ StartAttempt
           \/ HeartbeatTimeout
           \/ \E a \in running : downloadFileActivity(a)
           \/ \E a \in running : ReadFile(a)
           \/ \E a \in running : processFileActivity(a)
           \/ \E a \in running : uploadFileActivity(a)
  BY DEF FileNext

LEMMA StepTypes ==
    ASSUME FileTypeOK, SessionIsOpen, [FileNext]_fileVars
    PROVE  FileTypeOK' /\ SessionIsOpen'
  <1>1. /\ session \in SessionRecord /\ running \subseteq AttemptRecord
        /\ disk \subseteq FileRecord
        /\ round \in 1..4 /\ uploads \subseteq Contents /\ attempts \in 0..MaxAttempts
        /\ faults \in 0..MaxFaults
        /\ fileRun \in {"running", "completed", "failed"}
    BY DEF FileTypeOK, SessionRecord, AttemptRecord, FileRecord
  <1>2. MaxAttempts \in Nat /\ MaxFaults \in Nat
    BY FileAssumption
  <1>3. NoSession \in SessionRecord
    BY <1>2 DEF NoSession, SessionRecord, Activity
  <1>4. Fault => faults' \in 0..MaxFaults
    BY <1>1, <1>2 DEF Fault
  <1>5. SUFFICES /\ session' \in SessionRecord /\ running' \subseteq AttemptRecord
                 /\ disk' \subseteq FileRecord
                 /\ round' \in 1..4 /\ uploads' \subseteq Contents /\ attempts' \in 0..MaxAttempts
                 /\ faults' \in 0..MaxFaults
                 /\ fileRun' \in {"running", "completed", "failed"}
                 /\ SessionIsOpen'
    BY DEF FileTypeOK, SessionRecord, AttemptRecord, FileRecord
  <1>6. CASE UNCHANGED fileVars
    BY <1>1, <1>6 DEF fileVars, SessionIsOpen
  <1>7. ASSUME NEW h \in Hosts, CreateSession(h)
        PROVE  /\ session' \in SessionRecord /\ SessionIsOpen'
               /\ UNCHANGED <<fileRun, round, running, disk, uploads, attempts, faults>>
    <2>1. session' = [host |-> h, at |-> "download", fInfo |-> 0, waiting |-> 0]
      BY <1>7 DEF CreateSession, NoSession
    <2> QED  BY <1>2, <1>7, <2>1 DEF CreateSession, SessionRecord, SessionIsOpen, Activity
  <1>8. NextRound => /\ session' \in SessionRecord /\ round' \in 1..4 /\ SessionIsOpen'
                     /\ fileRun' \in {"running", "completed", "failed"}
    BY <1>1, <1>3, RoundEnds DEF SessionIsOpen
  <1>9. ASSUME NEW h \in Hosts, HostCrash(h)
        PROVE  /\ session' \in SessionRecord /\ SessionIsOpen' /\ round' \in 1..4
               /\ fileRun' \in {"running", "completed", "failed"}
               /\ running' \subseteq running /\ faults' \in 0..MaxFaults
               /\ UNCHANGED <<disk, uploads, attempts>>
    BY <1>1, <1>4, <1>8, <1>9 DEF HostCrash, SessionIsOpen
  <1>10. CASE CreationTimeout \/ SessionTimeout
    BY <1>1, <1>8, <1>10 DEF CreationTimeout, SessionTimeout
  <1>11. CASE StartAttempt
    <2>1. attempts + 1 \in 1..MaxAttempts
      BY <1>1, <1>2, <1>11 DEF StartAttempt
    <2>2. [n |-> attempts + 1, host |-> session.host, at |-> session.at,
           fInfo |-> session.fInfo, data |-> "none"] \in AttemptRecord
      BY <1>1, <1>11, <2>1 DEF StartAttempt, SessionIsOpen, AttemptRecord, SessionRecord
    <2>3. /\ session' = [session EXCEPT !.waiting = attempts + 1]
          /\ attempts + 1 \in 0..MaxAttempts
      BY <1>11, <2>1 DEF StartAttempt
    <2>4. session' \in SessionRecord /\ session'.host = session.host /\ session'.at = session.at
      BY <1>1, <2>3 DEF SessionRecord
    <2>5. SessionIsOpen'
      BY <1>11, <2>4 DEF StartAttempt, SessionIsOpen
    <2> QED  BY <1>1, <1>11, <2>2, <2>3, <2>4, <2>5 DEF StartAttempt
  <1>12. CASE HeartbeatTimeout
    <2>1. /\ session' = [session EXCEPT !.waiting = 0] /\ 0 \in 0..MaxAttempts
          /\ session # NoSession
      BY <1>2, <1>12 DEF HeartbeatTimeout, NoSession
    <2>2. session' \in SessionRecord /\ session'.host = session.host /\ session'.at = session.at
      BY <1>1, <2>1 DEF SessionRecord
    <2>3. SessionIsOpen'
      BY <1>12, <2>1, <2>2 DEF HeartbeatTimeout, SessionIsOpen
    <2> QED  BY <1>1, <1>4, <1>12, <2>2, <2>3 DEF HeartbeatTimeout
  <1>13. ASSUME NEW a \in running, ReturnError(a)
         PROVE  session' \in SessionRecord /\ SessionIsOpen' /\ running' \subseteq running
                /\ UNCHANGED <<fileRun, round>>
    BY <1>13, ErrorReturns DEF SessionIsOpen
  <1>14. ASSUME NEW a \in running, NEW next \in {"process", "upload"}, ReturnResult(a, next)
         PROVE  session' \in SessionRecord /\ SessionIsOpen' /\ running' \subseteq running
                /\ UNCHANGED <<fileRun, round>>
    BY <1>14, ResultReturns DEF SessionIsOpen
  <1>15. ASSUME NEW a \in running, NEW data \in Contents
         PROVE  Saved(a, data) \subseteq FileRecord
    BY <1>1 DEF Saved, FileRecord, AttemptRecord
  <1>16. ASSUME NEW a \in running, downloadFileActivity(a)
         PROVE  /\ session' \in SessionRecord /\ SessionIsOpen' /\ running' \subseteq running
                /\ disk' \subseteq FileRecord /\ faults' \in 0..MaxFaults
                /\ UNCHANGED <<fileRun, round, uploads, attempts>>
    <2>1. "data" \in Contents
      BY DEF Contents
    <2> QED  BY <1>1, <1>4, <1>13, <1>14, <1>15, <1>16, <2>1 DEF downloadFileActivity
  <1>17. ASSUME NEW a \in running, ReadFile(a)
         PROVE  /\ session' \in SessionRecord /\ SessionIsOpen' /\ running' \subseteq AttemptRecord
                /\ UNCHANGED <<fileRun, round, disk, uploads, attempts, faults>>
    <2>1. CASE ReturnError(a)
      BY <1>1, <1>13, <1>17, <2>1 DEF ReadFile
    <2>2. CASE ~ReturnError(a)
      <3>1. PICK f \in FileOf(a) :
               /\ running' = (running \ {a}) \union {[a EXCEPT !.data = f.content]}
               /\ UNCHANGED <<session, fileRun, round>>
        BY <1>17, <2>2 DEF ReadFile
      <3>2. f.content \in Contents
        BY <1>1 DEF FileOf, FileRecord
      <3>3. [a EXCEPT !.data = f.content] \in AttemptRecord
        BY <1>1, <3>2 DEF AttemptRecord
      <3> QED  BY <1>1, <1>17, <3>1, <3>3 DEF ReadFile, SessionIsOpen
    <2> QED  BY <2>1, <2>2
  <1>18. ASSUME NEW a \in running, processFileActivity(a)
         PROVE  /\ session' \in SessionRecord /\ SessionIsOpen' /\ running' \subseteq running
                /\ disk' \subseteq FileRecord /\ faults' \in 0..MaxFaults
                /\ UNCHANGED <<fileRun, round, uploads, attempts>>
    <2>1. transcoded(a.data) \in Contents
      BY <1>1, <1>18 DEF processFileActivity, transcoded, AttemptRecord, Contents
    <2>2. Removed(a) \subseteq FileRecord
      BY <1>1 DEF Removed
    <2> QED  BY <1>1, <1>4, <1>13, <1>14, <1>15, <1>18, <2>1, <2>2 DEF processFileActivity
  <1>19. ASSUME NEW a \in running, uploadFileActivity(a)
         PROVE  /\ session' \in SessionRecord /\ SessionIsOpen' /\ running' \subseteq running
                /\ disk' \subseteq FileRecord /\ uploads' \subseteq Contents
                /\ fileRun' \in {"running", "completed", "failed"}
                /\ UNCHANGED <<round, attempts, faults>>
    <2>1. a.data \in Contents
      BY <1>1, <1>19 DEF uploadFileActivity, AttemptRecord
    <2>2. session' \in SessionRecord /\ SessionIsOpen'
          /\ fileRun' \in {"running", "completed", "failed"}
      BY <1>1, <1>3, <1>19 DEF uploadFileActivity, SessionIsOpen
    <2> QED  BY <1>1, <1>19, <2>1, <2>2 DEF uploadFileActivity, Removed
  <1>20. CASE FileNext
    BY <1>1, <1>7, <1>9, <1>10, <1>11, <1>12, <1>16, <1>17, <1>18, <1>19, <1>20, FileCases
  <1> QED  BY <1>6, <1>20

\* The numbers and names that are compared.
LEMMA FileNumbers ==
    ASSUME FileTypeOK
    PROVE  /\ attempts \in Nat /\ session.waiting \in Nat /\ session.fInfo \in Nat
           /\ \A a \in running : a \in AttemptRecord /\ a.n \in Nat \ {0} /\ a.fInfo \in Nat
           /\ \A f \in disk : f \in FileRecord /\ f.by \in Nat \ {0}
  BY FileAssumption DEF FileTypeOK, AttemptRecord, FileRecord

\* Attempts end, or what they read is known, and those that end write files.
Settles ==
    /\ attempts' = attempts
    /\ \A b \in running' :
          \E a \in running : b.n = a.n /\ b.fInfo = a.fInfo /\ b.at = a.at /\ b.host = a.host
    /\ \A b, c \in running' : b.n = c.n => b = c
    /\ \A f \in disk' : f \in disk \/ \E a \in running : /\ f.by = a.n
                                                        /\ \A b \in running' : b.n # a.n
    /\ session'.waiting \in {0, session.waiting}
    /\ session'.fInfo \in {0, session.fInfo} \/ \E a \in running : session'.fInfo = a.n

LEMMA StepSettles ==
    ASSUME FileTypeOK, SessionIsOpen, NumbersAreFresh, FileNext
    PROVE  StartAttempt \/ Settles
  <1>1. ASSUME UNCHANGED attempts, running' \subseteq running, disk' = disk,
               session' = NoSession \/ UNCHANGED session
        PROVE  Settles
    BY <1>1 DEF Settles, NumbersAreFresh, NoSession
  <1>2. ASSUME UNCHANGED attempts, NEW a \in running, running' = running \ {a},
               \A f \in disk' : f \in disk \/ f.by = a.n,
               session'.waiting \in {0, session.waiting},
               session'.fInfo \in {0, session.fInfo, a.n}
        PROVE  Settles
    <2>1. \A b \in running' : b \in running /\ b.n # a.n
      BY <1>2 DEF NumbersAreFresh
    <2> QED  BY <1>2, <2>1 DEF Settles, NumbersAreFresh
  <1>3. ASSUME NEW h \in Hosts, CreateSession(h)
        PROVE  Settles
    BY <1>3 DEF CreateSession, NoSession, Settles, NumbersAreFresh
  <1>4. ASSUME NextRound PROVE session' = NoSession
    BY <1>4 DEF NextRound
  <1>5. ASSUME NEW h \in Hosts, HostCrash(h)
        PROVE  Settles
    BY <1>1, <1>4, <1>5 DEF HostCrash
  <1>6. CASE CreationTimeout \/ SessionTimeout
    BY <1>1, <1>4, <1>6 DEF CreationTimeout, SessionTimeout
  <1>7. CASE HeartbeatTimeout
    <2>1. session'.waiting = 0 /\ session'.fInfo = session.fInfo
      BY <1>7 DEF HeartbeatTimeout, FileTypeOK
    <2> QED  BY <1>7, <2>1 DEF HeartbeatTimeout, Settles, NumbersAreFresh
  <1>8. ASSUME NEW a \in running, ReturnError(a), UNCHANGED attempts, disk' \subseteq disk
        PROVE  Settles
    BY <1>2, <1>8, ErrorReturns
  <1>9. ASSUME NEW a \in running, NEW next \in {"process", "upload"}, ReturnResult(a, next),
               UNCHANGED attempts, \A f \in disk' : f \in disk \/ f.by = a.n
        PROVE  Settles
    BY <1>2, <1>9, ResultReturns
  <1>10. ASSUME NEW a \in running, downloadFileActivity(a)
         PROVE  Settles
    BY <1>8, <1>9, <1>10 DEF downloadFileActivity, Saved
  <1>11. ASSUME NEW a \in running, processFileActivity(a)
         PROVE  Settles
    BY <1>8, <1>9, <1>11 DEF processFileActivity, Saved, Removed
  <1>12. ASSUME NEW a \in running, uploadFileActivity(a)
         PROVE  Settles
    <2>1. session' = NoSession \/ session' = session
      BY <1>12 DEF uploadFileActivity
    <2> QED  BY <1>2, <1>12, <2>1 DEF uploadFileActivity, Removed, NoSession
  <1>13. ASSUME NEW a \in running, ReadFile(a)
         PROVE  Settles
    <2>1. CASE ReturnError(a)
      BY <1>8, <1>13, <2>1 DEF ReadFile
    <2>2. CASE ~ReturnError(a)
      <3>1. PICK f \in FileOf(a) :
               /\ running' = (running \ {a}) \union {[a EXCEPT !.data = f.content]}
               /\ UNCHANGED <<session, disk, attempts>>
        BY <1>13, <2>2 DEF ReadFile
      <3> DEFINE b == [a EXCEPT !.data = f.content]
      <3>2. b.n = a.n /\ b.fInfo = a.fInfo /\ b.at = a.at /\ b.host = a.host
        BY FileNumbers DEF AttemptRecord
      <3> HIDE DEF b
      <3>3. running' = (running \ {a}) \union {b}
        BY <3>1 DEF b
      <3>4. \A c \in running \ {a} : c.n # a.n
        BY DEF NumbersAreFresh
      <3> QED  BY <3>1, <3>2, <3>3, <3>4 DEF Settles, NumbersAreFresh
    <2> QED  BY <2>1, <2>2
  <1> QED  BY <1>3, <1>5, <1>6, <1>7, <1>10, <1>11, <1>12, <1>13, FileCases

\* An attempt that starts has a number of its own.
LEMMA StartEffect ==
    ASSUME FileTypeOK, StartAttempt
    PROVE  /\ attempts' = attempts + 1 /\ disk' = disk
           /\ running' = running \union
                {[n |-> attempts + 1, host |-> session.host, at |-> session.at,
                  fInfo |-> session.fInfo, data |-> "none"]}
           /\ session'.waiting = attempts + 1 /\ session'.fInfo = session.fInfo
           /\ session'.at = session.at /\ session'.host = session.host
           /\ UNCHANGED <<fileRun, round, uploads, faults>>
  BY DEF StartAttempt, FileTypeOK

LEMMA StepNumbers ==
    ASSUME FileTypeOK, SessionIsOpen, NumbersAreFresh, [FileNext]_fileVars
    PROVE  NumbersAreFresh'
  <1>1. CASE Settles
    <2>1. /\ session'.waiting <= attempts /\ session'.fInfo <= attempts
      BY <1>1, FileNumbers DEF Settles, NumbersAreFresh
    <2>2. ASSUME NEW f \in disk' PROVE f.by <= attempts
      BY <1>1 DEF Settles, NumbersAreFresh
    <2>3. ASSUME NEW b \in running'
          PROVE  /\ b.n <= attempts /\ b.fInfo <= attempts
                 /\ \A c \in running' : b.n = c.n => b = c
                 /\ \A f \in disk' : f.by # b.n
      BY <1>1 DEF Settles, NumbersAreFresh
    <2>4. attempts' = attempts
      BY <1>1 DEF Settles
    <2> QED  BY <2>1, <2>2, <2>3, <2>4 DEF NumbersAreFresh
  <1>2. CASE StartAttempt
    <2> DEFINE new == [n |-> attempts + 1, host |-> session.host, at |-> session.at,
                       fInfo |-> session.fInfo, data |-> "none"]
    <2>1. /\ attempts' = attempts + 1 /\ disk' = disk /\ running' = running \union {new}
          /\ session'.waiting = attempts + 1 /\ session'.fInfo = session.fInfo
      BY <1>2, StartEffect
    <2>2. new.n = attempts + 1 /\ new.fInfo = session.fInfo
      OBVIOUS
    <2> HIDE DEF new
    <2>3. \A m \in Nat : m <= attempts => m <= attempts + 1 /\ m # attempts + 1
      BY FileNumbers
    <2> QED  BY <2>1, <2>2, <2>3, FileNumbers DEF NumbersAreFresh
  <1>3. CASE UNCHANGED fileVars
    BY <1>3 DEF fileVars, NumbersAreFresh
  <1> QED  BY <1>1, <1>2, <1>3, StepSettles

\* A file that was processed is not written again.
LEMMA ProcessedStays ==
    ASSUME FileTypeOK, SessionIsOpen, NumbersAreFresh, FileNext,
           NEW n \in Nat, n <= attempts, IsProcessed(n)
    PROVE  IsProcessed(n)'
  <1>1. CASE Settles
    BY <1>1 DEF Settles, IsProcessed
  <1>2. CASE StartAttempt
    <2>1. n # attempts + 1
      BY FileNumbers
    <2> QED  BY <1>2, <2>1, StartEffect DEF IsProcessed
  <1> QED  BY <1>1, <1>2, StepSettles

LEMMA StepUploads ==
    ASSUME FileTypeOK, SessionIsOpen, NumbersAreFresh, UploadsOfProcessed, UploadedIsProcessed,
           [FileNext]_fileVars
    PROVE  UploadsOfProcessed' /\ UploadedIsProcessed'
  <1>1. CASE UNCHANGED fileVars
    BY <1>1 DEF fileVars, UploadsOfProcessed, UploadedIsProcessed, IsProcessed
  <1> SUFFICES ASSUME FileNext PROVE UploadsOfProcessed' /\ UploadedIsProcessed'
    BY <1>1
  <1>2. /\ session.fInfo \in Nat /\ session.fInfo <= attempts
        /\ \A a \in running : a.fInfo \in Nat /\ a.fInfo <= attempts
    BY FileNumbers DEF NumbersAreFresh
  <1>3. /\ session.at = "upload" => \A n : n = session.fInfo => IsProcessed(n)'
        /\ \A a \in running : a.at = "upload" =>
              a.data \in {"none", "DATA"} /\ IsProcessed(a.fInfo)'
    BY <1>2, ProcessedStays DEF UploadsOfProcessed
  <1>4. ASSUME \/ session' = NoSession
               \/ session'.at = "download"
               \/ /\ session'.at = session.at
                  /\ session'.fInfo = session.fInfo,
               \A b \in running' : b.at = "upload" =>
                  /\ b.data \in {"none", "DATA"}
                  /\ \/ b.fInfo = session.fInfo /\ session.at = "upload"
                     \/ \E a \in running : b.fInfo = a.fInfo /\ a.at = "upload"
        PROVE  UploadsOfProcessed'
    BY <1>3, <1>4 DEF UploadsOfProcessed, NoSession
  <1>5. ASSUME UNCHANGED uploads, fileRun' \in {fileRun, "failed"}
        PROVE  UploadedIsProcessed'
    BY <1>5 DEF UploadedIsProcessed
  <1>6. ASSUME running' \subseteq running
        PROVE  \A b \in running' : b.at = "upload" =>
                  /\ b.data \in {"none", "DATA"}
                  /\ \E a \in running : b.fInfo = a.fInfo /\ a.at = "upload"
    BY <1>6 DEF UploadsOfProcessed
  <1>7. NextRound => session' = NoSession /\ fileRun' \in {fileRun, "failed"}
    BY DEF NextRound
  <1>8. ASSUME NEW h \in Hosts, CreateSession(h)
        PROVE  UploadsOfProcessed' /\ UploadedIsProcessed'
    BY <1>4, <1>5, <1>6, <1>8 DEF CreateSession, NoSession
  <1>9. ASSUME NEW h \in Hosts, HostCrash(h)
        PROVE  UploadsOfProcessed' /\ UploadedIsProcessed'
    BY <1>4, <1>5, <1>6, <1>7, <1>9 DEF HostCrash
  <1>10. CASE CreationTimeout \/ SessionTimeout
    BY <1>4, <1>5, <1>6, <1>7, <1>10 DEF CreationTimeout, SessionTimeout
  <1>11. CASE HeartbeatTimeout
    <2>1. session'.at = session.at /\ session'.fInfo = session.fInfo
      BY <1>11 DEF HeartbeatTimeout, FileTypeOK
    <2> QED  BY <1>4, <1>5, <1>6, <1>11, <2>1 DEF HeartbeatTimeout
  <1>12. CASE StartAttempt
    <2> DEFINE new == [n |-> attempts + 1, host |-> session.host, at |-> session.at,
                       fInfo |-> session.fInfo, data |-> "none"]
    <2>1. /\ session'.at = session.at /\ session'.fInfo = session.fInfo
          /\ running' = running \union {new} /\ UNCHANGED <<uploads, fileRun>>
      BY <1>12, StartEffect
    <2>2. new.at = session.at /\ new.fInfo = session.fInfo /\ new.data = "none"
      OBVIOUS
    <2> HIDE DEF new
    <2> QED  BY <1>4, <1>5, <2>1, <2>2 DEF UploadsOfProcessed
  <1>13. ASSUME NEW a \in running, ReturnError(a), UNCHANGED uploads
         PROVE  UploadsOfProcessed' /\ UploadedIsProcessed'
    BY <1>4, <1>5, <1>6, <1>13, ErrorReturns
  <1>14. ASSUME NEW a \in running, NEW next \in {"process", "upload"}, ReturnResult(a, next),
                UNCHANGED uploads, next = "upload" => IsProcessed(a.n)'
         PROVE  UploadsOfProcessed' /\ UploadedIsProcessed'
    <2>1. /\ running' \subseteq running /\ UNCHANGED fileRun
          /\ \/ session' = session
             \/ /\ session'.at = next
                /\ session'.fInfo = a.n
      BY <1>14, ResultReturns
    <2>2. session'.at = "upload" => \A n : n = session'.fInfo => IsProcessed(n)'
      BY <1>3, <1>14, <2>1
    <2> QED  BY <1>3, <1>5, <1>6, <1>14, <2>1, <2>2 DEF UploadsOfProcessed
  <1>15. ASSUME NEW a \in running, downloadFileActivity(a)
         PROVE  UploadsOfProcessed' /\ UploadedIsProcessed'
    BY <1>13, <1>14, <1>15 DEF downloadFileActivity
  <1>16. ASSUME NEW a \in running, processFileActivity(a)
         PROVE  UploadsOfProcessed' /\ UploadedIsProcessed'
    <2>1. CASE ReturnError(a)
      BY <1>13, <1>16, <2>1 DEF processFileActivity
    <2>2. CASE disk' = Removed(a) \union Saved(a, transcoded(a.data)) /\ ReturnResult(a, "upload")
      <3>1. transcoded(a.data) = "DATA"
        BY <1>16, FileNumbers DEF processFileActivity, transcoded, AttemptRecord, Contents
      <3>2. \A b \in running' : b.n # a.n
        BY <2>2 DEF ReturnResult, NumbersAreFresh
      <3>3. \A f \in disk' : f.by = a.n => f.content = "DATA"
        BY <2>2, <3>1 DEF Removed, Saved, NumbersAreFresh
      <3> QED  BY <1>14, <1>16, <2>2, <3>2, <3>3 DEF IsProcessed, processFileActivity
    <2> QED  BY <1>16, <2>1, <2>2 DEF processFileActivity
  <1>17. ASSUME NEW a \in running, uploadFileActivity(a)
         PROVE  UploadsOfProcessed' /\ UploadedIsProcessed'
    <2>1. a.data = "DATA"
      BY <1>17 DEF uploadFileActivity, UploadsOfProcessed
    <2>2. /\ uploads' = uploads \union {"DATA"} /\ running' \subseteq running
          /\ session' = NoSession \/ session' = session
      BY <1>17, <2>1 DEF uploadFileActivity
    <2> QED  BY <1>4, <1>6, <2>2 DEF UploadedIsProcessed
  <1>18. ASSUME NEW a \in running, ReadFile(a)
         PROVE  UploadsOfProcessed' /\ UploadedIsProcessed'
    <2>1. CASE ReturnError(a)
      BY <1>13, <1>18, <2>1 DEF ReadFile
    <2>2. CASE ~ReturnError(a)
      <3>1. PICK f \in FileOf(a) :
               /\ running' = (running \ {a}) \union {[a EXCEPT !.data = f.content]}
               /\ UNCHANGED <<session, fileRun, uploads>>
        BY <1>18, <2>2 DEF ReadFile
      <3> DEFINE b == [a EXCEPT !.data = f.content]
      <3>2. b.fInfo = a.fInfo /\ b.at = a.at /\ b.data = f.content
        BY FileNumbers DEF AttemptRecord
      <3> HIDE DEF b
      <3>3. running' = (running \ {a}) \union {b}
        BY <3>1 DEF b
      <3>4. a.at = "upload" => f.content = "DATA"
        BY DEF FileOf, UploadsOfProcessed, IsProcessed
      <3>5. \A c \in running' : c.at = "upload" =>
               /\ c.data \in {"none", "DATA"}
               /\ \E d \in running : c.fInfo = d.fInfo /\ d.at = "upload"
        BY <3>2, <3>3, <3>4 DEF UploadsOfProcessed
      <3> QED  BY <1>4, <1>5, <3>1, <3>5
    <2> QED  BY <2>1, <2>2
  <1> QED
    BY <1>8, <1>9, <1>10, <1>11, <1>12, <1>15, <1>16, <1>17, <1>18, FileCases

\* The session and the files stay with their attempts.
LEMMA StepMatches ==
    ASSUME FileTypeOK, SessionIsOpen, NumbersAreFresh, SessionMatches, [FileNext]_fileVars
    PROVE  SessionMatches'
  <1>1. CASE UNCHANGED fileVars
    BY <1>1 DEF fileVars, SessionMatches
  <1> SUFFICES ASSUME FileNext PROVE SessionMatches'
    BY <1>1
  <1>2. ASSUME session' = NoSession, running' \subseteq running,
               \A f, g \in disk' : f.by = g.by => f = g
        PROVE  SessionMatches'
    <2>1. \A a \in running' : a.n # session'.waiting
      BY <1>2, FileNumbers DEF NoSession
    <2> QED  BY <1>2, <2>1 DEF SessionMatches, NoSession
  <1>3. ASSUME NEW h \in Hosts, CreateSession(h)
        PROVE  SessionMatches'
    <2>1. \A a \in running' : a.n # session'.waiting
      BY <1>3, FileNumbers DEF CreateSession, NoSession
    <2> QED  BY <1>3, <2>1 DEF CreateSession, NoSession, SessionMatches
  <1>4. ASSUME UNCHANGED <<session, disk>>, running' \subseteq running
        PROVE  SessionMatches'
    BY <1>4 DEF SessionMatches
  <1>5. NextRound => session' = NoSession
    BY DEF NextRound
  <1>6. ASSUME NEW h \in Hosts, HostCrash(h)
        PROVE  SessionMatches'
    BY <1>2, <1>4, <1>5, <1>6 DEF HostCrash, SessionMatches
  <1>7. CASE CreationTimeout \/ SessionTimeout
    BY <1>2, <1>5, <1>7 DEF CreationTimeout, SessionTimeout, SessionMatches
  <1>8. CASE StartAttempt
    <2> DEFINE new == [n |-> attempts + 1, host |-> session.host, at |-> session.at,
                       fInfo |-> session.fInfo, data |-> "none"]
    <2>1. /\ running' = running \union {new} /\ disk' = disk
          /\ session'.waiting = attempts + 1 /\ session'.fInfo = session.fInfo
          /\ session'.at = session.at /\ session'.host = session.host
      BY <1>8, StartEffect
    <2>2. /\ new.host = session.host /\ new.at = session.at /\ new.fInfo = session.fInfo
      OBVIOUS
    <2> HIDE DEF new
    <2>3. \A a \in running : a.n # attempts + 1
      BY FileNumbers DEF NumbersAreFresh
    <2>4. session'.waiting # 0
      BY <2>1, FileNumbers
    <2> QED  BY <2>1, <2>2, <2>3, <2>4 DEF SessionMatches, NoSession
  <1>9. ASSUME session' \in SessionRecord, session'.waiting = 0, running' \subseteq running,
               session'.at \in {"none", "download"} => session'.fInfo = 0,
               \A f, g \in disk' : f.by = g.by => f = g
        PROVE  SessionMatches'
    BY <1>9, FileNumbers DEF SessionMatches
  <1>10. CASE HeartbeatTimeout
    <2>1. /\ session' \in SessionRecord /\ session'.waiting = 0
          /\ session'.at = session.at /\ session'.fInfo = session.fInfo
      BY <1>10, FileAssumption DEF HeartbeatTimeout, FileTypeOK, SessionRecord
    <2> QED  BY <1>9, <1>10, <2>1 DEF HeartbeatTimeout, SessionMatches
  \* An attempt that ends writes its own file only.
  <1>11. ASSUME NEW a \in running, \A f \in disk' : f \in disk \/ f.by = a.n,
                \A f, g \in disk' : f.by = a.n /\ g.by = a.n => f = g
         PROVE  \A f, g \in disk' : f.by = g.by => f = g
    BY <1>11 DEF SessionMatches, NumbersAreFresh
  <1>12. ASSUME NEW a \in running, ReturnError(a), \A f, g \in disk' : f.by = g.by => f = g
         PROVE  SessionMatches'
    <2>1. /\ running' = running \ {a} /\ session' \in SessionRecord
          /\ session'.host = session.host /\ session'.at = session.at
          /\ session'.fInfo = session.fInfo
          /\ session'.waiting = IF session.waiting = a.n THEN 0 ELSE session.waiting
      BY <1>12, ErrorReturns
    <2>2. CASE session.waiting = a.n
      BY <1>9, <1>12, <2>1, <2>2 DEF SessionMatches
    <2>3. CASE session.waiting # a.n
      <3>1. session' = session
        BY <1>12, <2>3 DEF ReturnError
      <3> QED  BY <1>12, <2>1, <3>1 DEF SessionMatches
    <2> QED  BY <2>2, <2>3
  <1>13. ASSUME NEW a \in running, NEW next \in {"process", "upload"}, ReturnResult(a, next),
                \A f, g \in disk' : f.by = g.by => f = g
         PROVE  SessionMatches'
    <2>1. /\ running' = running \ {a} /\ session' \in SessionRecord
          /\ session.waiting # a.n => session' = session
          /\ session.waiting = a.n => session'.at = next /\ session'.waiting = 0
      BY <1>13, ResultReturns
    <2>2. CASE session.waiting = a.n
      BY <1>9, <1>13, <2>1, <2>2
    <2>3. CASE session.waiting # a.n
      BY <1>13, <2>1, <2>3 DEF SessionMatches
    <2> QED  BY <2>2, <2>3
  <1>14. ASSUME NEW a \in running, NEW c
         PROVE  \A f, g \in Saved(a, c) : f.by = a.n /\ f = g
    BY DEF Saved
  <1>15. ASSUME NEW a \in running, downloadFileActivity(a)
         PROVE  SessionMatches'
    <2>1. disk' = disk \/ disk' = disk \union Saved(a, "data")
      BY <1>15 DEF downloadFileActivity
    <2>2. \A f, g \in disk' : f.by = g.by => f = g
      BY <1>11, <1>14, <2>1 DEF NumbersAreFresh
    <2> QED  BY <1>12, <1>13, <1>15, <2>2 DEF downloadFileActivity
  <1>16. ASSUME NEW a \in running, processFileActivity(a)
         PROVE  SessionMatches'
    <2>1. disk' = Removed(a) \/ disk' = Removed(a) \union Saved(a, transcoded(a.data))
      BY <1>16 DEF processFileActivity
    <2>2. \A f, g \in disk' : f.by = g.by => f = g
      BY <1>11, <1>14, <2>1 DEF NumbersAreFresh, Removed
    <2> QED  BY <1>12, <1>13, <1>16, <2>2 DEF processFileActivity
  <1>17. ASSUME NEW a \in running, uploadFileActivity(a)
         PROVE  SessionMatches'
    <2>1. /\ running' \subseteq running /\ disk' \subseteq disk
          /\ session' = NoSession \/ session' = session
      BY <1>17 DEF uploadFileActivity, Removed
    <2> QED  BY <1>2, <2>1 DEF SessionMatches
  <1>18. ASSUME NEW a \in running, ReadFile(a)
         PROVE  SessionMatches'
    <2>1. CASE ReturnError(a)
      BY <1>12, <1>18, <2>1 DEF ReadFile, SessionMatches
    <2>2. CASE ~ReturnError(a)
      <3>1. PICK f \in FileOf(a) :
               /\ running' = (running \ {a}) \union {[a EXCEPT !.data = f.content]}
               /\ UNCHANGED <<session, disk>>
        BY <1>18, <2>2 DEF ReadFile
      <3> DEFINE b == [a EXCEPT !.data = f.content]
      <3>2. b.n = a.n /\ b.fInfo = a.fInfo /\ b.at = a.at /\ b.host = a.host
        BY FileNumbers DEF AttemptRecord
      <3> HIDE DEF b
      <3>3. running' = (running \ {a}) \union {b}
        BY <3>1 DEF b
      <3> QED  BY <3>1, <3>2, <3>3 DEF SessionMatches
    <2> QED  BY <2>1, <2>2
  <1> QED
    BY <1>3, <1>6, <1>7, <1>8, <1>10, <1>15, <1>16, <1>17, <1>18, FileCases

\* Sets of numbers of attempts are finite.
LEMMA FiniteNumbers ==
    ASSUME NEW S, S \subseteq 1..MaxAttempts
    PROVE  IsFiniteSet(S) /\ Cardinality(S) \in Nat
  <1>1. IsFiniteSet(1..MaxAttempts)
    BY FS_Interval, FileAssumption
  <1> QED  BY <1>1, FS_Subset, FS_CardinalityType

LEMMA DebtIsFinite ==
    /\ FileTypeOK => IsFiniteSet(Debt) /\ Cardinality(Debt) \in Nat
    /\ FileTypeOK' => IsFiniteSet(Debt') /\ Cardinality(Debt') \in Nat
  <1>1. FileTypeOK => Debt \subseteq 1..MaxAttempts
    BY DEF Debt, Loose, Writers, FileTypeOK
  <1>2. FileTypeOK' => Debt' \subseteq 1..MaxAttempts
    BY DEF Debt, Loose, Writers, FileTypeOK
  <1> HIDE DEF Debt
  <1> QED  BY <1>1, <1>2, FiniteNumbers

LEMMA RoundNumbers ==
    /\ FileTypeOK => faults \in Nat /\ round \in 1..4 /\ RoundsLost \in Nat
    /\ FileTypeOK' => faults' \in Nat /\ round' \in 1..4 /\ RoundsLost' \in Nat
  <1>1. FileTypeOK => faults \in 0..MaxFaults /\ round \in 1..4
    BY DEF FileTypeOK
  <1>2. FileTypeOK' => faults' \in 0..MaxFaults /\ round' \in 1..4
    BY DEF FileTypeOK
  <1> QED  BY <1>1, <1>2, FileAssumption DEF RoundsLost

\* One set is at most as large as another that it is mapped into.
LEMMA Injected ==
    ASSUME NEW S, NEW T, IsFiniteSet(T), NEW f \in [S -> T],
           \A x, y \in S : f[x] = f[y] => x = y
    PROVE  /\ IsFiniteSet(S) /\ Cardinality(S) <= Cardinality(T)
           /\ Cardinality(S) \in Nat /\ Cardinality(T) \in Nat
  <1>1. f \in Injection(S, T)
    BY DEF Injection, IsInjective
  <1> QED  BY <1>1, FS_Injection, FS_CardinalityType

LEMMA AddedAtMostOne ==
    ASSUME NEW S, NEW x, IsFiniteSet(S)
    PROVE  /\ IsFiniteSet(S \union {x}) /\ Cardinality(S) \in Nat
           /\ Cardinality(S \union {x}) <= Cardinality(S) + 1
           /\ Cardinality(S \union {x}) \in Nat
  <1>1. /\ IsFiniteSet(S \union {x}) /\ Cardinality(S) \in Nat
        /\ Cardinality(S \union {x}) = IF x \in S THEN Cardinality(S) ELSE Cardinality(S) + 1
    BY FS_AddElement, FS_CardinalityType
  <1> QED  BY <1>1

\* One more that is answered for by one more fault or lost round.
LEMMA OneMore ==
    ASSUME FileTypeOK, FileTypeOK', DebtIsAccounted, NEW x, Debt' \subseteq Debt \union {x},
           faults' + RoundsLost' >= faults + RoundsLost + 1
    PROVE  DebtIsAccounted'
  <1>1. /\ IsFiniteSet(Debt \union {x}) /\ Cardinality(Debt) \in Nat
        /\ Cardinality(Debt \union {x}) <= Cardinality(Debt) + 1
        /\ Cardinality(Debt \union {x}) \in Nat
    BY DebtIsFinite, AddedAtMostOne
  <1>2. Cardinality(Debt') <= Cardinality(Debt \union {x}) /\ Cardinality(Debt') \in Nat
    BY <1>1, DebtIsFinite, FS_Subset
  <1> HIDE DEF Debt
  <1> QED  BY <1>1, <1>2, RoundNumbers DEF DebtIsAccounted

LEMMA NoneMore ==
    ASSUME FileTypeOK, FileTypeOK', DebtIsAccounted, Debt' \subseteq Debt,
           faults' + RoundsLost' >= faults + RoundsLost
    PROVE  DebtIsAccounted'
  <1>1. /\ Cardinality(Debt') <= Cardinality(Debt)
        /\ Cardinality(Debt) \in Nat /\ Cardinality(Debt') \in Nat
    BY DebtIsFinite, FS_Subset
  <1> QED  BY <1>1, RoundNumbers DEF DebtIsAccounted

\* An attempt ends, alone.  The file it was given is removed or was not there;
\* the file that it wrote is the session's, or it was counted as a writer.
LEMMA AttemptEnds ==
    ASSUME FileTypeOK, NumbersAreFresh, NEW a \in running, running' = running \ {a},
           session'.waiting = session.waiting \/ session.waiting = a.n,
           \A f \in disk' :
              \/ f \in disk /\ ~Reads(a, f) /\ (OfSession(f) => OfSession(f)')
              \/ f.by = a.n /\ (OfSession(f)' \/ a \in Writers)
    PROVE  Debt' \subseteq Debt
  <1>1. ASSUME NEW f \in Loose' PROVE f.by \in Debt
    <2>1. f \in disk' /\ ~OfSession(f)' /\ \A b \in running \ {a} : ~Reads(b, f)
      BY <1>1 DEF Loose
    <2>2. CASE f.by = a.n /\ a \in Writers
      BY <2>2 DEF Debt
    <2>3. CASE f \in disk /\ ~Reads(a, f) /\ ~OfSession(f)
      BY <2>1, <2>3 DEF Loose, Debt
    <2> QED  BY <2>1, <2>2, <2>3
  <1>2. ASSUME NEW b \in Writers' PROVE b.n \in Debt
    <2>1. b \in running \ {a} /\ b.at \in {"download", "process"} /\ b.n # session'.waiting
      BY <1>2 DEF Writers
    <2>2. b.n # a.n
      BY <2>1 DEF NumbersAreFresh
    <2> QED  BY <2>1, <2>2 DEF Writers, Debt
  <1> QED  BY <1>1, <1>2 DEF Debt

\* The round of a session ends: its file, or else the attempt that was to remove
\* it or to write the first one, is what the round is charged for.
LEMMA RoundDebt ==
    ASSUME FileTypeOK, SessionIsOpen, SessionMatches, session' = NoSession,
           UNCHANGED <<running, disk>>
    PROVE  \E x : Debt' \subseteq Debt \union {x}
  <1> DEFINE x == IF \E a \in running : a.n = session.waiting /\ a.at \in {"download", "process"}
                  THEN session.waiting ELSE session.fInfo
  <1>1. ASSUME NEW f \in Loose' PROVE f.by \in Debt \union {x}
    <2>1. f \in disk /\ \A a \in running : ~Reads(a, f)
      BY <1>1 DEF Loose
    <2>2. CASE ~OfSession(f)
      BY <2>1, <2>2 DEF Loose, Debt
    <2>3. CASE OfSession(f)
      <3>1. \A a \in running : a.n = session.waiting => a.at \notin {"download", "process"}
        BY <2>1, <2>3, FileNumbers DEF SessionMatches, OfSession, Reads
      <3> QED  BY <2>3, <3>1 DEF OfSession
    <2> QED  BY <2>2, <2>3
  <1>2. ASSUME NEW a \in Writers' PROVE a.n \in Debt \union {x}
    <2>1. a \in running /\ a.at \in {"download", "process"}
      BY <1>2 DEF Writers
    <2> QED  BY <2>1 DEF Writers, Debt
  <1>3. Debt' \subseteq Debt \union {x}
    BY <1>1, <1>2 DEF Debt
  <1> QED  BY <1>3

\* A host crashes.  A file that loses the attempts which processed it takes the
\* place of one of them; the session's file, if it was there, is one more.
LEMMA CrashDebt ==
    ASSUME FileTypeOK, NumbersAreFresh, SessionMatches, NEW h,
           running' = {a \in running : a.host # h}, UNCHANGED disk,
           session' = IF session.host = h THEN NoSession ELSE session
    PROVE  Cardinality(Debt') <= Cardinality(Debt) + 1
  <1> DEFINE D == Debt' \ {session.fInfo}
             Killed(x) == CHOOSE a \in Writers : a.host = h /\ a.fInfo = x /\ a.at = "process"
             g == [x \in D |-> IF x \in Debt THEN x ELSE Killed(x).n]
  <1>1. ASSUME NEW x \in D, x \notin Debt
        PROVE  /\ Killed(x) \in Writers /\ Killed(x).fInfo = x
               /\ Killed(x).n \in Debt /\ Killed(x).n \notin Debt'
    <2>1. ASSUME NEW b \in Writers' PROVE b \in Writers
      BY <2>1, FileNumbers DEF Writers, SessionMatches, NoSession
    <2>2. \A b \in Writers : b.n \in Debt
      BY DEF Debt
    <2>3. PICK f \in Loose' : f.by = x
      BY <1>1, <2>1, <2>2 DEF Debt
    <2>4. f \in disk /\ f.by = x /\ f.by # session.fInfo
      BY <2>3 DEF Loose
    <2>5. f \notin Loose /\ ~OfSession(f)
      BY <1>1, <2>4 DEF Debt, OfSession
    <2>6. PICK a \in running : Reads(a, f)
      BY <2>4, <2>5 DEF Loose
    <2>7. a \notin running'
      BY <2>3, <2>6 DEF Loose, Reads
    <2>8. a \in Writers /\ a.host = h /\ a.fInfo = x /\ a.at = "process"
      BY <2>4, <2>6, <2>7 DEF Reads, Writers, SessionMatches
    <2>9. Killed(x) \in Writers /\ Killed(x).fInfo = x /\ Killed(x).host = h
      BY <2>8
    <2> HIDE DEF Killed
    <2>10. Killed(x).n \notin Debt'
      <3>1. Killed(x) \in running /\ Killed(x) \notin running'
        BY <2>9 DEF Writers
      <3>2. \A b \in running' : b.n # Killed(x).n
        BY <3>1 DEF NumbersAreFresh
      <3>3. \A e \in disk' : e.by # Killed(x).n
        BY <3>1 DEF NumbersAreFresh
      <3> QED  BY <3>2, <3>3 DEF Debt, Loose, Writers
    <2> QED  BY <2>2, <2>9, <2>10
  <1> HIDE DEF Killed
  <1>2. g \in [D -> Debt]
    BY <1>1
  <1>3. ASSUME NEW x \in D, NEW y \in D, g[x] = g[y] PROVE x = y
    <2>1. CASE x \in Debt /\ y \in Debt
      BY <1>3, <2>1
    <2>2. CASE x \in Debt /\ y \notin Debt
      BY <1>1, <1>3, <2>2
    <2>3. CASE x \notin Debt /\ y \in Debt
      BY <1>1, <1>3, <2>3
    <2>4. CASE x \notin Debt /\ y \notin Debt
      BY <1>1, <1>3, <2>4 DEF NumbersAreFresh, Writers
    <2> QED  BY <2>1, <2>2, <2>3, <2>4
  <1> HIDE DEF g, D
  <1>5. /\ IsFiniteSet(D) /\ Cardinality(D) <= Cardinality(Debt)
        /\ Cardinality(D) \in Nat /\ Cardinality(Debt) \in Nat
    BY <1>2, <1>3, DebtIsFinite, Injected
  <1>6. /\ IsFiniteSet(D \union {session.fInfo})
        /\ Cardinality(D \union {session.fInfo}) <= Cardinality(D) + 1
    BY <1>5, AddedAtMostOne
  <1>7. Debt' \subseteq D \union {session.fInfo}
    BY DEF D
  <1>8. /\ Cardinality(Debt') <= Cardinality(D \union {session.fInfo})
        /\ Cardinality(Debt') \in Nat /\ Cardinality(D \union {session.fInfo}) \in Nat
    BY <1>6, <1>7, FS_Subset, FS_CardinalityType
  <1> QED  BY <1>5, <1>6, <1>8

LEMMA StepDebt ==
    ASSUME FileTypeOK, FileTypeOK', SessionIsOpen, NumbersAreFresh, SessionMatches,
           DebtIsAccounted, [FileNext]_fileVars
    PROVE  DebtIsAccounted'
  <1>1. CASE UNCHANGED fileVars
    BY <1>1 DEF fileVars, DebtIsAccounted, Debt, Loose, Writers, Reads, OfSession, RoundsLost
  <1> SUFFICES ASSUME FileNext PROVE DebtIsAccounted'
    BY <1>1
  <1>2. /\ faults \in Nat /\ faults' \in Nat /\ RoundsLost \in Nat /\ RoundsLost' \in Nat
        /\ round \in 1..4
    BY RoundNumbers
  <1>3. UNCHANGED <<fileRun, round>> => RoundsLost' = RoundsLost
    BY DEF RoundsLost
  <1>4. Fault => faults' = faults + 1
    BY DEF Fault
  <1>5. ASSUME NEW h \in Hosts, CreateSession(h)
        PROVE  DebtIsAccounted'
    <2>1. /\ session.fInfo = 0 /\ session.waiting = 0
          /\ session'.fInfo = 0 /\ session'.waiting = 0
      BY <1>5 DEF CreateSession, NoSession
    <2>2. Debt' \subseteq Debt
      BY <1>5, <2>1, FileNumbers DEF CreateSession, Debt, Loose, Writers, Reads, OfSession
    <2> QED  BY <1>2, <1>3, <1>5, <2>2, NoneMore DEF CreateSession
  <1>6. CASE CreationTimeout \/ SessionTimeout
    <2>1. /\ session' = NoSession /\ RoundsLost' = RoundsLost + 1 /\ faults' = faults
          /\ UNCHANGED <<running, disk>>
      BY <1>2, <1>6, RoundEnds DEF CreationTimeout, SessionTimeout, SessionIsOpen
    <2>2. PICK x : Debt' \subseteq Debt \union {x}
      BY <2>1, RoundDebt
    <2> QED  BY <1>2, <2>1, <2>2, OneMore
  <1>7. ASSUME NEW h \in Hosts, HostCrash(h)
        PROVE  DebtIsAccounted'
    <2>1. /\ faults' = faults + 1 /\ disk' = disk
          /\ running' = {a \in running : a.host # h}
          /\ session' = IF session.host = h THEN NoSession ELSE session
          /\ RoundsLost' >= RoundsLost
      BY <1>2, <1>3, <1>4, <1>7, RoundEnds DEF HostCrash
    <2>2. Cardinality(Debt') <= Cardinality(Debt) + 1
      BY <2>1, CrashDebt
    <2>3. Cardinality(Debt) \in Nat /\ Cardinality(Debt') \in Nat
      BY DebtIsFinite
    <2> QED  BY <1>2, <2>1, <2>2, <2>3 DEF DebtIsAccounted
  <1>8. CASE StartAttempt
    <2> DEFINE new == [n |-> attempts + 1, host |-> session.host, at |-> session.at,
                       fInfo |-> session.fInfo, data |-> "none"]
    <2>1. /\ running' = running \union {new} /\ disk' = disk
          /\ session'.waiting = attempts + 1 /\ session'.fInfo = session.fInfo
          /\ session'.host = session.host
          /\ UNCHANGED <<fileRun, round, faults>>
      BY <1>8, StartEffect
    <2>2. new.n = attempts + 1 /\ session.waiting = 0
      BY <1>8 DEF StartAttempt
    <2> HIDE DEF new
    <2>3. Loose' \subseteq Loose
      BY <2>1 DEF Loose, Reads, OfSession
    <2>4. Writers' \subseteq Writers
      BY <2>1, <2>2, FileNumbers DEF Writers
    <2>5. Debt' \subseteq Debt
      BY <2>3, <2>4 DEF Debt
    <2> QED  BY <1>2, <1>3, <2>1, <2>5, NoneMore
  <1>9. CASE HeartbeatTimeout
    <2>1. /\ session'.fInfo = session.fInfo /\ session'.host = session.host
          /\ session'.waiting = 0 /\ faults' = faults + 1
          /\ UNCHANGED <<fileRun, round, running, disk>>
      BY <1>4, <1>9 DEF HeartbeatTimeout, FileTypeOK
    <2>2. Loose' = Loose
      BY <2>1 DEF Loose, Reads, OfSession
    <2>3. \A a \in Writers' : a \in Writers \/ a.n = session.waiting
      BY <2>1 DEF Writers
    <2>4. Debt' \subseteq Debt \union {session.waiting}
      BY <2>2, <2>3 DEF Debt
    <2> QED  BY <1>2, <1>3, <2>1, <2>4, OneMore
  <1>10. ASSUME NEW a \in running, ReturnError(a),
                disk' \subseteq disk, \A f \in disk' : ~Reads(a, f),
                faults' \in {faults, faults + 1}
         PROVE  DebtIsAccounted'
    <2>1. /\ running' = running \ {a} /\ UNCHANGED <<fileRun, round>>
          /\ session'.host = session.host /\ session'.fInfo = session.fInfo
          /\ session'.waiting = session.waiting \/ session.waiting = a.n
      BY <1>10, ErrorReturns
    <2>2. \A f : OfSession(f) => OfSession(f)'
      BY <2>1 DEF OfSession
    <2>3. Debt' \subseteq Debt
      BY <1>10, <2>1, <2>2, AttemptEnds
    <2>4. faults' + RoundsLost' >= faults + RoundsLost
      <3>1. RoundsLost' = RoundsLost
        BY <1>3, <2>1
      <3>2. faults' = faults \/ faults' = faults + 1
        BY <1>10
      <3>3. CASE faults' = faults
        BY <1>2, <3>1, <3>3
      <3>4. CASE faults' = faults + 1
        BY <1>2, <3>1, <3>4
      <3> QED  BY <3>2, <3>3, <3>4
    <2> QED  BY <2>3, <2>4, NoneMore
  <1>11. ASSUME NEW a \in running, NEW next \in {"process", "upload"}, ReturnResult(a, next),
                a.at \in {"download", "process"}, faults' = faults,
                \A f \in disk' : \/ f \in disk /\ ~Reads(a, f)
                                    /\ (session.waiting = a.n => ~OfSession(f))
                                 \/ f.by = a.n /\ f.host = a.host
         PROVE  DebtIsAccounted'
    <2>1. /\ running' = running \ {a} /\ UNCHANGED <<fileRun, round>>
          /\ session'.host = session.host
          /\ session.waiting # a.n => session' = session
          /\ session.waiting = a.n => session'.fInfo = a.n
      BY <1>11, ResultReturns
    <2>2. session.waiting # a.n => a \in Writers /\ \A f : OfSession(f)' = OfSession(f)
      BY <1>11, <2>1 DEF Writers, OfSession
    <2>3. session.waiting = a.n => \A f : f.by = a.n /\ f.host = a.host => OfSession(f)'
      BY <2>1 DEF OfSession, SessionMatches
    <2>4. Debt' \subseteq Debt
      BY <1>11, <2>1, <2>2, <2>3, AttemptEnds
    <2> QED  BY <1>2, <1>3, <1>11, <2>1, <2>4, NoneMore
  <1>12. ASSUME NEW a \in running, downloadFileActivity(a)
         PROVE  DebtIsAccounted'
    <2>1. \A f : ~Reads(a, f)
      BY <1>12 DEF downloadFileActivity, Reads
    <2>2. session.waiting = a.n => \A f \in disk : ~OfSession(f)
      BY <1>12, FileNumbers DEF downloadFileActivity, SessionMatches, OfSession
    <2>3. CASE Fault /\ ReturnError(a) /\ UNCHANGED disk
      BY <1>2, <1>4, <1>10, <2>1, <2>3
    <2>4. CASE /\ disk' = disk \union Saved(a, "data")
               /\ ReturnResult(a, "process") /\ UNCHANGED faults
      <3>1. \A f \in disk' : f \in disk \/ (f.by = a.n /\ f.host = a.host)
        BY <2>4 DEF Saved
      <3> QED  BY <1>11, <1>12, <2>1, <2>2, <2>4, <3>1 DEF downloadFileActivity
    <2> QED  BY <1>12, <2>3, <2>4 DEF downloadFileActivity
  <1>13. ASSUME NEW a \in running
         PROVE  \A f \in Removed(a) : /\ f \in disk /\ ~Reads(a, f)
                                      /\ session.waiting = a.n => ~OfSession(f)
    BY DEF Removed, FileOf, Reads, OfSession, SessionMatches
  <1>14. ASSUME NEW a \in running, processFileActivity(a)
         PROVE  DebtIsAccounted'
    <2>1. CASE Fault /\ disk' = Removed(a) /\ ReturnError(a)
      BY <1>2, <1>4, <1>10, <1>13, <2>1
    <2>2. CASE /\ disk' = Removed(a) \union Saved(a, transcoded(a.data))
               /\ ReturnResult(a, "upload") /\ UNCHANGED faults
      <3>1. \A f \in disk' : f \in Removed(a) \/ (f.by = a.n /\ f.host = a.host)
        BY <2>2 DEF Saved
      <3> QED  BY <1>11, <1>13, <1>14, <2>2, <3>1 DEF processFileActivity
    <2> QED  BY <1>14, <2>1, <2>2 DEF processFileActivity
  <1>15. ASSUME NEW a \in running, uploadFileActivity(a)
         PROVE  DebtIsAccounted'
    <2>1. /\ running' = running \ {a} /\ disk' = Removed(a) /\ UNCHANGED <<round, faults>>
          /\ session.waiting # a.n => UNCHANGED <<fileRun, session>>
          /\ session.waiting = a.n => fileRun' = "completed"
      BY <1>15 DEF uploadFileActivity
    <2>2. ASSUME NEW f \in Removed(a), OfSession(f) PROVE OfSession(f)'
      BY <1>13, <2>1, <2>2 DEF OfSession
    <2>3. session'.waiting = session.waiting \/ session.waiting = a.n
      BY <2>1
    <2>4. Debt' \subseteq Debt
      BY <1>13, <2>1, <2>2, <2>3, AttemptEnds
    <2>5. RoundsLost' = RoundsLost
      <3>1. session.waiting = a.n => fileRun = "running"
        BY FileNumbers DEF SessionIsOpen, NoSession
      <3> QED  BY <2>1, <3>1 DEF RoundsLost
    <2> QED  BY <1>2, <2>1, <2>4, <2>5, NoneMore
  <1>16. ASSUME NEW a \in running, ReadFile(a)
         PROVE  DebtIsAccounted'
    <2>1. CASE FileOf(a) = {} /\ ReturnError(a)
      <3>1. \A f \in disk' : ~Reads(a, f)
        BY <1>16, <2>1 DEF ReadFile, FileOf, Reads
      <3> QED  BY <1>2, <1>10, <1>16, <2>1, <3>1 DEF ReadFile
    <2>2. CASE ~(FileOf(a) = {} /\ ReturnError(a))
      <3>1. PICK f \in FileOf(a) :
               /\ running' = (running \ {a}) \union {[a EXCEPT !.data = f.content]}
               /\ UNCHANGED <<session, disk, fileRun, round, faults>>
        BY <1>16, <2>2 DEF ReadFile
      <3> DEFINE b == [a EXCEPT !.data = f.content]
      <3>2. b.n = a.n /\ b.fInfo = a.fInfo /\ b.at = a.at /\ b.host = a.host
        BY FileNumbers DEF AttemptRecord
      <3> HIDE DEF b
      <3>3. running' = (running \ {a}) \union {b}
        BY <3>1 DEF b
      <3>4. Loose' \subseteq Loose
        BY <3>1, <3>2, <3>3 DEF Loose, Reads, OfSession
      <3>5. \A c \in Writers' : \E d \in Writers : c.n = d.n
        BY <3>1, <3>2, <3>3 DEF Writers
      <3>6. Debt' \subseteq Debt
        BY <3>4, <3>5 DEF Debt
      <3> QED  BY <1>2, <1>3, <3>1, <3>6, NoneMore
    <2> QED  BY <2>1, <2>2
  <1> QED
    BY <1>5, <1>6, <1>7, <1>8, <1>9, <1>12, <1>14, <1>15, <1>16, FileCases

LEMMA FileStepInv == FileIInv /\ [FileNext]_fileVars => FileIInv'
  BY StepTypes, StepNumbers, StepUploads, StepMatches, StepDebt DEF FileIInv

\* Whatever hosts crash, attempts outlive their timeouts and rounds follow on
\* other hosts: only a processed file is uploaded, and a workflow that completes
\* has uploaded one.
THEOREM OnlyProcessedIsUploaded == FileSpec => []UploadedIsProcessed
  <1>1. FileIInv => UploadedIsProcessed
    BY DEF FileIInv
  <1> QED  BY <1>1, FileInitInv, FileStepInv, PTL DEF FileSpec

\* Each file on disk belongs to the session, or can be charged to an element of
\* the debt: itself, or an attempt that processes it.
LEMMA FilesAreDebt ==
    ASSUME FileIInv
    PROVE  FilesAccounted
  <1> USE DEF FileIInv
  <1> DEFINE Reader(f) == CHOOSE a \in running : Reads(a, f)
             g == [f \in disk |-> IF f \in Loose THEN f.by
                                  ELSE IF OfSession(f) THEN 0 ELSE Reader(f).n]
             own == IF session = NoSession THEN {} ELSE {0}
  <1>1. ASSUME NEW f \in disk, OfSession(f)
        PROVE  f \notin Loose /\ 0 \in own
    BY <1>1, FileNumbers DEF OfSession, Loose, NoSession
  <1>2. ASSUME NEW f \in disk, f \notin Loose, ~OfSession(f)
        PROVE  /\ Reader(f) \in running /\ Reads(Reader(f), f)
               /\ Reader(f).n \in Debt /\ Reader(f).n \in Nat \ {0}
    <2>1. Reader(f) \in running /\ Reads(Reader(f), f)
      BY <1>2 DEF Loose
    <2> HIDE DEF Reader
    <2>2. Reader(f) \in Writers
      BY <1>2, <2>1 DEF Writers, Reads, OfSession, SessionMatches
    <2> QED  BY <2>1, <2>2, FileNumbers DEF Debt
  <1>3. \A f \in Loose : f \in disk /\ f.by \in Debt /\ f.by \in Nat \ {0}
    BY FileNumbers DEF Loose, Debt
  <1> HIDE DEF Reader
  <1>4. g \in [disk -> Debt \union own]
    BY <1>1, <1>2, <1>3
  <1>5. ASSUME NEW e \in disk, NEW f \in disk, g[e] = g[f]
        PROVE  e = f
    <2>1. e.by = f.by => e = f
      BY DEF SessionMatches
    <2>2. e.by \in Nat \ {0} /\ f.by \in Nat \ {0}
      BY FileNumbers
    <2>3. \A a \in running, d \in disk : a.n # d.by
      BY DEF NumbersAreFresh
    <2>4. \A a, b \in running : a.n = b.n => a = b
      BY DEF NumbersAreFresh
    <2>5. CASE e \in Loose
      BY <1>2, <1>5, <2>1, <2>2, <2>3, <2>5
    <2>6. CASE f \in Loose
      BY <1>2, <1>5, <2>1, <2>2, <2>3, <2>6
    <2>7. CASE e \notin Loose /\ f \notin Loose /\ OfSession(e)
      <3>1. OfSession(f)
        BY <1>2, <1>5, <2>7
      <3> QED  BY <2>1, <2>7, <3>1 DEF OfSession
    <2>8. CASE e \notin Loose /\ f \notin Loose /\ ~OfSession(e)
      <3>1. ~OfSession(f)
        BY <1>2, <1>5, <2>8
      <3>2. Reader(e) = Reader(f)
        BY <1>2, <1>5, <2>4, <2>8, <3>1
      <3> QED  BY <1>2, <2>1, <2>8, <3>1, <3>2 DEF Reads
    <2> QED  BY <2>5, <2>6, <2>7, <2>8
  <1>7. IsFiniteSet(Debt) /\ Cardinality(Debt) \in Nat
    BY DebtIsFinite
  <1>8. /\ IsFiniteSet(Debt \union own)
        /\ Cardinality(Debt \union own)
              <= Cardinality(Debt) + (IF session = NoSession THEN 0 ELSE 1)
    <2>1. CASE session = NoSession
      <3>1. Debt \union own = Debt
        BY <2>1
      <3> QED  BY <1>7, <2>1, <3>1
    <2>2. CASE session # NoSession
      <3>1. own = {0}
        BY <2>2
      <3> QED  BY <1>7, <2>2, <3>1, AddedAtMostOne
    <2> QED  BY <2>1, <2>2
  <1> HIDE DEF g, own
  <1>9. /\ Cardinality(disk) <= Cardinality(Debt \union own)
        /\ Cardinality(disk) \in Nat /\ Cardinality(Debt \union own) \in Nat
    BY <1>4, <1>5, <1>8, Injected
  <1>10. faults \in Nat /\ RoundsLost \in Nat
    BY RoundNumbers
  <1> QED
    BY <1>7, <1>8, <1>9, <1>10 DEF DebtIsAccounted, FilesAccounted

\* Whatever crashes, times out or fails, in whatever rounds and however many
\* attempts go on without being waited for: apart from the file of the session
\* there is at most one temporary file for each fault and each lost round.
THEOREM OneFileForEachFailure == FileSpec => []FilesAccounted
  <1> QED  BY FilesAreDebt, FileInitInv, FileStepInv, PTL DEF FileSpec
=============================================================================
