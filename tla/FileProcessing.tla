--------------------------- MODULE FileProcessing ---------------------------
(***************************************************************************)
(* fileprocessing: download, process and upload a file on one host, within *)
(* a session.  Each activity is retried by its policy, and the whole       *)
(* sequence up to four times.  The files are temporary and local: an       *)
(* attempt removes the file it was given when it ends, also if it fails,   *)
(* and an attempt that the server gave up on may still run.                *)
(***************************************************************************)
EXTENDS Naturals, FiniteSets

CONSTANTS
    Hosts,
    MaxAttempts,  \* bound of the attempts; the code has ExpirationInterval
    MaxFaults     \* bound of crashes, timeouts and full disks

ASSUME FileAssumption == MaxAttempts \in Nat /\ MaxFaults \in Nat

VARIABLES
    fileRun,   \* the workflow: running, completed or failed
    round,     \* i of sampleFileProcessingWorkflow
    session,   \* the host and the activity the workflow is at
    running,   \* the attempts that run on some host
    disk,      \* the temporary files: host, the attempt that wrote it, content
    uploads,   \* the contents that were uploaded
    attempts,  \* attempts so far
    faults

fileVars == <<fileRun, round, session, running, disk, uploads, attempts, faults>>

NoSession == [host |-> "none", at |-> "none", fInfo |-> 0, waiting |-> 0]

FileInit ==
    /\ fileRun = "running"
    /\ round = 1
    /\ session = NoSession
    /\ running = {}
    /\ disk = {}
    /\ uploads = {}
    /\ attempts = 0
    /\ faults = 0

Fault == faults < MaxFaults /\ faults' = faults + 1

-----------------------------------------------------------------------------
\* CreateSession: some host takes the session.
CreateSession(h) ==
    /\ fileRun = "running"
    /\ session = NoSession
    /\ session' = [NoSession EXCEPT !.host = h, !.at = "download"]
    /\ UNCHANGED <<fileRun, round, running, disk, uploads, attempts, faults>>

\* processFile returns an error: the next round, or the end.
NextRound ==
    /\ session' = NoSession
    /\ IF round = 4 THEN fileRun' = "failed" /\ UNCHANGED round
                    ELSE round' = round + 1 /\ UNCHANGED fileRun

\* No host takes it within CreationTimeout: CreateSession returns an error, and
\* that is the round.
CreationTimeout ==
    /\ fileRun = "running"
    /\ session = NoSession
    /\ NextRound
    /\ UNCHANGED <<running, disk, uploads, attempts, faults>>

\* The session ends without the activities: its time is over.
SessionTimeout ==
    /\ session # NoSession
    /\ NextRound
    /\ UNCHANGED <<running, disk, uploads, attempts, faults>>

\* The worker of a host dies, and a new one starts: its attempts and its
\* session are gone, the files stay.
HostCrash(h) ==
    /\ fileRun = "running"
    /\ Fault
    /\ running' = {a \in running : a.host # h}
    /\ IF session.host = h THEN NextRound ELSE UNCHANGED <<session, fileRun, round>>
    /\ UNCHANGED <<disk, uploads, attempts>>

\* An attempt of the session's activity starts on its host.
StartAttempt ==
    /\ session # NoSession
    /\ session.waiting = 0
    /\ attempts < MaxAttempts
    /\ attempts' = attempts + 1
    /\ running' = running \union
          {[n |-> attempts + 1, host |-> session.host, at |-> session.at,
            fInfo |-> session.fInfo, data |-> "none"]}
    /\ session' = [session EXCEPT !.waiting = attempts + 1]
    /\ UNCHANGED <<fileRun, round, disk, uploads, faults>>

\* The heartbeat timeout: the server no longer waits for the attempt.
HeartbeatTimeout ==
    /\ session.waiting # 0
    /\ Fault
    /\ session' = [session EXCEPT !.waiting = 0]
    /\ UNCHANGED <<fileRun, round, running, disk, uploads, attempts>>

\* The error, or the result, of an attempt reaches the workflow if the server
\* still waits for it.
ReturnError(a) ==
    /\ running' = running \ {a}
    /\ session' = IF session.waiting = a.n THEN [session EXCEPT !.waiting = 0] ELSE session
    /\ UNCHANGED <<fileRun, round>>
ReturnResult(a, next) ==
    /\ running' = running \ {a}
    /\ session' = IF session.waiting = a.n
                  THEN [session EXCEPT !.at = next, !.fInfo = a.n, !.waiting = 0]
                  ELSE session
    /\ UNCHANGED <<fileRun, round>>

FileOf(a) == {f \in disk : f.host = a.host /\ f.by = a.fInfo}
\* Mutant of Removed: the file is left there.
NotRemoved(a) == disk
\* os.Remove and saveToTmpFile
Removed(a) == disk \ FileOf(a)
Saved(a, data) == {[host |-> a.host, by |-> a.n, content |-> data]}

downloadFileActivity(a) ==
    /\ a.at = "download"
    /\ \/ /\ disk' = disk \union Saved(a, "data")
          /\ ReturnResult(a, "process")
          /\ UNCHANGED faults
       \/ Fault /\ ReturnError(a) /\ UNCHANGED disk
    /\ UNCHANGED <<uploads, attempts>>

\* Mutant of ReadFile: its error is ignored.
ReadAnything(a) ==
    /\ a.at \in {"process", "upload"}
    /\ a.data = "none"
    /\ running' = (running \ {a}) \union
          (IF FileOf(a) = {} THEN {[a EXCEPT !.data = "empty"]}
           ELSE {[a EXCEPT !.data = f.content] : f \in FileOf(a)})
    /\ UNCHANGED <<session, fileRun, round, disk, uploads, attempts, faults>>

\* ioutil.ReadFile of the file the attempt was given.
ReadFile(a) ==
    /\ a.at \in {"process", "upload"}
    /\ a.data = "none"
    /\ \/ \E f \in FileOf(a) :
             /\ running' = (running \ {a}) \union {[a EXCEPT !.data = f.content]}
             /\ UNCHANGED <<session, fileRun, round>>
       \/ FileOf(a) = {} /\ ReturnError(a)
    /\ UNCHANGED <<disk, uploads, attempts, faults>>

transcoded(data) == IF data = "data" THEN "DATA" ELSE data

\* The file was read: the result is saved, and the deferred removal runs.
processFileActivity(a) ==
    /\ a.at = "process"
    /\ a.data # "none"
    /\ \/ /\ disk' = Removed(a) \union Saved(a, transcoded(a.data))
          /\ ReturnResult(a, "upload")
          /\ UNCHANGED faults
       \/ Fault /\ disk' = Removed(a) /\ ReturnError(a)
    /\ UNCHANGED <<uploads, attempts>>

uploadFileActivity(a) ==
    /\ a.at = "upload"
    /\ a.data # "none"
    /\ uploads' = uploads \union {a.data}
    /\ disk' = Removed(a)
    /\ running' = running \ {a}
    /\ IF session.waiting = a.n
       THEN fileRun' = "completed" /\ session' = NoSession
       ELSE UNCHANGED <<fileRun, session>>
    /\ UNCHANGED <<round, attempts, faults>>

FileNext ==
    \/ \E h \in Hosts : CreateSession(h) \/ HostCrash(h)
    \/ CreationTimeout
    \/ SessionTimeout
    \/ StartAttempt
    \/ HeartbeatTimeout
    \/ \E a \in running :
          \/ downloadFileActivity(a)
          \/ ReadFile(a)
          \/ processFileActivity(a)
          \/ uploadFileActivity(a)

FileSpec == FileInit /\ [][FileNext]_fileVars

-----------------------------------------------------------------------------
Activity == {"none", "download", "process", "upload"}
Contents == {"data", "DATA"}
FileTypeOK ==
    /\ fileRun \in {"running", "completed", "failed"}
    /\ round \in 1..4
    /\ session \in [host : Hosts \union {"none"}, at : Activity, fInfo : 0..MaxAttempts,
                    waiting : 0..MaxAttempts]
    /\ running \subseteq [n : 1..MaxAttempts, host : Hosts, at : Activity,
                          fInfo : 0..MaxAttempts, data : Contents \union {"none"}]
    /\ disk \subseteq [host : Hosts, by : 1..MaxAttempts, content : Contents]
    /\ uploads \subseteq Contents
    /\ attempts \in 0..MaxAttempts /\ faults \in 0..MaxFaults

\* What is uploaded was processed, and a workflow that completes has uploaded
\* it, whatever attempts timed out and still removed or wrote files, and on
\* whatever hosts the rounds before it ran.
UploadedIsProcessed ==
    /\ uploads \subseteq {"DATA"}
    /\ fileRun = "completed" => uploads # {}

\* The rounds that ended in an error.
RoundsLost == IF fileRun = "failed" THEN 4 ELSE round - 1

\* Temporary files stay only for a reason, and one for each reason: apart from
\* the file of the session that is open, there is at most one on all hosts
\* together for each crash, timeout or full disk and for each round that ended
\* in an error, whatever attempts of such rounds still write and remove.  A
\* workflow that completes in its first round without a fault leaves none.
FilesAccounted ==
    Cardinality(disk) <= faults + RoundsLost + (IF session = NoSession THEN 0 ELSE 1)
=============================================================================
