------------------------------- MODULE Mutex -------------------------------
(***************************************************************************)
(* The distributed mutex of cmd/samples/recipes/mutex.                     *)
(*                                                                         *)
(* A client is one execution of sampleWorkflowWithMutex.  It asks for the  *)
(* lock through a local activity that signals, and if need be starts, the  *)
(* mutex workflow of the resource; it then waits for an acquire signal,    *)
(* runs its critical section and signals its release to the run whose id   *)
(* the activity returned.  One run of mutexWorkflow at a time serves the   *)
(* buffered requests in order and completes when there are none.           *)
(*                                                                         *)
(* The Cadence server is external: a signal is buffered by the run that    *)
(* receives it, a signal to a closed execution is an error at its sender,  *)
(* and a run cannot complete while a signal it has not seen is buffered.   *)
(***************************************************************************)
EXTENDS Naturals, Sequences

CONSTANTS
    Clients,            \* the executions of sampleWorkflowWithMutex
    NoClient,           \* no holder
    MaxAttempts,        \* attempts of the local activity (RetryPolicy)
    LeaseCoversHolder,  \* unlockTimeout >= the client's execution timeout
    RunMayTimeOut,      \* a mutex run may reach its own execution timeout
    GrantsBeforeTimeout \* grants that fill a run until then (bound of served)

ASSUME NoClientAssumption == NoClient \notin Clients
ASSUME ConstantsAssumption ==
    /\ MaxAttempts \in Nat \ {0}
    /\ LeaseCoversHolder \in BOOLEAN
    /\ RunMayTimeOut \in BOOLEAN
    /\ GrantsBeforeTimeout \in Nat

VARIABLES
    client,     \* where each client execution is
    attempts,   \* attempts of its local activity so far
    acquired,   \* acquire signals buffered and not received by the client
    execution,  \* number of the mutex run its activity returned, 0 if none
    run,        \* number of the latest mutex run, 0 if there was none
    mutex,      \* where the latest mutex run is
    queue,      \* request signals buffered by that run
    served,     \* grants of that run, counted up to GrantsBeforeTimeout
    holder,     \* senderWorkflowID of the request being served
    unlocks,    \* release signals buffered by that run, per client channel
    expired     \* numbers of the mutex runs that timed out (history)

vars == <<client, attempts, acquired, execution,
          run, mutex, queue, served, holder, unlocks, expired>>

ClosedStates == {"completed", "failed", "timedOut"}
OpenStates == {"locking", "waiting", "critical", "unlocking", "released"}
RunStates == {"looping", "granting", "granted", "awaiting"}

IsOpen(c) == client[c] \in OpenStates
IsClosed(c) == client[c] \in ClosedStates

NoUnlocks == [c \in Clients |-> 0]

Init ==
    /\ client = [c \in Clients |-> "idle"]
    /\ attempts = [c \in Clients |-> 0]
    /\ acquired = [c \in Clients |-> 0]
    /\ execution = [c \in Clients |-> 0]
    /\ run = 0
    /\ mutex = "closed"
    /\ queue = <<>>
    /\ served = 0
    /\ holder = NoClient
    /\ unlocks = NoUnlocks
    /\ expired = {}

-----------------------------------------------------------------------------
(* The client: sampleWorkflowWithMutex, Mutex.Lock and the unlock function. *)

mutexVars == <<run, mutex, queue, served, holder, unlocks, expired>>

Start(c) ==
    /\ client[c] = "idle"
    /\ client' = [client EXCEPT ![c] = "locking"]
    /\ UNCHANGED <<attempts, acquired, execution, mutexVars>>

\* SignalWithStart: the open run buffers the request, or a new run starts
\* with the request as its first signal.
SignalWithStart(c) ==
    IF mutex \in RunStates
    THEN /\ queue' = Append(queue, c)
         /\ UNCHANGED <<run, mutex, served, holder, unlocks>>
    ELSE /\ run' = run + 1
         /\ mutex' = "looping"
         /\ queue' = <<c>>
         /\ served' = 0
         /\ holder' = NoClient
         /\ unlocks' = NoUnlocks

\* Mutant of SendRequest: one attempt more than MaximumAttempts.
SendRequestAgain(c) ==
    /\ client[c] = "locking"
    /\ attempts[c] <= MaxAttempts
    /\ attempts' = [attempts EXCEPT ![c] = @ + 1]
    /\ SignalWithStart(c)
    /\ \/ /\ client' = [client EXCEPT ![c] = "waiting"]
          /\ execution' = [execution EXCEPT ![c] = run']
       \/ UNCHANGED <<client, execution>>
    /\ UNCHANGED <<acquired, expired>>

\* Mutant of SendRequest: the run id is looked up before the call.
SendRequestStale(c) ==
    /\ client[c] = "locking"
    /\ attempts[c] < MaxAttempts
    /\ attempts' = [attempts EXCEPT ![c] = @ + 1]
    /\ SignalWithStart(c)
    /\ \/ /\ client' = [client EXCEPT ![c] = "waiting"]
          /\ execution' = [execution EXCEPT ![c] = run]
       \/ UNCHANGED <<client, execution>>
    /\ UNCHANGED <<acquired, expired>>

\* An attempt of the activity that took effect.  Its result reaches the
\* workflow, or is lost (an error after the server applied the call, a worker
\* that dies), and then a later attempt sends the request once more.
SendRequest(c) ==
    /\ client[c] = "locking"
    /\ attempts[c] < MaxAttempts
    /\ attempts' = [attempts EXCEPT ![c] = @ + 1]
    /\ SignalWithStart(c)
    /\ \/ /\ client' = [client EXCEPT ![c] = "waiting"]
          /\ execution' = [execution EXCEPT ![c] = run']
       \/ UNCHANGED <<client, execution>>
    /\ UNCHANGED <<acquired, expired>>

\* An attempt that failed without effect.
AttemptFails(c) ==
    /\ client[c] = "locking"
    /\ attempts[c] < MaxAttempts
    /\ attempts' = [attempts EXCEPT ![c] = @ + 1]
    /\ UNCHANGED <<client, acquired, execution, mutexVars>>

\* No attempt is left, or the activity's schedule-to-close timeout elapsed:
\* Lock returns the error and the workflow returns it too.
LockFails(c) ==
    /\ client[c] = "locking"
    /\ attempts[c] > 0
    /\ client' = [client EXCEPT ![c] = "failed"]
    /\ UNCHANGED <<attempts, acquired, execution, mutexVars>>

EnterCritical(c) ==
    /\ client[c] = "waiting"
    /\ acquired[c] > 0
    /\ client' = [client EXCEPT ![c] = "critical"]
    /\ acquired' = [acquired EXCEPT ![c] = @ - 1]
    /\ UNCHANGED <<attempts, execution, mutexVars>>

\* The critical operation is over and unlockFunc is called.
ExitCritical(c) ==
    /\ client[c] = "critical"
    /\ client' = [client EXCEPT ![c] = "unlocking"]
    /\ UNCHANGED <<attempts, acquired, execution, mutexVars>>

\* Mutant of DeliverUnlock: unlockFunc may signal more than once.
DeliverUnlockTwice(c) ==
    /\ client[c] = "unlocking"
    /\ unlocks' = IF execution[c] = run /\ mutex \in RunStates
                  THEN [unlocks EXCEPT ![c] = 1]
                  ELSE unlocks
    /\ client' \in {client, [client EXCEPT ![c] = "released"]}
    /\ UNCHANGED <<attempts, acquired, execution,
                   run, mutex, queue, served, holder, expired>>

\* The server delivers the release signal to the run the client recorded, or
\* finds that run closed; the workflow ignores that error.
DeliverUnlock(c) ==
    /\ client[c] = "unlocking"
    /\ unlocks' = IF execution[c] = run /\ mutex \in RunStates
                  THEN [unlocks EXCEPT ![c] = @ + 1]
                  ELSE unlocks
    /\ client' = [client EXCEPT ![c] = "released"]
    /\ UNCHANGED <<attempts, acquired, execution,
                   run, mutex, queue, served, holder, expired>>

Complete(c) ==
    /\ client[c] = "released"
    /\ client' = [client EXCEPT ![c] = "completed"]
    /\ UNCHANGED <<attempts, acquired, execution, mutexVars>>

\* ExecutionStartToCloseTimeout of the client.
ClientTimesOut(c) ==
    /\ IsOpen(c)
    /\ client' = [client EXCEPT ![c] = "timedOut"]
    /\ UNCHANGED <<attempts, acquired, execution, mutexVars>>

-----------------------------------------------------------------------------
(* The mutex: mutexWorkflow.                                               *)

clientVars == <<client, attempts, execution>>

\* ReceiveAsync returns a request; the acquire signal to its sender is sent.
ReceiveRequest ==
    /\ mutex = "looping"
    /\ queue # <<>>
    /\ holder' = Head(queue)
    /\ queue' = Tail(queue)
    /\ mutex' = "granting"
    /\ UNCHANGED <<clientVars, acquired, run, expired, unlocks, served>>

\* The server delivers the acquire signal to an open sender.
DeliverGrant ==
    /\ mutex = "granting"
    /\ IsOpen(holder)
    /\ acquired' = [acquired EXCEPT ![holder] = @ + 1]
    /\ mutex' = "granted"
    /\ UNCHANGED <<clientVars, run, expired, queue, holder, unlocks, served>>

\* Mutant of GrantFails: the signal is tried again instead of `continue`.
GrantRetried ==
    /\ mutex = "granting"
    /\ IsClosed(holder)
    /\ UNCHANGED vars

\* The sender is closed: SignalExternalWorkflow fails and the loop continues.
GrantFails ==
    /\ mutex = "granting"
    /\ IsClosed(holder)
    /\ mutex' = "looping"
    /\ holder' = NoClient
    /\ UNCHANGED <<clientVars, acquired, run, expired, queue, unlocks, served>>

\* Mutant of AwaitRelease: the loop goes on without the Select.
AwaitNothing ==
    /\ mutex = "granted"
    /\ mutex' = "looping"
    /\ holder' = NoClient
    /\ UNCHANGED <<clientVars, acquired, run, expired, queue, unlocks, served>>

\* Get returned: the unlock timer is started and Select blocks.
AwaitRelease ==
    /\ mutex = "granted"
    /\ mutex' = "awaiting"
    /\ served' = IF served < GrantsBeforeTimeout THEN served + 1 ELSE served
    /\ UNCHANGED <<clientVars, acquired, run, expired, queue, holder, unlocks>>

ReceiveRelease ==
    /\ mutex = "awaiting"
    /\ unlocks[holder] > 0
    /\ unlocks' = [unlocks EXCEPT ![holder] = @ - 1]
    /\ mutex' = "looping"
    /\ holder' = NoClient
    /\ UNCHANGED <<clientVars, acquired, run, expired, queue, served>>

\* Mutant of UnlockTimeout: the timer is too short for a critical section.
UnlockTimeoutEarly ==
    /\ mutex = "awaiting"
    /\ mutex' = "looping"
    /\ holder' = NoClient
    /\ UNCHANGED <<clientVars, acquired, run, expired, queue, unlocks, served>>

\* Mutant of UnlockTimeout: the timer starts anew instead of ending the Select.
UnlockTimeoutRestarted ==
    /\ mutex = "awaiting"
    /\ LeaseCoversHolder => IsClosed(holder)
    /\ UNCHANGED vars

\* The timer starts after the sender did: with unlockTimeout no shorter than
\* the sender's execution timeout, the sender is closed when it fires.
UnlockTimeout ==
    /\ mutex = "awaiting"
    /\ LeaseCoversHolder => IsClosed(holder)
    /\ mutex' = "looping"
    /\ holder' = NoClient
    /\ UNCHANGED <<clientVars, acquired, run, expired, queue, unlocks, served>>

\* Mutant of Finish: the run completes after a release without another look
\* at the channel.
FinishEarly ==
    /\ mutex = "looping"
    /\ mutex' = "closed"
    /\ queue' = <<>>
    /\ unlocks' = NoUnlocks
    /\ UNCHANGED <<clientVars, acquired, run, expired, holder, served>>

\* ReceiveAsync finds no request and the run completes.
Finish ==
    /\ mutex = "looping"
    /\ queue = <<>>
    /\ mutex' = "closed"
    /\ unlocks' = NoUnlocks
    /\ UNCHANGED <<clientVars, acquired, run, expired, queue, holder, served>>

\* ExecutionStartToCloseTimeout of the mutex run.  Its buffered signals are
\* gone with it, and the retry policy has expired by then: no new attempt.  A
\* grant keeps the run busy no longer than unlockTimeout, so it takes several
\* of them in a row before a run is that old.
RunTimesOut ==
    /\ RunMayTimeOut
    /\ served = GrantsBeforeTimeout
    /\ mutex \in RunStates
    /\ mutex' = "closed"
    /\ queue' = <<>>
    /\ holder' = NoClient
    /\ unlocks' = NoUnlocks
    /\ expired' = expired \union {run}
    /\ UNCHANGED <<clientVars, acquired, run, served>>

-----------------------------------------------------------------------------

\* Every execution is over; nothing is left to do.
Terminated ==
    /\ \A c \in Clients : IsClosed(c)
    /\ mutex = "closed"
    /\ UNCHANGED vars

ClientStep(c) ==
    \/ SendRequest(c) \/ AttemptFails(c) \/ LockFails(c)
    \/ EnterCritical(c) \/ ExitCritical(c) \/ DeliverUnlock(c) \/ Complete(c)

MutexStep ==
    \/ ReceiveRequest \/ DeliverGrant \/ GrantFails \/ AwaitRelease
    \/ ReceiveRelease \/ UnlockTimeout \/ Finish

Next ==
    \/ \E c \in Clients : Start(c) \/ ClientStep(c) \/ ClientTimesOut(c)
    \/ MutexStep
    \/ RunTimesOut
    \/ Terminated

Spec == Init /\ [][Next]_vars

(* Workers keep polling, the server delivers signals and timers fire: every
   client that started and the mutex run make progress.  Nothing forces a
   client to start, and no timeout of an execution is ever counted on. *)
Fairness ==
    /\ \A c \in Clients : WF_vars(ClientStep(c))
    /\ WF_vars(MutexStep)

FairSpec == Spec /\ Fairness

-----------------------------------------------------------------------------
(* Properties.                                                             *)

TypeOK ==
    /\ client \in [Clients -> {"idle"} \union OpenStates \union ClosedStates]
    /\ attempts \in [Clients -> 0..MaxAttempts]
    /\ acquired \in [Clients -> Nat]
    /\ execution \in [Clients -> Nat]
    /\ run \in Nat
    /\ mutex \in {"closed"} \union RunStates
    /\ queue \in Seq(Clients)
    /\ served \in 0..GrantsBeforeTimeout
    /\ holder \in Clients \union {NoClient}
    /\ unlocks \in [Clients -> Nat]
    /\ expired \subseteq Nat
    /\ mutex \in {"granting", "granted", "awaiting"} <=> holder # NoClient

Held(c) == mutex \in {"granted", "awaiting"} /\ holder = c

\* A client that runs its critical section, or that would enter it as soon as
\* its worker looks at the signals buffered for it.
HasLock(c) ==
    \/ client[c] \in {"locking", "waiting"} /\ acquired[c] > 0
    \/ client[c] = "critical"

Requested(c) ==
    \/ \E i \in 1..Len(queue) : queue[i] = c
    \/ mutex = "granting" /\ holder = c

\* mutex/README.md:29: a critical section runs only when the one before it is
\* finished, however requests are repeated, lost or late and clients time out.
MutualExclusion ==
    \A c, d \in Clients :
        client[c] = "critical" /\ client[d] = "critical" => c = d

\* Even when mutex runs time out, two clients whose only request went to the
\* same run exclude each other: what a timeout breaks, it breaks between runs.
ExclusionWithinRun ==
    \A c, d \in Clients :
        /\ client[c] = "critical" /\ attempts[c] = 1
        /\ client[d] = "critical" /\ attempts[d] = 1
        /\ execution[c] = execution[d]
        => c = d

\* A lock that a client was handed is accounted for by the run that handed it
\* out, from the moment the acquire signal is buffered until the client leaves
\* its critical section: the mutex never moves on to another request.
GrantIsHeld == \A c \in Clients : HasLock(c) => Held(c)

\* A client blocked in Lock has its request, or the acquire signal answering
\* it, somewhere in the system: no race of a request with the completion of a
\* mutex run leaves a client waiting for a signal that nobody will send.
NoRequestLost ==
    \A c \in Clients :
        client[c] = "waiting" => acquired[c] > 0 \/ Requested(c)

\* When a client calls its unlock function, the run id it was given names the
\* run that is waiting for its release: a repeated request never leaves it
\* with the id of another run.
ReleaseReachesGranter ==
    \A c \in Clients :
        client[c] = "unlocking" => Held(c) /\ execution[c] = run

\* The inductive strengthening of the safety properties above.
UnlockingIsHeld == \A c \in Clients : client[c] = "unlocking" => Held(c)

UnlocksAreReleased ==
    \A c \in Clients :
        unlocks[c] > 0 => client[c] = "released" \/ IsClosed(c)

IdleIsFresh == \A c \in Clients : client[c] = "idle" => acquired[c] = 0

ClosedIsEmpty == mutex = "closed" => queue = <<>>

RunIsKnown ==
    \A c \in Clients :
        client[c] \in {"waiting", "critical", "unlocking"}
            => mutex # "closed" /\ execution[c] = run

IInv ==
    /\ TypeOK
    /\ GrantIsHeld
    /\ NoRequestLost
    /\ UnlockingIsHeld
    /\ UnlocksAreReleased
    /\ IdleIsFresh
    /\ ClosedIsEmpty
    /\ RunIsKnown

\* The clients, seen through what each of them knows of the lock.
LockStatus ==
    [c \in Clients |->
        CASE client[c] \in {"idle", "locking", "waiting"} -> "out"
          [] client[c] = "critical" -> "in"
          [] OTHER -> "done"]

L == INSTANCE Lock WITH status <- LockStatus

\* The workflows, signals and timers together are a lock: each client enters
\* only when no other is inside, at most once, and leaves for good.
ImplementsLock == L!Spec

\* A client blocked in Lock gets the lock unless it times out itself or the run
\* it asked reaches its execution timeout: neither a run that finishes while
\* the request is on its way, nor a client ahead that never releases, nor a
\* request sent twice leaves it waiting for ever.
EventuallyLocked ==
    \A c \in Clients :
        client[c] = "waiting" ~>
            client[c] \in {"critical", "timedOut"} \/ execution[c] \in expired

\* A mutex run that is serving requests completes in the end; a release signal
\* that never comes does not keep it open.
EventuallyFinished == mutex \in RunStates ~> mutex = "closed"
=============================================================================
