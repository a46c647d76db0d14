---------------------------- MODULE AwaitSignals ----------------------------
(***************************************************************************)
(* AwaitSignalWorkflow of new_samples/signal: three signals that arrive in *)
(* any order are handled in a fixed one, under two timeouts.  A coroutine  *)
(* records the signals; the workflow waits for each flag in turn and runs  *)
(* an activity for it.  In a decision the workflow runs first, then the    *)
(* coroutine, and the workflow again if the coroutine has woken it.        *)
(*                                                                         *)
(* A unit of time is 15 seconds.  The server delivers what happened since  *)
(* the last decision in one batch, and the worker decides within the unit. *)
(***************************************************************************)
EXTENDS Integers, Sequences

CONSTANTS
    signalToSignalTimeout,
    fromFirstSignalTimeout,
    MaxAwaitTime    \* bound of the clock while no timer runs

ASSUME AwaitAssumption ==
    /\ signalToSignalTimeout \in Nat \ {0}
    /\ fromFirstSignalTimeout \in Nat \ {0}
    /\ MaxAwaitTime \in Nat

VARIABLES
    awaiting,   \* what AwaitSignalWorkflow is blocked on
    received,   \* the flags Signal1Received, Signal2Received, Signal3Received
    firstTime,  \* FirstSignalTime, NotYet when it is zero
    deadline,   \* when the timer of awaitWithTimeout fires, NotYet without one
    inHistory,  \* signals the server accepted and no decision has seen
    activity,   \* the activity the workflow waits for: running, ok or error
    clock,
    handled     \* when the activity of each signal was scheduled, in order

awaitVars == <<awaiting, received, firstTime, deadline, inHistory, activity, clock, handled>>

SignalNumbers == 1..3
NotYet == -1
AwaitEnded == {"completed", "activityFailed", "FromFirstSignalTimeout", "notReceived"}

AwaitInit ==
    /\ awaiting = [for |-> "signal", n |-> 1]
    /\ received = {}
    /\ firstTime = NotYet
    /\ deadline = NotYet
    /\ inHistory = {}
    /\ activity = "none"
    /\ clock = 0
    /\ handled = <<>>

AwaitRunning == awaiting.for \in {"signal", "activity"}
TimerFired == deadline # NotYet /\ deadline <= clock

\* Something is in the history that a decision has to look at.
DecisionPending ==
    /\ AwaitRunning
    /\ \/ inHistory # {}
       \/ TimerFired
       \/ activity \in {"ok", "error"}

-----------------------------------------------------------------------------
\* A signal reaches the workflow.  Its flag is set once.
SendSignal(s) ==
    /\ AwaitRunning
    /\ s \notin received \union inHistory
    /\ inHistory' = inHistory \union {s}
    /\ UNCHANGED <<awaiting, received, firstTime, deadline, activity, clock, handled>>

EndActivity ==
    /\ activity = "running"
    /\ activity' \in {"ok", "error"}
    /\ UNCHANGED <<awaiting, received, firstTime, deadline, inHistory, clock, handled>>

\* Time passes, but over no timer and no decision that is due.
AwaitTick ==
    /\ AwaitRunning
    /\ ~DecisionPending
    /\ clock < MaxAwaitTime \/ deadline # NotYet
    /\ clock' = clock + 1
    /\ UNCHANGED <<awaiting, received, firstTime, deadline, inHistory, activity, handled>>

\* The coroutine takes the batch of signals.
Listen ==
    /\ received' = received \union inHistory
    /\ firstTime' = IF firstTime = NotYet /\ inHistory # {} THEN clock ELSE firstTime
    /\ inHistory' = {}

\* Mutant of TotalLeft: the time since the first signal is not taken off.
TotalLeftOfAll == fromFirstSignalTimeout

\* GetNextTimeout: what is left for the next signal; none when it is <= 0.
TotalLeft == fromFirstSignalTimeout - (clock - firstTime')
\* Mutant of NextTimeout: both timeouts are counted from the first signal.
TimeoutSinceFirst ==
    IF signalToSignalTimeout < TotalLeft
    THEN signalToSignalTimeout - (clock - firstTime') ELSE TotalLeft
NextTimeout ==
    IF signalToSignalTimeout < TotalLeft THEN signalToSignalTimeout ELSE TotalLeft

EndAwait(how, n) ==
    /\ awaiting' = [for |-> how, n |-> n]
    /\ activity' = "none"
    /\ deadline' = NotYet
    /\ UNCHANGED handled

\* The flag of signal n is set: its activity is scheduled, its timer cancelled.
HandleSignal(n) ==
    /\ awaiting' = [for |-> "activity", n |-> n]
    /\ activity' = "running"
    /\ deadline' = NotYet
    /\ handled' = Append(handled, [signal |-> n, at |-> clock])

\* The wait for signal n: a timer that has fired ends it, though the same
\* batch may hold the signal, whose flag is not set yet.  Otherwise the flag
\* does.  The wait for the first signal has no timer.
AwaitSignal(n) ==
    \/ TimerFired /\ EndAwait("notReceived", n)
    \/ ~TimerFired /\ n \in received' /\ HandleSignal(n)
    \/ /\ ~TimerFired
       /\ n \notin received'
       /\ UNCHANGED <<awaiting, activity, deadline, handled>>

\* Mutant of NextSignal: no timer is started.
NextSignalUntimed(n) ==
    \/ TotalLeft <= 0 /\ EndAwait("FromFirstSignalTimeout", n)
    \/ TotalLeft > 0 /\ n \in received' /\ HandleSignal(n)
    \/ /\ TotalLeft > 0
       /\ n \notin received'
       /\ awaiting' = [for |-> "signal", n |-> n]
       /\ activity' = "none"
       /\ deadline' = NotYet
       /\ UNCHANGED handled

\* The activity of signal n has ended well: the next wait begins with a new
\* timer, unless the flag is already set.
NextSignal(n) ==
    \/ TotalLeft <= 0 /\ EndAwait("FromFirstSignalTimeout", n)
    \/ TotalLeft > 0 /\ n \in received' /\ HandleSignal(n)
    \/ /\ TotalLeft > 0
       /\ n \notin received'
       /\ awaiting' = [for |-> "signal", n |-> n]
       /\ activity' = "none"
       /\ deadline' = clock + NextTimeout
       /\ UNCHANGED handled

AwaitSignalWorkflow ==
    /\ DecisionPending
    /\ Listen
    /\ \/ awaiting.for = "signal" /\ AwaitSignal(awaiting.n)
       \/ /\ awaiting.for = "activity"
          /\ \/ activity = "running" /\ UNCHANGED <<awaiting, activity, deadline, handled>>
             \/ activity = "error" /\ EndAwait("activityFailed", awaiting.n)
             \/ activity = "ok" /\ awaiting.n = 3 /\ EndAwait("completed", 3)
             \/ activity = "ok" /\ awaiting.n < 3 /\ NextSignal(awaiting.n + 1)
    /\ UNCHANGED clock

AwaitNext ==
    \/ \E s \in SignalNumbers : SendSignal(s)
    \/ EndActivity
    \/ AwaitTick
    \/ AwaitSignalWorkflow

AwaitProgress == EndActivity \/ AwaitTick \/ AwaitSignalWorkflow

AwaitSpec == AwaitInit /\ [][AwaitNext]_awaitVars /\ WF_awaitVars(AwaitProgress)

-----------------------------------------------------------------------------
AwaitTypeOK ==
    /\ awaiting \in [for : {"signal", "activity"} \union AwaitEnded, n : SignalNumbers]
    /\ received \subseteq SignalNumbers
    /\ firstTime \in Nat \union {NotYet}
    /\ deadline \in Nat \union {NotYet}
    /\ inHistory \subseteq SignalNumbers
    /\ activity \in {"none", "running", "ok", "error"}
    /\ clock \in Nat
    /\ handled \in Seq([signal : SignalNumbers, at : Nat])

\* The activities run in the order of the signals' numbers, each after its
\* signal; the later ones are scheduled no later than fromFirstSignalTimeout
\* after the first signal that came, which need not be Signal1
\* (README.md: "the maximum total time from the first signal").
HandledInTime ==
    \A i \in DOMAIN handled :
        /\ handled[i].signal = i
        /\ i \in received
        /\ i > 1 => /\ handled[i].at <= firstTime + fromFirstSignalTimeout
                    /\ handled[i - 1].at <= handled[i].at

\* The workflow gives a signal up only if the whole of its timeout has passed,
\* measured from the activity before, or of the total; what came while the
\* timer fired, and the later signals it may hold, are dropped with it.
GivenUpOnlyWhenLate ==
    awaiting.for = "notReceived" =>
        LET before == handled[awaiting.n - 1].at
        IN  \/ clock - before >= signalToSignalTimeout
            \/ clock - firstTime >= fromFirstSignalTimeout

\* Once Signal1 is there the workflow ends, whatever signals follow, if
\* activities end, decisions are made and time passes.
AwaitEnds == 1 \in inHistory ~> awaiting.for \in AwaitEnded
=============================================================================
