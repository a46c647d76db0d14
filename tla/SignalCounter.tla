--------------------------- MODULE SignalCounter ---------------------------
(***************************************************************************)
(* The signal counting workflow of cmd/samples/recipes/signalcounter (and  *)
(* its copy in new_samples/signalcounter): one execution adds up the       *)
(* signals of two channels and continues as new once it has received       *)
(* maxSignalsPerExecution of them and no more are waiting.                 *)
(*                                                                         *)
(* A signal stands for the integer it carries: the counter is kept as the  *)
(* number of times each signal was added to it, 0 or 1 when all is well.   *)
(*                                                                         *)
(* External: the server buffers a signal until the next decision starts,   *)
(* and refuses to close a run while it buffers one; a worker that lost the *)
(* state of a run rebuilds it by replaying the history of the run.         *)
(***************************************************************************)
EXTENDS Naturals

CONSTANTS
    Signals,                    \* the signals that clients may send
    maxSignalsPerExecution,
    MaxCrashes                  \* bound of the lost decisions

ASSUME CounterAssumption == maxSignalsPerExecution \in Nat /\ MaxCrashes \in Nat

VARIABLES
    channel,                \* the channel each signal is sent to
    signalled,                   \* signals the server accepted
    buffered,               \* those no decision of the run has seen
    history,                \* those in the history of the run
    inbox,                  \* those in its channels, not received
    input,                  \* the counter the run was started with
    counter,                \* the counter of the run
    signalsPerExecution,
    deciding,               \* a decision is being made
    crashes                 \* decisions lost so far

counterVars == <<channel, signalled, buffered, history, inbox, input, counter,
                 signalsPerExecution, deciding, crashes>>

Zero == [s \in Signals |-> 0]

Init ==
    /\ channel \in [Signals -> {"channelA", "channelB"}]
    /\ signalled = {} /\ buffered = {} /\ history = {} /\ inbox = {}
    /\ input = Zero /\ counter = Zero
    /\ signalsPerExecution = 0
    /\ deciding = FALSE
    /\ crashes = 0

Signal(s) ==
    /\ s \in Signals \ signalled
    /\ signalled' = signalled \union {s}
    /\ buffered' = buffered \union {s}
    /\ UNCHANGED <<channel, history, inbox, input, counter,
                   signalsPerExecution, deciding, crashes>>

\* The next decision starts and sees what was buffered.
StartDecision ==
    /\ ~deciding
    /\ buffered # {}
    /\ deciding' = TRUE
    /\ history' = history \union buffered
    /\ inbox' = inbox \union buffered
    /\ buffered' = {}
    /\ UNCHANGED <<channel, signalled, input, counter, signalsPerExecution, crashes>>

\* Mutant of Receive: channelB is not added to the selector.
ReceiveFromA(s) ==
    /\ deciding
    /\ s \in inbox
    /\ channel[s] = "channelA"
    /\ inbox' = inbox \ {s}
    /\ counter' = [counter EXCEPT ![s] = @ + 1]
    /\ signalsPerExecution' = signalsPerExecution + 1
    /\ UNCHANGED <<channel, signalled, buffered, history, input, deciding, crashes>>

\* Select receives what woke it, and else from the first channel that has one:
\* a signal of either channel.
Receive(s) ==
    /\ deciding
    /\ s \in inbox
    /\ inbox' = inbox \ {s}
    /\ counter' = [counter EXCEPT ![s] = @ + 1]
    /\ signalsPerExecution' = signalsPerExecution + 1
    /\ UNCHANGED <<channel, signalled, buffered, history, input, deciding, crashes>>

Drained == deciding /\ inbox = {}

\* Select blocks: the decision completes and the run waits for signals.
Block ==
    /\ Drained
    /\ signalsPerExecution < maxSignalsPerExecution
    /\ deciding' = FALSE
    /\ UNCHANGED <<channel, signalled, buffered, history, inbox, input, counter,
                   signalsPerExecution, crashes>>

\* Mutant of ContinueAsNewCounter: signals that wait are not received first.
ContinueUndrained ==
    /\ deciding
    /\ signalsPerExecution >= maxSignalsPerExecution
    /\ buffered = {}
    /\ input' = counter
    /\ signalsPerExecution' = 0
    /\ history' = {}
    /\ inbox' = {}
    /\ deciding' = FALSE
    /\ UNCHANGED <<channel, signalled, buffered, counter, crashes>>

\* Mutant of ContinueAsNewCounter: the new run is given the old input.
ContinueWithOldInput ==
    /\ Drained
    /\ signalsPerExecution >= maxSignalsPerExecution
    /\ buffered = {}
    /\ signalsPerExecution' = 0
    /\ history' = {}
    /\ inbox' = {}
    /\ deciding' = FALSE
    /\ UNCHANGED <<channel, signalled, buffered, input, counter, crashes>>

\* The default branch: a new run starts with the counter.
ContinueAsNewCounter ==
    /\ Drained
    /\ signalsPerExecution >= maxSignalsPerExecution
    /\ buffered = {}
    /\ input' = counter
    /\ signalsPerExecution' = 0
    /\ history' = {}
    /\ inbox' = {}
    /\ deciding' = FALSE
    /\ UNCHANGED <<channel, signalled, buffered, counter, crashes>>

\* The state of the run is rebuilt from its input and its whole history, with
\* what was buffered meanwhile.
ReplayRun ==
    /\ history' = history \union buffered
    /\ inbox' = history \union buffered
    /\ buffered' = {}
    /\ counter' = input
    /\ signalsPerExecution' = 0
    /\ deciding' = TRUE
    /\ UNCHANGED <<channel, signalled, input>>

\* The server refuses to close the run: a signal came during the decision.
CloseRefused ==
    /\ Drained
    /\ signalsPerExecution >= maxSignalsPerExecution
    /\ buffered # {}
    /\ ReplayRun
    /\ UNCHANGED crashes

\* The worker dies during a decision, and another one takes over.
WorkerCrash ==
    /\ deciding
    /\ crashes < MaxCrashes
    /\ ReplayRun
    /\ crashes' = crashes + 1

WorkerStep ==
    \/ StartDecision
    \/ \E s \in Signals : Receive(s)
    \/ Block \/ ContinueAsNewCounter \/ CloseRefused

Next == (\E s \in Signals : Signal(s)) \/ WorkerStep \/ WorkerCrash

Spec == Init /\ [][Next]_counterVars

(* Workers poll for decisions; signals and crashes need not happen.        *)
FairSpec == Spec /\ WF_counterVars(WorkerStep)

-----------------------------------------------------------------------------
(* Properties.                                                             *)

CounterTypeOK ==
    /\ channel \in [Signals -> {"channelA", "channelB"}]
    /\ signalled \subseteq Signals
    /\ buffered \subseteq Signals
    /\ history \subseteq Signals
    /\ inbox \subseteq Signals
    /\ input \in [Signals -> Nat]
    /\ counter \in [Signals -> Nat]
    /\ signalsPerExecution \in Nat
    /\ deciding \in BOOLEAN
    /\ crashes \in 0..MaxCrashes

Places(s) == counter[s] + (IF s \in inbox THEN 1 ELSE 0)
                        + (IF s \in buffered THEN 1 ELSE 0)

\* Continuing as new, refused closes and replays neither lose nor repeat a
\* signal: each accepted signal is in exactly one place, the counter included.
EachSignalOnce ==
    /\ \A s \in signalled : Places(s) = 1
    /\ \A s \in Signals \ signalled : Places(s) = 0

\* The inductive strengthening: a run's history is what its counter has beyond
\* its input, and what it has not received yet.
HistoryIsRun ==
    /\ inbox \subseteq history
    /\ history \intersect buffered = {}
    /\ \A s \in Signals :
        /\ counter[s] = input[s] + (IF s \in history \ inbox THEN 1 ELSE 0)
        /\ s \in history => input[s] = 0

CounterIInv == CounterTypeOK /\ EachSignalOnce /\ HistoryIsRun

\* Every accepted signal is added to the counter in the end.
EventuallyCounted ==
    \A s \in Signals : s \in signalled ~> counter[s] = 1

\* Whatever becomes of its decisions, a run hands on a total to which it added
\* all it was sent: for the runs together, deciding, dying, replaying and being
\* refused to close are no steps at all.
Runs == INSTANCE Tally WITH accepted <- buffered \union history, total <- input
ImplementsTally == Runs!Spec
=============================================================================
