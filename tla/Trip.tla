-------------------------------- MODULE Trip --------------------------------
(***************************************************************************)
(* The trip workflows of cmd/samples/recovery: each counts the signals it  *)
(* receives and continues as new after a fixed number of them, passing the *)
(* count on.                                                               *)
(*                                                                         *)
(* The Cadence server is external: it appends each accepted signal to the  *)
(* history of the open run, and a run that closes takes its unread signals *)
(* with it.                                                                *)
(***************************************************************************)
EXTENDS Naturals

CONSTANTS
    Trips,              \* the workflow ids
    SignalLimit,        \* signals a run receives before it continues as new
    MaxSignals,         \* bound of the signals sent to a workflow id
    RegisteredTypes     \* the workflow types the worker can execute

\* startTripWorkflow starts the first type, ContinueAsNew names the second.
FirstType == "tripWorkflow"
NextType == "TripWorkflow"

ASSUME TripAssumption ==
    /\ SignalLimit \in Nat \ {0}
    /\ MaxSignals \in Nat
    /\ RegisteredTypes \subseteq {FirstType, NextType}

VARIABLES
    trip,       \* the latest run of each workflow id
    sent        \* signals the server ever accepted for it from its senders

tripVars == <<trip, sent>>

\* A run: its number and type, the TripCounter it started with, the signals
\* in its history and how many of these the workflow has received.
NewRun(n, type, counter) ==
    [open |-> TRUE, run |-> n, type |-> type, base |-> counter,
     hist |-> 0, used |-> 0]

TripInit ==
    /\ trip = [t \in Trips |-> NewRun(1, FirstType, 0)]
    /\ sent = [t \in Trips |-> 0]

\* state.TripCounter, the answer to the query.
TripCounter(t) == trip[t].base + trip[t].used

CanExecute(t) == trip[t].open /\ trip[t].type \in RegisteredTypes

SignalTrip(t) ==
    /\ trip[t].open
    /\ sent[t] < MaxSignals
    /\ trip' = [trip EXCEPT ![t].hist = @ + 1]
    /\ sent' = [sent EXCEPT ![t] = @ + 1]

\* Mutant of ReceiveTrip: one signal too many.
ReceiveTripBeyond(t) ==
    /\ CanExecute(t)
    /\ trip[t].used <= SignalLimit
    /\ trip[t].used < trip[t].hist
    /\ trip' = [trip EXCEPT ![t].used = @ + 1]
    /\ UNCHANGED sent

ReceiveTrip(t) ==
    /\ CanExecute(t)
    /\ trip[t].used < SignalLimit
    /\ trip[t].used < trip[t].hist
    /\ trip' = [trip EXCEPT ![t].used = @ + 1]
    /\ UNCHANGED sent

\* Mutant of ContinueAsNew: the state the run was started with is passed on.
ContinueWithOldState(t) ==
    /\ CanExecute(t)
    /\ trip[t].used = SignalLimit
    /\ trip' = [trip EXCEPT
                  ![t] = NewRun(trip[t].run + 1, NextType, trip[t].base)]
    /\ UNCHANGED sent

ContinueAsNew(t) ==
    /\ CanExecute(t)
    /\ trip[t].used = SignalLimit
    /\ trip' = [trip EXCEPT
                  ![t] = NewRun(trip[t].run + 1, NextType, TripCounter(t))]
    /\ UNCHANGED sent

TripStep(t) == ReceiveTrip(t) \/ ContinueAsNew(t)

TripNext == \E t \in Trips : SignalTrip(t) \/ TripStep(t)

TripSpec == TripInit /\ [][TripNext]_tripVars

(* A worker that knows the type of a run executes it; senders may stop.    *)
TripFairSpec == TripSpec /\ \A t \in Trips : WF_tripVars(TripStep(t))

-----------------------------------------------------------------------------
(* Properties.                                                             *)

TripTypeOK ==
    /\ trip \in [Trips -> [open : BOOLEAN, run : Nat,
                           type : {FirstType, NextType},
                           base : Nat, hist : Nat, used : 0..SignalLimit]]
    /\ sent \in [Trips -> Nat]

\* No signal is counted twice, by any succession of runs: the counter a run
\* starts from and the signals in its history never exceed what was sent.
NeverOvercounts ==
    \A t \in Trips :
        /\ trip[t].used <= trip[t].hist
        /\ trip[t].base + trip[t].hist <= sent[t]

\* The query never goes back: a run starts from the count its predecessor
\* ended with.
CounterNeverDecreases ==
    [][\A t \in Trips : TripCounter(t)' >= TripCounter(t)]_tripVars

\* trip_workflow.go:36: the count is passed to a new run, which goes on
\* receiving: a signal in the history of the open run does not stay unread.
ReceivedIsCounted ==
    \A t \in Trips :
        trip[t].hist > trip[t].used ~>
            trip[t].hist = trip[t].used \/ trip[t].used = SignalLimit
=============================================================================
