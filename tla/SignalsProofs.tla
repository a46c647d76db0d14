---------------------------- MODULE SignalsProofs ----------------------------
(* Proofs about the three samples that take several signals.                *)
(*                                                                          *)
(* SignalCounter, for any set of signals, any limit and any number of lost  *)
(* decisions: every signal is counted once.                                 *)
(*                                                                          *)
(* AwaitSignals, for every pair of timeouts: the signals are handled in     *)
(* order and in time, and given up only when they are late.                 *)
(*                                                                          *)
(* OrderFulfillment, for any operators and any number of signals: the       *)
(* action log leads to the status, and the order in which the selector has  *)
(* its channels loses no step of an order that Select finds.                *)
EXTENDS SignalCounter, AwaitSignals, OrderFulfillment, TLAPS

-----------------------------------------------------------------------------
(* SignalCounter: CounterIInv of that module is the inductive invariant.    *)

LEMMA CounterInitInv == Init => CounterIInv
  <1> SUFFICES ASSUME Init PROVE CounterIInv
    OBVIOUS
  <1>1. CounterTypeOK
    <2>1. Zero \in [Signals -> Nat]
      BY DEF Zero
    <2>2. input \in [Signals -> Nat] /\ counter \in [Signals -> Nat]
      BY <2>1 DEF Init
    <2>3. signalsPerExecution \in Nat /\ crashes \in 0..MaxCrashes
      BY CounterAssumption DEF Init
    <2>4. /\ channel \in [Signals -> {"channelA", "channelB"}]
          /\ signalled \subseteq Signals /\ buffered \subseteq Signals
          /\ history \subseteq Signals /\ inbox \subseteq Signals
      BY DEF Init
    <2>5. deciding \in BOOLEAN
      BY DEF Init
    <2>. QED  BY <2>2, <2>3, <2>4, <2>5 DEF CounterTypeOK
  <1>2. \A s \in Signals : counter[s] = 0 /\ input[s] = 0
    BY DEF Init, Zero
  <1>3. EachSignalOnce
    BY <1>2 DEF Init, EachSignalOnce, Places
  <1>4. HistoryIsRun
    BY <1>2 DEF Init, HistoryIsRun
  <1>. QED  BY <1>1, <1>3, <1>4 DEF CounterIInv

LEMMA ReplayInv == CounterIInv /\ ReplayRun /\ crashes' \in 0..MaxCrashes
                     => CounterIInv'
  <1> SUFFICES ASSUME CounterIInv, ReplayRun, crashes' \in 0..MaxCrashes
               PROVE  CounterIInv'
    OBVIOUS
  <1> USE DEF CounterIInv, ReplayRun
  <1>1. CounterTypeOK'
    BY DEF CounterTypeOK
  <1>2. HistoryIsRun'
    <2>1. ASSUME NEW s \in Signals, s \in history' PROVE input'[s] = 0
      <3>1. CASE s \in history
        BY <3>1 DEF HistoryIsRun
      <3>2. CASE s \in buffered
        BY <3>2 DEF HistoryIsRun, EachSignalOnce, Places, CounterTypeOK
      <3>. QED  BY <2>1, <3>1, <3>2
    <2>. QED  BY <2>1 DEF HistoryIsRun, CounterTypeOK
  <1>3. EachSignalOnce'
    <2>1. ASSUME NEW s \in Signals PROVE Places(s)' = Places(s)
      <3>1. input[s] \in Nat /\ counter[s] \in Nat
        BY DEF CounterTypeOK
      <3>2. CASE s \in history
        BY <3>1, <3>2 DEF HistoryIsRun, Places
      <3>3. CASE s \in buffered
        BY <3>1, <3>3 DEF HistoryIsRun, Places
      <3>4. CASE s \notin history /\ s \notin buffered
        BY <3>1, <3>4 DEF HistoryIsRun, Places
      <3>. QED  BY <3>2, <3>3, <3>4
    <2>2. UNCHANGED signalled /\ EachSignalOnce /\ signalled \subseteq Signals
      BY DEF CounterTypeOK
    <2> HIDE DEF CounterIInv, ReplayRun
    <2>. QED  BY <2>1, <2>2 DEF EachSignalOnce
  <1>. QED  BY <1>1, <1>2, <1>3

LEMMA CounterNextInv == CounterIInv /\ [Next]_counterVars => CounterIInv'
  <1> SUFFICES ASSUME CounterIInv, [Next]_counterVars PROVE CounterIInv'
    OBVIOUS
  <1> USE CounterAssumption DEF CounterTypeOK
  <1>1. ASSUME NEW s \in Signals, Signal(s) PROVE CounterIInv'
    BY <1>1 DEF Signal, CounterIInv, EachSignalOnce, Places, HistoryIsRun
  <1>2. ASSUME StartDecision PROVE CounterIInv'
    BY <1>2 DEF StartDecision, CounterIInv, EachSignalOnce, Places, HistoryIsRun
  <1>3. ASSUME NEW s \in Signals, Receive(s) PROVE CounterIInv'
    <2>1. CounterTypeOK'
      BY <1>3 DEF Receive, CounterIInv
    <2>2. ASSUME NEW r \in Signals PROVE Places(r)' = Places(r)
      BY <1>3 DEF Receive, CounterIInv, Places
    <2>3. EachSignalOnce'
      BY <1>3, <2>2 DEF Receive, CounterIInv, EachSignalOnce
    <2>4. HistoryIsRun'
      BY <1>3 DEF Receive, CounterIInv, HistoryIsRun
    <2>. QED  BY <2>1, <2>3, <2>4 DEF CounterIInv
  <1>4. ASSUME Block PROVE CounterIInv'
    BY <1>4 DEF Block, CounterIInv, EachSignalOnce, Places, HistoryIsRun
  <1>5. ASSUME ContinueAsNewCounter PROVE CounterIInv'
    <2>1. CounterTypeOK'
      BY <1>5 DEF ContinueAsNewCounter, CounterIInv
    <2>2. EachSignalOnce'
      BY <1>5 DEF ContinueAsNewCounter, Drained, CounterIInv, EachSignalOnce,
                  Places
    <2>3. HistoryIsRun'
      BY <1>5 DEF ContinueAsNewCounter, CounterIInv, HistoryIsRun
    <2>. QED  BY <2>1, <2>2, <2>3 DEF CounterIInv
  <1>6. ASSUME CloseRefused PROVE CounterIInv'
    BY <1>6, ReplayInv DEF CloseRefused, CounterIInv
  <1>7. ASSUME WorkerCrash PROVE CounterIInv'
    BY <1>7, ReplayInv DEF WorkerCrash, CounterIInv
  <1>8. CASE UNCHANGED counterVars
    BY <1>8 DEF counterVars, CounterIInv, EachSignalOnce, Places, HistoryIsRun
  <1>. QED
    BY <1>1, <1>2, <1>3, <1>4, <1>5, <1>6, <1>7, <1>8 DEF Next, WorkerStep

\* The inductive invariant: types, the places of each signal, and how far the
\* history of a run accounts for its counter.
THEOREM CounterInvariance == Spec => []CounterIInv
  BY CounterInitInv, CounterNextInv, PTL DEF Spec

\* No accepted signal is lost and none is counted twice, across any number of
\* runs, refused closes and replays.
THEOREM EachSignalOnceHolds == Spec => []EachSignalOnce
  <1>1. CounterIInv => EachSignalOnce
    BY DEF CounterIInv
  <1>. QED  BY <1>1, CounterInvariance, PTL

\* A step of a run is a step of the tally or none.
LEMMA TallyStep == CounterIInv /\ [Next]_counterVars => [Runs!Next]_<<buffered \union history, input>>
  <1> SUFFICES ASSUME CounterIInv, [Next]_counterVars
               PROVE  Runs!Next \/ UNCHANGED <<buffered \union history, input>>
    OBVIOUS
  <1> USE DEF CounterIInv, CounterTypeOK
  <1>1. ASSUME NEW s \in Signals, Signal(s) PROVE Runs!Accept(s)
    <2>1. Places(s) = 0
      BY <1>1 DEF Signal, EachSignalOnce
    <2>2. counter[s] = 0 /\ s \notin buffered
      BY <2>1 DEF Places
    <2>3. input[s] = 0 /\ s \notin history
      BY <2>1, <2>2 DEF HistoryIsRun, Places
    <2> QED  BY <1>1, <2>2, <2>3 DEF Signal, Runs!Accept
  <1>2. CASE ContinueAsNewCounter
    <2>1. /\ buffered = {} /\ inbox = {} /\ buffered' = {} /\ history' = {}
          /\ input' = counter
      BY <1>2 DEF ContinueAsNewCounter, Drained
    <2>2. \A s \in Signals :
             counter[s] = IF s \in buffered \union history THEN input[s] + 1 ELSE input[s]
      BY <2>1 DEF HistoryIsRun
    <2>3. counter = [s \in Signals |->
             IF s \in buffered \union history THEN input[s] + 1 ELSE input[s]]
      BY <2>2
    <2> QED  BY <2>1, <2>3 DEF Runs!Next, Runs!Carry
  <1>3. CASE StartDecision \/ CloseRefused \/ WorkerCrash
    BY <1>3 DEF StartDecision, CloseRefused, WorkerCrash, ReplayRun
  <1>4. CASE Block \/ (\E s \in Signals : Receive(s)) \/ UNCHANGED counterVars
    BY <1>4 DEF Block, Receive, counterVars
  <1> QED
    BY <1>1, <1>2, <1>3, <1>4 DEF Next, WorkerStep, Runs!Next

\* Seen from outside, the runs together are one tally: what a run hands on to
\* the next is all that was accepted before, each signal once, however many
\* decisions were lost or closes refused on the way.
THEOREM RunsAreOneTally == Spec => ImplementsTally
  <1>1. Init => Runs!Init
    BY DEF Init, Zero, Runs!Init
  <1> QED
    BY <1>1, TallyStep, CounterInvariance, PTL DEF Spec, ImplementsTally, Runs!Spec, Runs!tallyVars

-----------------------------------------------------------------------------
(* AwaitSignals: the inductive invariant.                                   *)

\* Where the workflow is says how many activities it has scheduled.
PlaceIsLength ==
    /\ awaiting.for = "signal" => awaiting.n = Len(handled) + 1
    /\ awaiting.for = "activity" => awaiting.n = Len(handled)

FirstIsTaken == received # {} => firstTime # NotYet

\* A timer runs for every signal but the first, and ends within the total.
TimerIsWithin ==
    /\ awaiting.for = "signal" /\ awaiting.n > 1 => deadline # NotYet
    /\ deadline # NotYet =>
          /\ firstTime # NotYet
          /\ clock <= deadline
          /\ deadline <= firstTime + fromFirstSignalTimeout

HandledBefore == \A i \in DOMAIN handled : handled[i].at <= clock

AwaitIInv ==
    /\ AwaitTypeOK
    /\ PlaceIsLength
    /\ FirstIsTaken
    /\ TimerIsWithin
    /\ HandledBefore
    /\ HandledInTime

-----------------------------------------------------------------------------
LEMMA AwaitInitInv == AwaitInit => AwaitIInv
  <1> SUFFICES ASSUME AwaitInit PROVE AwaitIInv
    OBVIOUS
  <1>1. AwaitTypeOK
    BY DEF AwaitInit, AwaitTypeOK, SignalNumbers, NotYet
  <1>2. PlaceIsLength /\ FirstIsTaken /\ TimerIsWithin /\ HandledBefore /\ HandledInTime
    BY DEF AwaitInit, PlaceIsLength, FirstIsTaken, TimerIsWithin, HandledBefore,
           HandledInTime, NotYet
  <1> QED  BY <1>1, <1>2 DEF AwaitIInv

\* The coroutine only adds flags, and takes the time of the first one.
LEMMA ListenTakes ==
    ASSUME AwaitIInv, Listen
    PROVE  /\ received \subseteq received' /\ received' \subseteq SignalNumbers
           /\ firstTime' \in Nat \union {NotYet}
           /\ firstTime # NotYet => firstTime' = firstTime
           /\ received' # {} => firstTime' # NotYet
           /\ inHistory' \subseteq SignalNumbers
  BY DEF AwaitIInv, AwaitTypeOK, FirstIsTaken, Listen, NotYet

\* An activity is scheduled for the next number, within the total.
LEMMA HandleKeepsInv ==
    ASSUME AwaitIInv, Listen, UNCHANGED clock,
           NEW n \in SignalNumbers, n = Len(handled) + 1, n \in received', HandleSignal(n),
           n > 1 => clock <= firstTime' + fromFirstSignalTimeout
    PROVE  AwaitIInv'
  <1>1. /\ handled \in Seq([signal : SignalNumbers, at : Nat]) /\ clock \in Nat
        /\ clock' = clock
        /\ awaiting' = [for |-> "activity", n |-> n]
        /\ activity' = "running" /\ deadline' = NotYet
        /\ handled' = Append(handled, [signal |-> n, at |-> clock])
    BY DEF AwaitIInv, AwaitTypeOK, HandleSignal
  <1>2. [signal |-> n, at |-> clock] \in [signal : SignalNumbers, at : Nat]
    BY <1>1
  <1>3. /\ handled' \in Seq([signal : SignalNumbers, at : Nat])
        /\ Len(handled') = n /\ DOMAIN handled' = 1..n
        /\ handled'[n] = [signal |-> n, at |-> clock]
        /\ \A i \in 1..(n - 1) : i \in DOMAIN handled /\ handled'[i] = handled[i]
    BY <1>1, <1>2
  <1>4. AwaitTypeOK'
    BY <1>1, <1>3, ListenTakes DEF AwaitTypeOK, SignalNumbers
  <1>5. PlaceIsLength' /\ FirstIsTaken' /\ TimerIsWithin'
    BY <1>1, <1>3, ListenTakes DEF PlaceIsLength, FirstIsTaken, TimerIsWithin
  <1>6. HandledBefore'
    <2>1. SUFFICES ASSUME NEW i \in 1..n PROVE handled'[i].at <= clock
      BY <1>1, <1>3 DEF HandledBefore
    <2>2. CASE i = n
      BY <1>1, <1>3, <2>2
    <2>3. CASE i \in 1..(n - 1)
      BY <1>3, <2>3 DEF AwaitIInv, HandledBefore
    <2> QED  BY <2>2, <2>3 DEF SignalNumbers
  <1>7. HandledInTime'
    <2>1. SUFFICES ASSUME NEW i \in 1..n
                   PROVE  /\ handled'[i].signal = i
                          /\ i \in received'
                          /\ i > 1 => /\ handled'[i].at <= firstTime' + fromFirstSignalTimeout
                                      /\ handled'[i - 1].at <= handled'[i].at
      BY <1>3 DEF HandledInTime
    <2>2. CASE i = n
      <3>1. n > 1 => handled'[n - 1].at <= clock
        BY <1>3 DEF AwaitIInv, HandledBefore, SignalNumbers
      <3> QED  BY <1>3, <2>2, <3>1
    <2>3. CASE i \in 1..(n - 1)
      <3>1. firstTime' = firstTime
        BY <1>3, <2>3, ListenTakes DEF AwaitIInv, HandledInTime, FirstIsTaken
      <3>2. i > 1 => handled'[i - 1] = handled[i - 1]
        BY <1>3, <2>3 DEF SignalNumbers
      <3> QED
        BY <1>3, <2>3, <3>1, <3>2, ListenTakes DEF AwaitIInv, HandledInTime
    <2> QED  BY <2>2, <2>3 DEF SignalNumbers
  <1> QED  BY <1>4, <1>5, <1>6, <1>7 DEF AwaitIInv

\* A decision that schedules nothing leaves what was handled in time.
LEMMA NothingHandled ==
    ASSUME AwaitIInv, Listen, UNCHANGED <<clock, handled>>
    PROVE  FirstIsTaken' /\ HandledBefore' /\ HandledInTime'
  <1>1. FirstIsTaken'
    BY ListenTakes DEF FirstIsTaken
  <1>2. HandledBefore'
    BY DEF AwaitIInv, HandledBefore
  <1>3. HandledInTime'
    <2>1. SUFFICES ASSUME NEW i \in DOMAIN handled
                   PROVE  /\ handled[i].signal = i
                          /\ i \in received'
                          /\ i > 1 => /\ handled[i].at <= firstTime' + fromFirstSignalTimeout
                                      /\ handled[i - 1].at <= handled[i].at
      BY DEF HandledInTime
    <2>2. i \in received
      BY DEF AwaitIInv, HandledInTime
    <2>3. firstTime' = firstTime /\ i \in received'
      BY <2>2, ListenTakes DEF AwaitIInv, FirstIsTaken
    <2> QED  BY <2>3 DEF AwaitIInv, HandledInTime
  <1> QED  BY <1>1, <1>2, <1>3

LEMMA EndKeepsInv ==
    ASSUME AwaitIInv, Listen, UNCHANGED clock, NEW n \in SignalNumbers,
           NEW how \in AwaitEnded, EndAwait(how, n)
    PROVE  AwaitIInv'
  <1>1. /\ awaiting' = [for |-> how, n |-> n] /\ activity' = "none"
        /\ deadline' = NotYet /\ handled' = handled /\ clock' = clock
    BY DEF EndAwait
  <1>2. awaiting'.for # "signal" /\ awaiting'.for # "activity"
    BY <1>1 DEF AwaitEnded
  <1>3. AwaitTypeOK'
    BY <1>1, ListenTakes DEF AwaitIInv, AwaitTypeOK
  <1>4. PlaceIsLength' /\ TimerIsWithin'
    BY <1>1, <1>2 DEF PlaceIsLength, TimerIsWithin
  <1> QED  BY <1>1, <1>3, <1>4, NothingHandled DEF AwaitIInv

LEMMA NextNumber ==
    ASSUME NEW m \in SignalNumbers, m < 3
    PROVE  m + 1 \in SignalNumbers /\ m + 1 > 1
  BY DEF SignalNumbers

LEMMA ElementOfSeq ==
    ASSUME NEW S, NEW seq \in Seq(S), NEW i \in DOMAIN seq PROVE seq[i] \in S
  OBVIOUS

LEMMA DecisionKeepsInv ==
    ASSUME AwaitAssumption, AwaitIInv, AwaitSignalWorkflow PROVE AwaitIInv'
  <1>1. Listen /\ UNCHANGED clock /\ clock \in Nat
    BY DEF AwaitSignalWorkflow, AwaitIInv, AwaitTypeOK
  <1>2. awaiting.n \in SignalNumbers
    BY DEF AwaitIInv, AwaitTypeOK
  <1>3. ASSUME UNCHANGED <<awaiting, activity, deadline, handled>> PROVE AwaitIInv'
    <2>1. AwaitTypeOK' /\ PlaceIsLength'
      BY <1>1, <1>3, ListenTakes DEF AwaitIInv, AwaitTypeOK, PlaceIsLength
    <2>2. TimerIsWithin'
      BY <1>1, <1>3, ListenTakes DEF AwaitIInv, TimerIsWithin
    <2> QED  BY <1>1, <1>3, <2>1, <2>2, NothingHandled DEF AwaitIInv
  <1>4. CASE awaiting.for = "signal" /\ AwaitSignal(awaiting.n)
    <2>1. awaiting.n = Len(handled) + 1
      BY <1>4 DEF AwaitIInv, PlaceIsLength
    <2>2. CASE ~TimerFired /\ awaiting.n \in received' /\ HandleSignal(awaiting.n)
      <3>1. awaiting.n > 1 => clock <= firstTime' + fromFirstSignalTimeout
        <4>1. SUFFICES ASSUME awaiting.n > 1
                       PROVE  clock <= firstTime' + fromFirstSignalTimeout
          OBVIOUS
        <4>2. deadline # NotYet /\ firstTime # NotYet
          BY <1>4, <4>1 DEF AwaitIInv, TimerIsWithin
        <4>3. clock <= deadline /\ deadline <= firstTime + fromFirstSignalTimeout
          BY <4>2 DEF AwaitIInv, TimerIsWithin
        <4>4. firstTime' = firstTime /\ firstTime \in Nat /\ deadline \in Nat
          BY <1>1, <4>2, ListenTakes DEF AwaitIInv, AwaitTypeOK
        <4> QED  BY <1>1, <4>3, <4>4 DEF AwaitAssumption
      <3> QED  BY <1>1, <1>2, <2>1, <2>2, <3>1, HandleKeepsInv
    <2>3. CASE EndAwait("notReceived", awaiting.n)
      BY <1>1, <1>2, <2>3, EndKeepsInv DEF AwaitEnded
    <2> QED  BY <1>3, <1>4, <2>2, <2>3 DEF AwaitSignal
  <1>5. CASE awaiting.for = "activity"
    <2>1. awaiting.n = Len(handled)
      BY <1>5 DEF AwaitIInv, PlaceIsLength
    <2>2. CASE UNCHANGED <<awaiting, activity, deadline, handled>>
      BY <1>3, <2>2
    <2>3. CASE \/ EndAwait("activityFailed", awaiting.n)
               \/ EndAwait("completed", 3)
      BY <1>1, <1>2, <2>3, EndKeepsInv DEF AwaitEnded, SignalNumbers
    <2>4. CASE awaiting.n < 3 /\ NextSignal(awaiting.n + 1)
      <3> DEFINE next == awaiting.n + 1
      <3>1. next \in SignalNumbers /\ next = Len(handled) + 1 /\ next > 1
        BY <1>2, <2>1, <2>4, NextNumber
      <3>2. /\ firstTime # NotYet /\ firstTime' = firstTime /\ firstTime \in Nat
        <4>1. awaiting.n \in DOMAIN handled
          BY <1>2, <2>1 DEF AwaitIInv, AwaitTypeOK, SignalNumbers
        <4>2. awaiting.n \in received
          BY <4>1 DEF AwaitIInv, HandledInTime
        <4> QED  BY <1>1, <4>2, ListenTakes DEF AwaitIInv, FirstIsTaken, AwaitTypeOK
      <3>3. TotalLeft \in Int /\ clock + TotalLeft = firstTime' + fromFirstSignalTimeout
        BY <1>1, <3>2 DEF TotalLeft, AwaitAssumption
      <3>4. CASE TotalLeft <= 0 /\ EndAwait("FromFirstSignalTimeout", next)
        BY <1>1, <3>1, <3>4, EndKeepsInv DEF AwaitEnded
      <3>5. CASE TotalLeft > 0 /\ next \in received' /\ HandleSignal(next)
        <4>1. clock <= firstTime' + fromFirstSignalTimeout
          BY <1>1, <3>3, <3>5
        <4> HIDE DEF next
        <4> QED  BY <1>1, <3>1, <3>5, <4>1, HandleKeepsInv
      <3>6. CASE /\ TotalLeft > 0
                 /\ awaiting' = [for |-> "signal", n |-> next] /\ activity' = "none"
                 /\ deadline' = clock + NextTimeout /\ handled' = handled
        <4>1. NextTimeout \in Nat /\ NextTimeout <= TotalLeft
          BY <3>3, <3>6 DEF NextTimeout, AwaitAssumption
        <4>2. /\ deadline' \in Nat /\ clock <= deadline'
              /\ deadline' <= firstTime' + fromFirstSignalTimeout
          BY <1>1, <3>3, <3>6, <4>1
        <4>3. AwaitTypeOK'
          BY <1>1, <3>1, <3>6, <4>2, ListenTakes DEF AwaitIInv, AwaitTypeOK
        <4>4. PlaceIsLength' /\ TimerIsWithin'
          BY <1>1, <3>1, <3>2, <3>6, <4>2 DEF PlaceIsLength, TimerIsWithin, NotYet
        <4> QED  BY <1>1, <3>6, <4>3, <4>4, NothingHandled DEF AwaitIInv
      <3> QED  BY <2>4, <3>4, <3>5, <3>6 DEF NextSignal
    <2> QED
      BY <1>5, <2>2, <2>3, <2>4 DEF AwaitSignalWorkflow
  <1> QED
    BY <1>4, <1>5 DEF AwaitSignalWorkflow

LEMMA AwaitStepInv == AwaitAssumption /\ AwaitIInv /\ [AwaitNext]_awaitVars => AwaitIInv'
  <1> SUFFICES ASSUME AwaitAssumption, AwaitIInv, [AwaitNext]_awaitVars PROVE AwaitIInv'
    OBVIOUS
  <1>1. ASSUME UNCHANGED <<awaiting, received, firstTime, deadline, clock, handled>>,
               inHistory' \subseteq SignalNumbers,
               activity' \in {"none", "running", "ok", "error"}
        PROVE  AwaitIInv'
    BY <1>1 DEF AwaitIInv, AwaitTypeOK, PlaceIsLength, FirstIsTaken, TimerIsWithin,
                HandledBefore, HandledInTime
  <1>2. ASSUME NEW s \in SignalNumbers, SendSignal(s) PROVE AwaitIInv'
    BY <1>1, <1>2 DEF SendSignal, AwaitIInv, AwaitTypeOK
  <1>3. CASE EndActivity
    BY <1>1, <1>3 DEF EndActivity, AwaitIInv, AwaitTypeOK
  <1>4. CASE AwaitTick
    <2>1. /\ clock \in Nat /\ clock' = clock + 1 /\ handled' = handled
          /\ UNCHANGED <<awaiting, received, firstTime, deadline, inHistory, activity>>
      BY <1>4 DEF AwaitTick, AwaitIInv, AwaitTypeOK
    <2>2. deadline # NotYet => clock < deadline
      BY <1>4, <2>1 DEF AwaitTick, DecisionPending, TimerFired, AwaitIInv, AwaitTypeOK
    <2>3. AwaitTypeOK' /\ PlaceIsLength' /\ FirstIsTaken' /\ HandledInTime'
      BY <2>1 DEF AwaitIInv, AwaitTypeOK, PlaceIsLength, FirstIsTaken, HandledInTime
    <2>4. TimerIsWithin'
      BY <2>1, <2>2 DEF AwaitIInv, AwaitTypeOK, TimerIsWithin
    <2>5. HandledBefore'
      <3>1. \A i \in DOMAIN handled : handled[i].at \in Nat
        <4>1. handled \in Seq([signal : SignalNumbers, at : Nat])
          BY DEF AwaitIInv, AwaitTypeOK
        <4>2. ASSUME NEW i \in DOMAIN handled
              PROVE  handled[i] \in [signal : SignalNumbers, at : Nat]
          BY <4>1, ElementOfSeq
        <4> QED  BY <4>2
      <3> QED  BY <2>1, <3>1 DEF AwaitIInv, HandledBefore
    <2> QED  BY <2>3, <2>4, <2>5 DEF AwaitIInv
  <1>5. CASE AwaitSignalWorkflow
    BY <1>5, DecisionKeepsInv
  <1>6. CASE UNCHANGED awaitVars
    BY <1>1, <1>6 DEF awaitVars, AwaitIInv, AwaitTypeOK
  <1> QED  BY <1>2, <1>3, <1>4, <1>5, <1>6 DEF AwaitNext

\* Whatever the timeouts, and in whatever order signals come: the activities
\* run in the order of the numbers, each after its signal, and the later ones
\* are scheduled no later than fromFirstSignalTimeout after the first signal.
THEOREM AlwaysHandledInTime == AwaitSpec => []HandledInTime
  <1>1. AwaitIInv => HandledInTime
    BY DEF AwaitIInv
  <1> QED
    BY <1>1, AwaitAssumption, AwaitInitInv, AwaitStepInv, PTL DEF AwaitSpec

-----------------------------------------------------------------------------
(* AwaitSignals: what is given up.                                          *)

\* A timer is started for a later signal only, and runs for the whole of its
\* timeout from the activity before, or to the end of the total.
TimerIsLong ==
    awaiting.for = "signal" /\ deadline # NotYet =>
        /\ awaiting.n > 1
        /\ \/ deadline >= handled[awaiting.n - 1].at + signalToSignalTimeout
           \/ deadline >= firstTime + fromFirstSignalTimeout

LateIInv == TimerIsLong /\ GivenUpOnlyWhenLate

LEMMA InitLate == AwaitInit => LateIInv
  BY DEF AwaitInit, LateIInv, TimerIsLong, GivenUpOnlyWhenLate, NotYet

\* The numbers that are compared, where a timer runs.
LEMMA LateNumbers ==
    ASSUME AwaitIInv
    PROVE  /\ clock \in Nat /\ awaiting.n \in 1..3 /\ Len(handled) \in Nat
           /\ deadline # NotYet => deadline \in Nat /\ firstTime \in Nat
           /\ \A i \in DOMAIN handled : handled[i].at \in Nat /\ handled[i].at <= clock
           /\ DOMAIN handled = 1..Len(handled)
  <1>1. /\ clock \in Nat /\ awaiting.n \in 1..3
        /\ handled \in Seq([signal : SignalNumbers, at : Nat])
        /\ deadline # NotYet => deadline \in Nat
        /\ firstTime # NotYet => firstTime \in Nat
    BY DEF AwaitIInv, AwaitTypeOK, SignalNumbers
  <1>2. deadline # NotYet => firstTime # NotYet
    BY DEF AwaitIInv, TimerIsWithin
  <1>3. ASSUME NEW i \in DOMAIN handled
        PROVE  handled[i].at \in Nat /\ handled[i].at <= clock
    <2>1. handled[i] \in [signal : SignalNumbers, at : Nat]
      BY <1>1, ElementOfSeq
    <2> QED  BY <2>1 DEF AwaitIInv, HandledBefore
  <1>4. DOMAIN handled = 1..Len(handled) /\ Len(handled) \in Nat
    BY <1>1
  <1> QED  BY <1>1, <1>2, <1>3, <1>4

LEMMA DecisionKeepsLate ==
    ASSUME AwaitAssumption, AwaitIInv, LateIInv, AwaitSignalWorkflow PROVE LateIInv'
  <1>1. /\ Listen /\ clock' = clock
        /\ AwaitRunning
    BY DEF AwaitSignalWorkflow, DecisionPending
  <1>2. firstTime # NotYet => firstTime' = firstTime
    BY <1>1, ListenTakes
  <1>3. signalToSignalTimeout \in Nat /\ fromFirstSignalTimeout \in Nat
    BY DEF AwaitAssumption
  \* No timer runs after the decision, and nothing is given up.
  <1>4. ASSUME deadline' = NotYet, awaiting'.for # "notReceived"
        PROVE  LateIInv'
    BY <1>4 DEF LateIInv, TimerIsLong, GivenUpOnlyWhenLate, NotYet
  <1>5. ASSUME UNCHANGED <<awaiting, deadline, handled>>
        PROVE  LateIInv'
    <2>1. awaiting'.for # "notReceived"
      BY <1>1, <1>5 DEF AwaitRunning
    <2>2. deadline # NotYet => firstTime' = firstTime
      BY <1>2 DEF AwaitIInv, TimerIsWithin
    <2> QED  BY <1>5, <2>1, <2>2 DEF LateIInv, TimerIsLong, GivenUpOnlyWhenLate, NotYet
  <1>6. CASE awaiting.for = "signal" /\ AwaitSignal(awaiting.n)
    <2>1. CASE TimerFired /\ EndAwait("notReceived", awaiting.n)
      <3>1. /\ awaiting' = [for |-> "notReceived", n |-> awaiting.n]
            /\ deadline' = NotYet /\ handled' = handled
        BY <2>1 DEF EndAwait
      <3>2. deadline # NotYet /\ deadline <= clock
        BY <2>1 DEF TimerFired
      <3>3. /\ awaiting.n > 1
            /\ \/ deadline >= handled[awaiting.n - 1].at + signalToSignalTimeout
               \/ deadline >= firstTime + fromFirstSignalTimeout
        BY <1>6, <3>2 DEF LateIInv, TimerIsLong
      <3>4. awaiting.n - 1 \in DOMAIN handled
        BY <1>6, <3>3, LateNumbers DEF AwaitIInv, PlaceIsLength
      <3>5. firstTime' = firstTime
        BY <1>2, <3>2 DEF AwaitIInv, TimerIsWithin
      <3> DEFINE before == handled[awaiting.n - 1].at
      <3>6. before \in Nat /\ clock \in Nat /\ deadline \in Nat /\ firstTime \in Nat
        BY <3>2, <3>4, LateNumbers
      <3> HIDE DEF before
      <3>7. clock - before >= signalToSignalTimeout
            \/ clock - firstTime >= fromFirstSignalTimeout
        BY <1>3, <3>2, <3>3, <3>6 DEF before
      <3>8. GivenUpOnlyWhenLate'
        BY <1>1, <3>1, <3>5, <3>7 DEF GivenUpOnlyWhenLate, before
      <3> QED  BY <3>1, <3>8 DEF LateIInv, TimerIsLong, NotYet
    <2>2. CASE HandleSignal(awaiting.n)
      BY <1>4, <2>2 DEF HandleSignal
    <2> QED  BY <1>5, <1>6, <2>1, <2>2 DEF AwaitSignal
  <1>7. CASE \/ EndAwait("activityFailed", awaiting.n)
             \/ EndAwait("completed", 3)
    BY <1>4, <1>7 DEF EndAwait
  <1>8. CASE awaiting.for = "activity" /\ activity = "ok" /\ awaiting.n < 3
             /\ NextSignal(awaiting.n + 1)
    <2> DEFINE next == awaiting.n + 1
    <2>1. CASE EndAwait("FromFirstSignalTimeout", next) \/ HandleSignal(next)
      BY <1>4, <2>1 DEF EndAwait, HandleSignal
    <2>2. CASE /\ TotalLeft > 0
               /\ awaiting' = [for |-> "signal", n |-> next]
               /\ deadline' = clock + NextTimeout /\ handled' = handled
      <3>1. awaiting.n = Len(handled) /\ awaiting.n \in DOMAIN handled
        BY <1>8, LateNumbers DEF AwaitIInv, PlaceIsLength
      <3>2. awaiting.n \in received
        BY <3>1 DEF AwaitIInv, HandledInTime
      <3>3. firstTime # NotYet /\ firstTime' = firstTime /\ firstTime \in Nat
        BY <1>2, <3>2 DEF AwaitIInv, FirstIsTaken, AwaitTypeOK
      <3> DEFINE before == handled[awaiting.n].at
      <3>4. before \in Nat /\ before <= clock /\ clock \in Nat /\ awaiting.n \in 1..3
        BY <3>1, LateNumbers
      <3> HIDE DEF before
      <3>5. \/ deadline' >= before + signalToSignalTimeout
            \/ deadline' >= firstTime' + fromFirstSignalTimeout
        BY <1>3, <2>2, <3>3, <3>4 DEF NextTimeout, TotalLeft
      <3>6. awaiting'.for = "signal" /\ awaiting'.n = next /\ next > 1 /\ next - 1 = awaiting.n
        BY <2>2, <3>4
      <3>7. before = handled'[awaiting'.n - 1].at
        BY <2>2, <3>6 DEF before
      <3> QED  BY <3>5, <3>6, <3>7 DEF LateIInv, TimerIsLong, GivenUpOnlyWhenLate
    <2> QED  BY <1>8, <2>1, <2>2 DEF NextSignal
  <1> QED
    BY <1>5, <1>6, <1>7, <1>8 DEF AwaitSignalWorkflow

LEMMA LateStep == AwaitAssumption /\ AwaitIInv /\ LateIInv /\ [AwaitNext]_awaitVars => LateIInv'
  <1> SUFFICES ASSUME AwaitAssumption, AwaitIInv, LateIInv, [AwaitNext]_awaitVars PROVE LateIInv'
    OBVIOUS
  <1>1. ASSUME UNCHANGED <<awaiting, firstTime, deadline, handled>>,
               clock' = clock \/ AwaitRunning
        PROVE  LateIInv'
    BY <1>1 DEF LateIInv, TimerIsLong, GivenUpOnlyWhenLate, AwaitRunning
  <1>2. ASSUME NEW s \in SignalNumbers, SendSignal(s) PROVE LateIInv'
    BY <1>1, <1>2 DEF SendSignal
  <1>3. CASE EndActivity \/ AwaitTick \/ UNCHANGED awaitVars
    BY <1>1, <1>3 DEF EndActivity, AwaitTick, awaitVars
  <1>4. CASE AwaitSignalWorkflow
    BY <1>4, DecisionKeepsLate
  <1> QED  BY <1>2, <1>3, <1>4 DEF AwaitNext

\* A signal is given up only after the whole of its timeout, counted from the
\* activity before it, or of the total: whatever came meanwhile, and however
\* the two timeouts compare.
THEOREM AlwaysGivenUpLate == AwaitSpec => []GivenUpOnlyWhenLate
  <1>1. LateIInv => GivenUpOnlyWhenLate
    BY DEF LateIInv
  <1> QED
    BY <1>1, AwaitAssumption, AwaitInitInv, AwaitStepInv, InitLate, LateStep, PTL DEF AwaitSpec

-----------------------------------------------------------------------------
(* OrderFulfillment: the inductive invariants.                              *)

SignalsAreKnown ==
    /\ arrived \in Seq(OrderSignal)
    /\ channels \in Seq(OrderSignal)
    /\ actionLog \in Seq(OrderSignals)
    /\ dropped \subseteq OrderSignals

\* What a decision has dropped came before, or from the same channel as, what
\* it has still to take.
DroppedComeFirst ==
    \A s \in dropped, i \in DOMAIN channels, c, d \in 1..7 :
        s = SelectorOrder[c] /\ channels[i].name = SelectorOrder[d] => c <= d

\* What wakes the selector is the first signal of a decision.
WakingDropsNothing == \A i \in DOMAIN channels : blocked => dropped = {}

BadgesAreKnown ==
    /\ status \in Statuses
    /\ dashboard = [o \in Operators |-> dashboard[o]]
    /\ \A o \in Operators : dashboard[o].badge \in Statuses \union {"none"}

\* A decision that is made again starts from a state that was as good.
BegunIsKnown ==
    /\ begun \in [status : Statuses, log : Seq(OrderSignals), channels : Seq(OrderSignal),
                  blocked : BOOLEAN]
    /\ LeadsTo(begun.log, begun.status)

OrderIInv ==
    /\ SignalsAreKnown
    /\ BadgesAreKnown
    /\ BegunIsKnown
    /\ blocked \in BOOLEAN
    /\ LogLeadsToStatus
    /\ NoStepDroppedEarly
    /\ DroppedComeFirst
    /\ WakingDropsNothing

-----------------------------------------------------------------------------
(* The tables, by the place of a channel in the selector.                   *)

LEMMA Channels ==
    /\ DOMAIN SelectorOrder = 1..7
    /\ OrderSignals = {SelectorOrder[c] : c \in 1..7}
  <1>1. DOMAIN SelectorOrder = 1..7
    BY DEF SelectorOrder
  <1> QED  BY <1>1 DEF OrderSignals

LEMMA StatusTable ==
    /\ "pending_payment" \in Statuses
    /\ \A s \in OrderSignals : Leaves[s] \in Statuses
  <1>1. /\ SelectorOrder[1] \in OrderSignals /\ SelectorOrder[3] \in OrderSignals
        /\ SelectorOrder[4] \in OrderSignals /\ SelectorOrder[7] \in OrderSignals
    BY Channels
  <1>2. /\ Asks[SelectorOrder[1]] = "pending_payment"
        /\ Asks[SelectorOrder[3]] = "payment_approved"
        /\ Asks[SelectorOrder[4]] = "ready_to_ship"
        /\ Asks[SelectorOrder[7]] = "shipped"
    BY DEF Asks, SelectorOrder
  <1>3. {"pending_payment", "payment_approved", "ready_to_ship", "shipped",
         "delivered", "cancelled", "refunded"} \subseteq Statuses
    BY <1>1, <1>2 DEF Statuses, Terminal
  <1>4. \A c \in 1..7 : Leaves[SelectorOrder[c]] \in Statuses
    <2>1. /\ Leaves[SelectorOrder[1]] = "payment_approved"
          /\ Leaves[SelectorOrder[2]] = "cancelled"
          /\ Leaves[SelectorOrder[3]] = "ready_to_ship"
          /\ Leaves[SelectorOrder[4]] = "shipped"
          /\ Leaves[SelectorOrder[5]] = "refunded"
          /\ Leaves[SelectorOrder[6]] = "cancelled"
          /\ Leaves[SelectorOrder[7]] = "delivered"
      BY DEF Leaves, SelectorOrder
    <2> QED  BY <1>3, <2>1
  <1> QED  BY <1>3, <1>4, Channels

\* No channel leaves the order where a channel before it, or itself, asks.
LEMMA NoWayBack ==
    \A c, d \in 1..7 : c <= d => Asks[SelectorOrder[c]] # Leaves[SelectorOrder[d]]
  <1>1. /\ Asks[SelectorOrder[1]] = "pending_payment"
        /\ Asks[SelectorOrder[2]] = "pending_payment"
        /\ Asks[SelectorOrder[3]] = "payment_approved"
        /\ Asks[SelectorOrder[4]] = "ready_to_ship"
        /\ Asks[SelectorOrder[5]] = "payment_approved"
        /\ Asks[SelectorOrder[6]] = "ready_to_ship"
        /\ Asks[SelectorOrder[7]] = "shipped"
    BY DEF Asks, SelectorOrder
  <1>2. /\ Leaves[SelectorOrder[1]] = "payment_approved"
        /\ Leaves[SelectorOrder[2]] = "cancelled"
        /\ Leaves[SelectorOrder[3]] = "ready_to_ship"
        /\ Leaves[SelectorOrder[4]] = "shipped"
        /\ Leaves[SelectorOrder[5]] = "refunded"
        /\ Leaves[SelectorOrder[6]] = "cancelled"
        /\ Leaves[SelectorOrder[7]] = "delivered"
    BY DEF Leaves, SelectorOrder
  <1> QED  BY <1>1, <1>2

-----------------------------------------------------------------------------
LEMMA OrderInitInv == OrderInit => OrderIInv
  <1> SUFFICES ASSUME OrderInit PROVE OrderIInv
    OBVIOUS
  <1>1. SignalsAreKnown
    BY DEF OrderInit, SignalsAreKnown
  <1>2. LogLeadsToStatus
    BY DEF OrderInit, LogLeadsToStatus, LeadsTo
  <1>5. BegunIsKnown /\ blocked \in BOOLEAN
    <2>1. /\ begun.status = "pending_payment" /\ begun.log = <<>>
          /\ begun.channels = <<>> /\ begun.blocked = FALSE
          /\ begun = [status |-> "pending_payment", log |-> <<>>,
                      channels |-> <<>>, blocked |-> FALSE]
      BY DEF OrderInit
    <2>2. LeadsTo(begun.log, begun.status)
      BY <2>1 DEF LeadsTo
    <2>3. blocked \in BOOLEAN
      BY DEF OrderInit
    <2>4. /\ <<>> \in Seq(OrderSignals) /\ <<>> \in Seq(OrderSignal)
          /\ FALSE \in BOOLEAN /\ "pending_payment" \in Statuses
      BY StatusTable
    <2>5. begun \in [status : Statuses, log : Seq(OrderSignals),
                     channels : Seq(OrderSignal), blocked : BOOLEAN]
      BY <2>1, <2>4
    <2> QED  BY <2>2, <2>3, <2>5 DEF BegunIsKnown
  <1>4. BadgesAreKnown
    BY StatusTable DEF OrderInit, BadgesAreKnown, NoDashboard
  <1>3. NoStepDroppedEarly /\ DroppedComeFirst /\ WakingDropsNothing
    BY DEF OrderInit, NoStepDroppedEarly, DroppedComeFirst, WakingDropsNothing
  <1> QED  BY <1>1, <1>2, <1>3, <1>4, <1>5 DEF OrderIInv

\* A signal that is applied fits the end of the log.
LEMMA AppliedFits ==
    ASSUME OrderIInv, NEW s \in OrderSignals, status = Asks[s],
           actionLog' = Append(actionLog, s), status' = Leaves[s]
    PROVE  LogLeadsToStatus'
  <1> DEFINE n == Len(actionLog)
  <1>1. /\ actionLog \in Seq(OrderSignals) /\ n \in Nat
        /\ Len(actionLog') = n + 1 /\ actionLog'[n + 1] = s
        /\ \A i \in 1..n : actionLog'[i] = actionLog[i]
    BY DEF OrderIInv, SignalsAreKnown
  <1>2. status' = Leaves[actionLog'[n + 1]]
    BY <1>1
  <1>3. Asks[actionLog'[1]] = "pending_payment"
    <2>1. CASE n = 0
      BY <1>1, <2>1 DEF OrderIInv, LogLeadsToStatus, LeadsTo
    <2>2. CASE n > 0
      BY <1>1, <2>2 DEF OrderIInv, LogLeadsToStatus, LeadsTo
    <2> QED  BY <1>1, <2>1, <2>2
  <1>4. ASSUME NEW i \in 1..n PROVE Asks[actionLog'[i + 1]] = Leaves[actionLog'[i]]
    <2>1. CASE i = n
      BY <1>1, <2>1 DEF OrderIInv, LogLeadsToStatus, LeadsTo
    <2>2. CASE i < n
      <3>1. Asks[actionLog[i + 1]] = Leaves[actionLog[i]]
        BY <1>1, <2>2 DEF OrderIInv, LogLeadsToStatus, LeadsTo
      <3>2. actionLog'[i + 1] = actionLog[i + 1] /\ actionLog'[i] = actionLog[i]
        BY <1>1, <2>2
      <3> QED  BY <3>1, <3>2
    <2> QED  BY <1>1, <2>1, <2>2
  <1> HIDE DEF n
  <1>5. Len(actionLog') # 0 /\ Len(actionLog') - 1 = n
    BY <1>1
  <1> QED  BY <1>1, <1>2, <1>3, <1>4, <1>5 DEF LogLeadsToStatus, LeadsTo

LEMMA SelectKeepsInv ==
    ASSUME OrderIInv, NEW i \in DOMAIN channels, SelectSignal(i)
    PROVE  OrderIInv'
  <1> DEFINE s == channels[i].name
  <1>1. s \in OrderSignals /\ channels \in Seq(OrderSignal)
    <2>1. channels \in Seq(OrderSignal)
      BY DEF OrderIInv, SignalsAreKnown
    <2>2. channels[i] \in OrderSignal
      BY <2>1
    <2> QED  BY <2>1, <2>2 DEF OrderSignal
  <1>2. ASSUME ~blocked
        PROVE  \E c \in 1..7 :
                 /\ s = SelectorOrder[c]
                 /\ \A j \in DOMAIN channels : \A d \in 1..c :
                       channels[j].name = SelectorOrder[d] => d = c
    BY <1>2, Channels DEF SelectSignal, Selected
  <1>3. /\ channels' \in Seq(OrderSignal)
        /\ \A k \in DOMAIN channels' : \E j \in DOMAIN channels : channels'[k] = channels[j]
    BY <1>1 DEF SelectSignal, TakeFromChannel
  <1>4. blocked => dropped = {}
    BY DEF OrderIInv, WakingDropsNothing
  <1>8. BegunIsKnown' /\ blocked' \in BOOLEAN
    <2>1. UNCHANGED begun
      BY DEF SelectSignal
    <2>2. blocked' = (Len(channels) = 1)
      BY Zenon DEF SelectSignal, TakeFromChannel
    <2>3. BegunIsKnown'
      BY <2>1 DEF OrderIInv, BegunIsKnown, LeadsTo
    <2>4. blocked' \in BOOLEAN
      BY <2>2, Zenon
    <2> QED  BY <2>3, <2>4
  <1>7. WakingDropsNothing'
    <2>1. TakeFromChannel(i)
      BY DEF SelectSignal
    <2>2. DOMAIN channels' = 1..(Len(channels) - 1)
      BY <2>1, <1>1 DEF TakeFromChannel
    <2>3. blocked' => Len(channels) - 1 = 0
      <3>1. blocked' = (Len(channels) = 1)
        BY <2>1, Zenon DEF TakeFromChannel
      <3>2. blocked' => Len(channels) = 1
        BY <3>1, Zenon
      <3>3. Len(channels) = 1 => Len(channels) - 1 = 0
        BY SMT
      <3> QED  BY <3>2, <3>3, Zenon
    <2>4. \A k \in 1..0 : FALSE
      OBVIOUS
    <2> QED  BY <2>2, <2>3, <2>4 DEF WakingDropsNothing
  <1>5. CASE status = Asks[s]
    <2>1. /\ status' = Leaves[s] /\ actionLog' = Append(actionLog, s)
          /\ dropped' = dropped /\ arrived' = arrived
      BY <1>5 DEF SelectSignal
    <2>2. SignalsAreKnown' /\ BadgesAreKnown'
      BY <1>1, <1>3, <2>1, StatusTable
         DEF OrderIInv, SignalsAreKnown, BadgesAreKnown, SelectSignal
    <2>3. LogLeadsToStatus'
      BY <1>1, <1>5, <2>1, AppliedFits
    <2>4. DroppedComeFirst'
      BY <1>3, <2>1 DEF OrderIInv, DroppedComeFirst
    <2>5. NoStepDroppedEarly'
      <3>1. SUFFICES ASSUME NEW r \in dropped PROVE Asks[r] # Leaves[s]
        BY <2>1 DEF NoStepDroppedEarly
      <3>2. PICK b \in 1..7 : r = SelectorOrder[b]
        BY Channels DEF OrderIInv, SignalsAreKnown
      <3>3. PICK c \in 1..7 : s = SelectorOrder[c]
        BY <1>1, Channels
      <3>4. b <= c
        BY <3>2, <3>3 DEF OrderIInv, DroppedComeFirst
      <3> QED  BY <3>2, <3>3, <3>4, NoWayBack
    <2> QED  BY <1>7, <1>8, <2>2, <2>3, <2>4, <2>5 DEF OrderIInv
  <1>6. CASE status # Asks[s]
    <2>1. /\ status' = status /\ actionLog' = actionLog
          /\ arrived' = arrived /\ dropped' = IF blocked THEN dropped ELSE dropped \union {s}
      BY <1>6 DEF SelectSignal, Forgotten
    <2>2. SignalsAreKnown' /\ BadgesAreKnown'
      BY <1>1, <1>3, <2>1 DEF OrderIInv, SignalsAreKnown, BadgesAreKnown, SelectSignal
    <2>3. LogLeadsToStatus' /\ NoStepDroppedEarly'
      BY <1>6, <2>1 DEF OrderIInv, LogLeadsToStatus, LeadsTo, NoStepDroppedEarly
    <2>4. DroppedComeFirst'
      <3>1. SUFFICES ASSUME NEW r \in dropped', NEW k \in DOMAIN channels',
                            NEW b \in 1..7, NEW d \in 1..7,
                            r = SelectorOrder[b], channels'[k].name = SelectorOrder[d]
                     PROVE  b <= d
        BY DEF DroppedComeFirst
      <3>2. CASE r \in dropped
        BY <1>3, <3>1, <3>2 DEF OrderIInv, DroppedComeFirst
      <3>3. CASE ~blocked /\ r = s
        <4>1. PICK c \in 1..7 :
                 /\ s = SelectorOrder[c]
                 /\ \A j \in DOMAIN channels : \A e \in 1..c :
                       channels[j].name = SelectorOrder[e] => e = c
          BY <1>2, <3>3
        <4>2. b = c
          BY <3>1, <3>3, <4>1 DEF SelectorOrder
        <4>3. \E j \in DOMAIN channels : channels[j].name = SelectorOrder[d]
          BY <1>3, <3>1
        <4>4. d \in 1..c => d = c
          BY <4>1, <4>3
        <4> QED  BY <4>2, <4>4
      <3> QED  BY <2>1, <3>2, <3>3
    <2> QED  BY <1>7, <1>8, <2>2, <2>3, <2>4 DEF OrderIInv
  <1> QED  BY <1>5, <1>6

LEMMA OrderStepInv == OrderIInv /\ [OrderNext]_orderVars => OrderIInv'
  <1> SUFFICES ASSUME OrderIInv, [OrderNext]_orderVars PROVE OrderIInv'
    OBVIOUS
  <1>1. ASSUME UNCHANGED <<status, actionLog, channels, blocked, dropped, begun>>,
               arrived' \in Seq(OrderSignal), BadgesAreKnown'
        PROVE  OrderIInv'
    BY <1>1 DEF OrderIInv, SignalsAreKnown, LogLeadsToStatus, LeadsTo, NoStepDroppedEarly,
                DroppedComeFirst, WakingDropsNothing, BegunIsKnown
  <1>2. ASSUME NEW o \in Operators, RunQuery(o) PROVE OrderIInv'
    <2>1. BadgesAreKnown'
      BY <1>2 DEF RunQuery, OrderIInv, BadgesAreKnown, makeOrderDashboard
    <2> QED  BY <1>1, <1>2, <2>1 DEF RunQuery, OrderIInv, SignalsAreKnown
  <1>3. ASSUME NEW o \in Operators, NEW s \in OrderSignals, Click(o, s) PROVE OrderIInv'
    <2>1. [name |-> s, seen |-> dashboard[o].badge] \in OrderSignal
      BY DEF OrderIInv, BadgesAreKnown, OrderSignal
    <2> QED
      BY <1>1, <1>3, <2>1 DEF Click, OrderIInv, SignalsAreKnown, BadgesAreKnown
  <1>4. ASSUME NEW s \in OrderSignals, SendBlind(s) PROVE OrderIInv'
    <2>1. [name |-> s, seen |-> "none"] \in OrderSignal
      BY DEF OrderSignal
    <2> QED
      BY <1>1, <1>4, <2>1 DEF SendBlind, OrderIInv, SignalsAreKnown, BadgesAreKnown
  <1>5. CASE BeginDecision
    <2>1. SignalsAreKnown' /\ BadgesAreKnown'
      BY <1>5 DEF BeginDecision, OrderIInv, SignalsAreKnown, BadgesAreKnown
    <2>2. LogLeadsToStatus'
      BY <1>5 DEF BeginDecision, OrderIInv, LogLeadsToStatus, LeadsTo
    <2>3. NoStepDroppedEarly' /\ DroppedComeFirst' /\ WakingDropsNothing'
      BY <1>5 DEF BeginDecision, NoStepDroppedEarly, DroppedComeFirst, WakingDropsNothing
    <2>4. blocked' \in BOOLEAN
      BY <1>5, Zenon DEF BeginDecision
    <2>5. /\ begun' = [status |-> status, log |-> actionLog, channels |-> arrived,
                       blocked |-> blocked']
          /\ LeadsTo(actionLog, status)
      BY <1>5 DEF BeginDecision, OrderIInv, LogLeadsToStatus
    <2>6. begun' \in [status : Statuses, log : Seq(OrderSignals), channels : Seq(OrderSignal),
                      blocked : BOOLEAN]
      BY <2>4, <2>5 DEF OrderIInv, BadgesAreKnown, SignalsAreKnown
    <2>7. begun'.log = actionLog /\ begun'.status = status
      BY <2>5
    <2>8. LeadsTo(begun'.log, begun'.status)
      BY <2>5, <2>7
    <2>9. BegunIsKnown'
      BY <2>6, <2>8 DEF BegunIsKnown, LeadsTo
    <2> QED  BY <2>1, <2>2, <2>3, <2>4, <2>9 DEF OrderIInv
  <1>6. ASSUME NEW i \in DOMAIN channels, SelectSignal(i) PROVE OrderIInv'
    BY <1>6, SelectKeepsInv
  <1>7. CASE CloseOrder
    <2>1. SignalsAreKnown' /\ BadgesAreKnown' /\ DroppedComeFirst' /\ WakingDropsNothing'
      BY <1>7 DEF CloseOrder, OrderIInv, SignalsAreKnown, BadgesAreKnown, DroppedComeFirst,
                  WakingDropsNothing
    <2>2. LogLeadsToStatus' /\ NoStepDroppedEarly'
      BY <1>7 DEF CloseOrder, OrderIInv, LogLeadsToStatus, LeadsTo, NoStepDroppedEarly
    <2>3. BegunIsKnown' /\ blocked' \in BOOLEAN
      BY <1>7 DEF CloseOrder, OrderIInv, BegunIsKnown, LeadsTo
    <2> QED  BY <2>1, <2>2, <2>3 DEF OrderIInv
  <1>9. CASE OrderCloseRefused
    <2>1. /\ begun \in [status : Statuses, log : Seq(OrderSignals),
                         channels : Seq(OrderSignal), blocked : BOOLEAN]
          /\ LeadsTo(begun.log, begun.status)
          /\ arrived \in Seq(OrderSignal)
      BY DEF OrderIInv, BegunIsKnown, SignalsAreKnown
    <2>2. /\ status' = begun.status /\ actionLog' = begun.log /\ blocked' = begun.blocked
          /\ channels' = begun.channels \o arrived /\ arrived' = <<>> /\ dropped' = {}
          /\ begun' = [begun EXCEPT !.channels = channels'] /\ UNCHANGED dashboard
      BY <1>9 DEF OrderCloseRefused
    <2>3. channels' \in Seq(OrderSignal)
      BY <2>1, <2>2
    <2>4. /\ begun' \in [status : Statuses, log : Seq(OrderSignals),
                          channels : Seq(OrderSignal), blocked : BOOLEAN]
          /\ begun'.log = begun.log /\ begun'.status = begun.status
      BY <2>1, <2>2, <2>3
    <2>5. LeadsTo(begun.log, begun.status)'
      BY <2>1, <2>4 DEF LeadsTo
    <2>6. LogLeadsToStatus'
      BY <2>1, <2>2 DEF LogLeadsToStatus, LeadsTo
    <2>7. SignalsAreKnown' /\ BadgesAreKnown' /\ blocked' \in BOOLEAN
      BY <2>1, <2>2, <2>3 DEF SignalsAreKnown, OrderIInv, BadgesAreKnown
    <2>8. NoStepDroppedEarly' /\ DroppedComeFirst' /\ WakingDropsNothing'
      BY <2>2 DEF NoStepDroppedEarly, DroppedComeFirst, WakingDropsNothing
    <2> QED  BY <2>4, <2>5, <2>6, <2>7, <2>8 DEF OrderIInv, BegunIsKnown
  <1>8. CASE UNCHANGED orderVars
    BY <1>1, <1>8 DEF orderVars, OrderIInv, SignalsAreKnown, BadgesAreKnown
  <1> QED
    BY <1>2, <1>3, <1>4, <1>5, <1>6, <1>7, <1>8, <1>9 DEF OrderNext

\* For any operators and signals, in any order: the log is a path from the
\* payment to the status.
THEOREM AuditTrail == OrderSpec => []LogLeadsToStatus
  <1>1. OrderIInv => LogLeadsToStatus
    BY DEF OrderIInv
  <1> QED  BY <1>1, OrderInitInv, OrderStepInv, PTL DEF OrderSpec

\* For any operators and signals, in any order: of the signals that Select
\* finds, no decision drops one for a status that it reaches later.
THEOREM SelectorOrderSuffices == OrderSpec => []NoStepDroppedEarly
  <1>1. OrderIInv => NoStepDroppedEarly
    BY DEF OrderIInv
  <1> QED  BY <1>1, OrderInitInv, OrderStepInv, PTL DEF OrderSpec

-----------------------------------------------------------------------------
(* The buttons.  That a dashboard shows only buttons of its badge is not    *)
(* enough: the signal has to keep what the operator saw on its way to the   *)
(* channels and past every other signal that is taken from them.            *)

ButtonsFit ==
    \A o \in Operators : \A s \in dashboard[o].buttons : Asks[s] = dashboard[o].badge

Meant(signal) == signal.seen # "none" => Asks[signal.name] = signal.seen

SignalsFit ==
    /\ \A i \in DOMAIN arrived : Meant(arrived[i])
    /\ \A i \in DOMAIN channels : Meant(channels[i])
    /\ \A i \in DOMAIN begun.channels : Meant(begun.channels[i])

ButtonsIInv == OrderIInv /\ ButtonsFit /\ SignalsFit

LEMMA ButtonTable == \A st \in Statuses : \A s \in Buttons(st) : Asks[s] = st
  BY DEF Buttons, Asks

LEMMA NoneIsNoStatus == "none" \notin Statuses
  <1>1. \A c \in 1..7 : Asks[SelectorOrder[c]] # "none"
    BY DEF Asks, SelectorOrder
  <1> QED  BY <1>1, Channels DEF Statuses, Terminal

\* A signal that is sent joins the others.
LEMMA SendFits ==
    ASSUME OrderIInv, SignalsFit, NEW signal, Meant(signal),
           arrived' = Append(arrived, signal), UNCHANGED <<channels, begun>>
    PROVE  SignalsFit'
  <1>1. /\ DOMAIN arrived' = 1..(Len(arrived) + 1)
        /\ arrived'[Len(arrived) + 1] = signal
        /\ \A i \in 1..Len(arrived) : i \in DOMAIN arrived /\ arrived'[i] = arrived[i]
    BY DEF OrderIInv, SignalsAreKnown
  <1>2. Len(arrived) \in Nat
    BY DEF OrderIInv, SignalsAreKnown
  <1>3. ASSUME NEW i \in DOMAIN arrived' PROVE Meant(arrived'[i])
    <2>1. CASE i = Len(arrived) + 1
      BY <1>1, <2>1
    <2>2. CASE i \in 1..Len(arrived)
      BY <1>1, <2>2 DEF SignalsFit
    <2> QED  BY <1>1, <1>2, <2>1, <2>2
  <1> QED  BY <1>3 DEF SignalsFit, Meant

LEMMA ButtonsStepInv == ButtonsIInv /\ [OrderNext]_orderVars => ButtonsIInv'
  <1> SUFFICES ASSUME ButtonsIInv, [OrderNext]_orderVars PROVE ButtonsIInv'
    OBVIOUS
  <1>1. OrderIInv /\ OrderIInv' /\ ButtonsFit /\ SignalsFit
    BY OrderStepInv DEF ButtonsIInv
  <1>2. ASSUME NEW o \in Operators, RunQuery(o) PROVE ButtonsIInv'
    <2>1. /\ dashboard' = [dashboard EXCEPT ![o] = [badge |-> status, buttons |-> Buttons(status)]]
          /\ UNCHANGED <<arrived, channels, begun>>
      BY <1>2 DEF RunQuery, makeOrderDashboard
    <2>2. \A p \in Operators :
             dashboard'[p] = IF p = o THEN [badge |-> status, buttons |-> Buttons(status)]
                                      ELSE dashboard[p]
      BY <1>1, <2>1 DEF OrderIInv, BadgesAreKnown
    <2>3. \A s \in Buttons(status) : Asks[s] = status
      BY <1>1, ButtonTable DEF OrderIInv, BadgesAreKnown
    <2>4. ButtonsFit'
      BY <1>1, <2>2, <2>3 DEF ButtonsFit
    <2> QED  BY <1>1, <2>1, <2>4 DEF ButtonsIInv, SignalsFit, Meant
  <1>3. ASSUME NEW o \in Operators, NEW s \in OrderSignals, Click(o, s) PROVE ButtonsIInv'
    <2>1. Meant([name |-> s, seen |-> dashboard[o].badge])
      BY <1>1, <1>3 DEF Click, ButtonsFit, Meant
    <2>2. SignalsFit'
      BY <1>1, <1>3, <2>1, SendFits DEF Click
    <2> QED  BY <1>1, <1>3, <2>2 DEF Click, ButtonsIInv, ButtonsFit
  <1>4. ASSUME NEW s \in OrderSignals, SendBlind(s) PROVE ButtonsIInv'
    <2>1. SignalsFit'
      BY <1>1, <1>4, SendFits DEF SendBlind, Meant
    <2> QED  BY <1>1, <1>4, <2>1 DEF SendBlind, ButtonsIInv, ButtonsFit
  <1>5. CASE BeginDecision
    <2>1. /\ channels' = arrived /\ arrived' = <<>> /\ begun'.channels = arrived
          /\ UNCHANGED dashboard
      BY <1>5 DEF BeginDecision
    <2> QED  BY <1>1, <2>1 DEF ButtonsIInv, ButtonsFit, SignalsFit, Meant
  <1>6. ASSUME NEW i \in DOMAIN channels, SelectSignal(i) PROVE ButtonsIInv'
    <2>1. UNCHANGED <<arrived, dashboard, begun>> /\ TakeFromChannel(i)
      BY <1>6 DEF SelectSignal
    <2>2. channels \in Seq(OrderSignal)
      BY <1>1 DEF OrderIInv, SignalsAreKnown
    <2>3. \A k \in DOMAIN channels' : \E j \in DOMAIN channels : channels'[k] = channels[j]
      BY <2>1, <2>2 DEF TakeFromChannel
    <2> QED  BY <1>1, <2>1, <2>3 DEF ButtonsIInv, ButtonsFit, SignalsFit, Meant
  <1>7. CASE CloseOrder
    BY <1>1, <1>7 DEF CloseOrder, ButtonsIInv, ButtonsFit, SignalsFit, Meant
  <1>9. CASE OrderCloseRefused
    <2>1. begun.channels \in Seq(OrderSignal) /\ arrived \in Seq(OrderSignal)
      BY <1>1 DEF OrderIInv, BegunIsKnown, SignalsAreKnown
    <2>2. /\ channels' = begun.channels \o arrived /\ arrived' = <<>>
          /\ begun' = [begun EXCEPT !.channels = channels'] /\ UNCHANGED dashboard
          /\ begun \in [status : Statuses, log : Seq(OrderSignals),
                         channels : Seq(OrderSignal), blocked : BOOLEAN]
      BY <1>1, <1>9 DEF OrderCloseRefused, OrderIInv, BegunIsKnown
    <2>3. begun'.channels = channels'
      BY <2>2
    <2>4. ASSUME NEW i \in DOMAIN channels' PROVE Meant(channels'[i])
      <3>1. CASE i <= Len(begun.channels)
        BY <1>1, <2>1, <2>2, <3>1 DEF SignalsFit
      <3>2. CASE i > Len(begun.channels)
        <4>1. /\ i - Len(begun.channels) \in DOMAIN arrived
              /\ channels'[i] = arrived[i - Len(begun.channels)]
          BY <2>1, <2>2, <3>2
        <4> QED  BY <1>1, <4>1 DEF SignalsFit
      <3> QED  BY <2>1, <2>2, <3>1, <3>2
    <2> QED  BY <1>1, <2>2, <2>3, <2>4 DEF ButtonsIInv, ButtonsFit, SignalsFit, Meant
  <1>8. CASE UNCHANGED orderVars
    BY <1>1, <1>8 DEF orderVars, ButtonsIInv, ButtonsFit, SignalsFit, Meant
  <1> QED  BY <1>2, <1>3, <1>4, <1>5, <1>6, <1>7, <1>8, <1>9 DEF OrderNext

\* For any operators, dashboards and signals, in any order: a signal sent from
\* a dashboard that shows the status the order still has is always applied.
THEOREM ButtonsAlwaysWork == OrderSpec => ButtonsWork
  <1>1. OrderInit => ButtonsIInv
    BY OrderInitInv DEF OrderInit, ButtonsIInv, ButtonsFit, SignalsFit, NoDashboard
  <1> DEFINE Works == \A i \in DOMAIN channels :
                         SelectSignal(i) /\ channels[i].seen = status
                             => actionLog' = Append(actionLog, channels[i].name)
  <1>2. ButtonsIInv => Works
    <2> SUFFICES ASSUME ButtonsIInv, NEW i \in DOMAIN channels, SelectSignal(i),
                        channels[i].seen = status
                 PROVE  actionLog' = Append(actionLog, channels[i].name)
      OBVIOUS
    <2>1. status # "none"
      BY NoneIsNoStatus DEF ButtonsIInv, OrderIInv, BadgesAreKnown
    <2>2. status = Asks[channels[i].name]
      BY <2>1 DEF ButtonsIInv, SignalsFit, Meant
    <2> QED  BY <2>2 DEF SelectSignal
  <1>3. ButtonsIInv => [Works]_orderVars
    BY <1>2
  <1> QED  BY <1>1, <1>3, ButtonsStepInv, PTL DEF OrderSpec, ButtonsWork
=============================================================================
