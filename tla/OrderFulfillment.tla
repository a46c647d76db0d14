-------------------------- MODULE OrderFulfillment --------------------------
(***************************************************************************)
(* OrderFulfillmentWorkflow of new_samples/query: an order whose status    *)
(* operators advance with signals, from a dashboard that a query renders.  *)
(* The signals a decision sees wait in seven channels.  A selector that is *)
(* blocked is woken by the first signal that comes; one that finds signals *)
(* takes the first channel, in the order of registration, that has one.    *)
(***************************************************************************)
EXTENDS Naturals, Sequences

CONSTANTS
    Operators,
    MaxClicks,  \* bound of the signals sent from a dashboard
    MaxBlind    \* bound of the signals sent from the command line

ASSUME OrderAssumption == MaxClicks \in Nat /\ MaxBlind \in Nat

VARIABLES
    status,     \* order.Status
    actionLog,  \* the signals that were applied, oldest first
    arrived,    \* signals of the history that no decision has seen
    channels,   \* signals in the channels of the workflow
    blocked,    \* Select has found nothing and waits
    dropped,    \* signals that Select found, not what woke it, and forgot
    begun,      \* what the last decision began with
    closed,     \* the run is closed
    dashboard,  \* the query answer each operator looks at
    clicks,
    blind

orderVars == <<status, actionLog, arrived, channels, blocked, dropped, begun, closed,
               dashboard, clicks, blind>>

Terminal == {"delivered", "cancelled", "refunded"}

\* Mutant of SelectorOrder: the later steps of an order come first.
SelectorFromEnd ==
    <<"mark_delivered", "cancel_order", "issue_refund", "ship_order",
      "mark_ready_to_ship", "reject_payment", "approve_payment">>

\* The channels in the order the selector is given them.
SelectorOrder ==
    <<"approve_payment", "reject_payment", "mark_ready_to_ship", "ship_order",
      "issue_refund", "cancel_order", "mark_delivered">>
OrderSignals == {SelectorOrder[i] : i \in DOMAIN SelectorOrder}

\* Mutant of Asks: a refund is refused once the payment is approved.
AsksRefundLate ==
    [approve_payment |-> "pending_payment", reject_payment |-> "pending_payment",
     mark_ready_to_ship |-> "payment_approved", ship_order |-> "ready_to_ship",
     issue_refund |-> "ready_to_ship", cancel_order |-> "ready_to_ship",
     mark_delivered |-> "shipped"]

\* The status each handler asks for, and the one it leaves.
Asks == [approve_payment |-> "pending_payment", reject_payment |-> "pending_payment",
         mark_ready_to_ship |-> "payment_approved", ship_order |-> "ready_to_ship",
         issue_refund |-> "payment_approved", cancel_order |-> "ready_to_ship",
         mark_delivered |-> "shipped"]
Leaves == [approve_payment |-> "payment_approved", reject_payment |-> "cancelled",
           mark_ready_to_ship |-> "ready_to_ship", ship_order |-> "shipped",
           issue_refund |-> "refunded", cancel_order |-> "cancelled",
           mark_delivered |-> "delivered"]

\* makeActionButtons: what the dashboard offers in a status.
Buttons(s) ==
    CASE s = "pending_payment"  -> {"approve_payment", "reject_payment"}
      [] s = "payment_approved" -> {"mark_ready_to_ship", "issue_refund"}
      [] s = "ready_to_ship"    -> {"ship_order", "cancel_order"}
      [] s = "shipped"          -> {"mark_delivered"}
      [] OTHER                  -> {}

NoDashboard == [badge |-> "none", buttons |-> {}]
makeOrderDashboard == [badge |-> status, buttons |-> Buttons(status)]

OrderInit ==
    /\ status = "pending_payment"
    /\ actionLog = <<>>
    /\ arrived = <<>>
    /\ channels = <<>>
    /\ blocked = FALSE
    /\ dropped = {}
    /\ begun = [status |-> status, log |-> <<>>, channels |-> <<>>, blocked |-> FALSE]
    /\ closed = FALSE
    /\ dashboard = [o \in Operators |-> NoDashboard]
    /\ clicks = 0
    /\ blind = 0

-----------------------------------------------------------------------------
\* An operator runs the query, which the first decision registers.  A decision
\* is not seen half made.
RunQuery(o) ==
    /\ closed \/ (blocked /\ channels = <<>> /\ status \notin Terminal)
    /\ dashboard' = [dashboard EXCEPT ![o] = makeOrderDashboard]
    /\ UNCHANGED <<status, actionLog, arrived, channels, blocked, dropped, begun, closed,
                   clicks, blind>>

\* A button sends its signal, whatever has become of the order since.
Click(o, s) ==
    /\ ~closed
    /\ clicks < MaxClicks
    /\ s \in dashboard[o].buttons
    /\ clicks' = clicks + 1
    /\ arrived' = Append(arrived, [name |-> s, seen |-> dashboard[o].badge])
    /\ UNCHANGED <<status, actionLog, channels, blocked, dropped, begun, closed,
                   dashboard, blind>>

\* Any signal may be sent without a dashboard.
SendBlind(s) ==
    /\ ~closed
    /\ blind < MaxBlind
    /\ blind' = blind + 1
    /\ arrived' = Append(arrived, [name |-> s, seen |-> "none"])
    /\ UNCHANGED <<status, actionLog, channels, blocked, dropped, begun, closed,
                   dashboard, clicks>>

\* A decision begins: the channels get what has arrived.  The first decision
\* comes with the start of the run, and may find nothing.
BeginDecision ==
    /\ channels = <<>>
    /\ arrived # <<>> \/ ~blocked
    /\ status \notin Terminal
    /\ channels' = arrived
    /\ arrived' = <<>>
    /\ blocked' = (blocked \/ arrived = <<>>)
    /\ dropped' = {}
    /\ begun' = [status |-> status, log |-> actionLog, channels |-> arrived,
                 blocked |-> blocked']
    /\ UNCHANGED <<status, actionLog, closed, dashboard, clicks, blind>>

\* The oldest signal of the first channel that has any.
Selected(i) ==
    \E c \in DOMAIN SelectorOrder :
        /\ channels[i].name = SelectorOrder[c]
        /\ \A j \in DOMAIN channels : \A d \in 1..c :
              channels[j].name = SelectorOrder[d] => d = c /\ j >= i

\* The signal is received; without another the next Select blocks.
TakeFromChannel(i) ==
    /\ channels' = [j \in 1..(Len(channels) - 1) |->
                       IF j < i THEN channels[j] ELSE channels[j + 1]]
    /\ blocked' = (Len(channels) = 1)

Forgotten(s) == IF blocked THEN dropped ELSE dropped \union {s}

\* Mutant of SelectSignal: the log gets the signals that are dropped as well.
SelectAndLog(i) ==
    LET s == channels[i].name
    IN  /\ status \notin Terminal
        /\ IF blocked THEN i = 1 ELSE Selected(i)
        /\ actionLog' = Append(actionLog, s)
        /\ IF status = Asks[s]
           THEN status' = Leaves[s] /\ UNCHANGED dropped
           ELSE dropped' = Forgotten(s) /\ UNCHANGED status
        /\ TakeFromChannel(i)
        /\ UNCHANGED <<arrived, begun, closed, dashboard, clicks, blind>>

\* One round of the loop.  A signal that does not fit the status is received
\* and forgotten.
SelectSignal(i) ==
    LET s == channels[i].name
    IN  /\ status \notin Terminal
        /\ IF blocked THEN i = 1 ELSE Selected(i)
        /\ IF status = Asks[s]
           THEN /\ status' = Leaves[s]
                /\ actionLog' = Append(actionLog, s)
                /\ UNCHANGED dropped
           ELSE /\ dropped' = Forgotten(s)
                /\ UNCHANGED <<status, actionLog>>
        /\ TakeFromChannel(i)
        /\ UNCHANGED <<arrived, begun, closed, dashboard, clicks, blind>>

\* The loop ends in a terminal status; the channels go with the run.
CloseOrder ==
    /\ status \in Terminal
    /\ ~closed
    /\ arrived = <<>>
    /\ closed' = TRUE
    /\ channels' = <<>>
    /\ UNCHANGED <<status, actionLog, arrived, blocked, dropped, begun, dashboard,
                   clicks, blind>>

\* The server refuses to close a run that got a signal during the decision: it
\* is made again, with what has arrived, from where it began.
OrderCloseRefused ==
    /\ status \in Terminal
    /\ ~closed
    /\ arrived # <<>>
    /\ status' = begun.status
    /\ actionLog' = begun.log
    /\ channels' = begun.channels \o arrived
    /\ begun' = [begun EXCEPT !.channels = channels']
    /\ blocked' = begun.blocked
    /\ dropped' = {}
    /\ arrived' = <<>>
    /\ UNCHANGED <<closed, dashboard, clicks, blind>>

OrderNext ==
    \/ \E o \in Operators : RunQuery(o) \/ \E s \in OrderSignals : Click(o, s)
    \/ \E s \in OrderSignals : SendBlind(s)
    \/ BeginDecision
    \/ \E i \in DOMAIN channels : SelectSignal(i)
    \/ CloseOrder
    \/ OrderCloseRefused

OrderSpec == OrderInit /\ [][OrderNext]_orderVars

-----------------------------------------------------------------------------
Statuses == {Asks[s] : s \in OrderSignals} \union Terminal
OrderSignal == [name : OrderSignals, seen : Statuses \union {"none"}]

OrderTypeOK ==
    /\ status \in Statuses
    /\ actionLog \in Seq(OrderSignals)
    /\ arrived \in Seq(OrderSignal)
    /\ channels \in Seq(OrderSignal)
    /\ dashboard \in [Operators -> [badge : Statuses \union {"none"}, buttons : SUBSET OrderSignals]]
    /\ blocked \in BOOLEAN /\ closed \in BOOLEAN
    /\ begun \in [status : Statuses, log : Seq(OrderSignals), channels : Seq(OrderSignal),
                  blocked : BOOLEAN]
    /\ dropped \subseteq OrderSignals
    /\ clicks \in Nat /\ blind \in Nat

\* The action log is the audit trail of the status: it leads from the payment
\* to the status the order has, each action from where the last one left it,
\* whatever came in between and whatever decisions are made again.
LeadsTo(log, st) ==
    LET n == Len(log)
    IN  /\ st = IF n = 0 THEN "pending_payment" ELSE Leaves[log[n]]
        /\ n > 0 => Asks[log[1]] = "pending_payment"
        /\ \A i \in 1..(n - 1) : Asks[log[i + 1]] = Leaves[log[i]]
LogLeadsToStatus == LeadsTo(actionLog, status)

\* What the workflow does with the signal it takes: one that was sent from a
\* dashboard showing the current status is applied, so that every button works
\* unless the order has moved on since the operator looked.
ButtonsWork ==
    [][\A i \in DOMAIN channels :
          SelectSignal(i) /\ channels[i].seen = status
              => actionLog' = Append(actionLog, channels[i].name)]_orderVars

\* The channels are looked at in the order an order goes through its statuses:
\* of the signals that Select finds, a decision drops none for a status that it
\* then reaches.  (The signal that wakes a blocked Select has no such luck.)
NoStepDroppedEarly == \A s \in dropped : Asks[s] # status
=============================================================================
