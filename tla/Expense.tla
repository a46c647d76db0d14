------------------------------ MODULE Expense ------------------------------
(***************************************************************************)
(* The expense sample of cmd/samples/expense: a workflow creates an        *)
(* expense, waits in an asynchronous activity for its approval and pays.   *)
(* The dummy server keeps the state of the expense and the token of the    *)
(* activity in two maps without a lock, and runs a handler for every       *)
(* request; each access of a handler to a map is a step of its own.        *)
(*                                                                         *)
(* Outside the maps the only effect of an unsynchronised access is that    *)
(* the Go runtime may find it and end the process, as any crash would.     *)
(***************************************************************************)
EXTENDS Naturals

CONSTANTS
    Reviewers,      \* people who ask for one decision each
    Payer,          \* the request of paymentActivity
    TimeoutsFire,   \* activities and calls may time out or fail
    MaxRestarts     \* bound of the restarts of the server

ASSUME ExpenseAssumption ==
    /\ Payer \notin Reviewers
    /\ TimeoutsFire \in BOOLEAN
    /\ MaxRestarts \in Nat

VARIABLES
    workflow,   \* where sampleExpenseWorkflow is
    callback,   \* the request of waitForDecisionActivity
    ask,        \* the type each action request asks for
    handler,    \* the action requests: pc, oldState and status
    expense,    \* allExpense[id]
    token,      \* tokenMap has the id
    late,       \* the request on its way of an activity that timed out
    restarts

expenseVars == <<workflow, callback, ask, handler, expense, token, late, restarts>>

Callers == Reviewers \union {Payer}
Requests == {"create", "callback", "payment"}
Ended == {"completed", "declined", "failed"}

StateOf == [approve |-> "APPROVED", reject |-> "REJECTED", payment |-> "COMPLETED"]
Idle == [pc |-> "idle", oldState |-> "NONE", status |-> "NONE"]

ExpenseInit ==
    /\ workflow = "creating"
    /\ callback = "none"
    /\ ask \in {a \in [Callers -> DOMAIN StateOf] :
                    \A c \in Callers : a[c] = "payment" <=> c = Payer}
    /\ handler = [c \in Callers |-> Idle]
    /\ expense = "NONE"
    /\ token = FALSE
    /\ late = "none"
    /\ restarts = 0

-----------------------------------------------------------------------------
(* The workflow and its activities.                                        *)

\* An activity that timed out is not stopped: its request may still arrive.
Requested(request) ==
    CASE workflow = "creating" -> request = "create"
      [] workflow = "waiting" /\ callback = "none" -> request = "callback"
      [] workflow = "paying" /\ handler[Payer].pc = "idle" -> request = "payment"
      [] OTHER -> request = late
Arrives(request) ==
    /\ Requested(request)
    /\ late' = "none"

\* createExpenseActivity; its reply may be lost.
Create ==
    /\ Arrives("create")
    /\ expense = "NONE"
    /\ expense' = "CREATED"
    /\ \/ workflow = "creating" /\ workflow' = "waiting"
       \/ TimeoutsFire /\ workflow' = "failed"
    /\ UNCHANGED <<callback, ask, handler, token, restarts>>

\* callbackHandler looks at the expense; an error reply fails the activity.
CheckCallback ==
    /\ Arrives("callback")
    /\ IF expense = "CREATED"
       THEN callback' = "checked" /\ UNCHANGED workflow
       ELSE callback' = "refused" /\ workflow' = "failed"
    /\ UNCHANGED <<ask, handler, expense, token, restarts>>

\* callbackHandler stores the token, and the activity stays pending.
StoreCallback ==
    /\ callback = "checked"
    /\ callback' = "stored"
    /\ token' = TRUE
    /\ UNCHANGED <<workflow, ask, handler, expense, late, restarts>>

\* paymentActivity gets its reply.
PaymentReturns ==
    /\ workflow = "paying"
    /\ handler[Payer].pc = "done"
    /\ workflow' = "completed"
    /\ UNCHANGED <<callback, ask, handler, expense, token, late, restarts>>

\* Mutant of ActivityFails: the wait for a decision has no timeout.
WaitNeverFails ==
    /\ TimeoutsFire
    /\ workflow \in {"creating", "paying"}
    /\ workflow' = "failed"
    /\ late' \in {"none"} \union {a \in Requests : Requested(a)}
    /\ UNCHANGED <<callback, ask, handler, expense, token, restarts>>

\* A timeout of the activity that runs, or an error of its call.
ActivityFails ==
    /\ TimeoutsFire
    /\ workflow \in {"creating", "waiting", "paying"}
    /\ workflow' = "failed"
    /\ late' \in {"none"} \union {a \in Requests : Requested(a)}
    /\ UNCHANGED <<callback, ask, handler, expense, token, restarts>>

-----------------------------------------------------------------------------
(* actionHandler, for a decision of a reviewer or for the payment.         *)

At(c, pc) == handler[c].pc = pc

\* An error reply, ERROR:INVALID_ID, fails the payment activity.
ReadOldState(c) ==
    /\ At(c, "idle")
    /\ IF c = Payer THEN Arrives("payment") ELSE expense # "NONE" /\ UNCHANGED late
    /\ IF expense = "NONE"
       THEN /\ handler' = [handler EXCEPT ![c].pc = "refused"]
            /\ workflow' = "failed"
       ELSE /\ handler' = [handler EXCEPT ![c].pc = "set", ![c].oldState = expense]
            /\ UNCHANGED workflow
    /\ UNCHANGED <<callback, ask, expense, token, restarts>>

SetState(c) ==
    /\ At(c, "set")
    /\ expense' = StateOf[ask[c]]
    /\ handler' = [handler EXCEPT ![c].pc =
                     IF handler[c].oldState = "CREATED"
                     THEN "isApproved" ELSE "done"]
    /\ UNCHANGED <<workflow, callback, ask, token, late, restarts>>

\* allExpense[id] == approved || allExpense[id] == rejected: two reads.
IsApproved(c) ==
    /\ At(c, "isApproved")
    /\ handler' = [handler EXCEPT ![c].pc =
                     IF expense = "APPROVED" THEN "status" ELSE "isRejected"]
    /\ UNCHANGED <<workflow, callback, ask, expense, token, late, restarts>>

IsRejected(c) ==
    /\ At(c, "isRejected")
    /\ handler' = [handler EXCEPT ![c].pc =
                     IF expense = "REJECTED" THEN "status" ELSE "done"]
    /\ UNCHANGED <<workflow, callback, ask, expense, token, late, restarts>>

\* Mutant of ReadStatus: the state before the change is reported.
ReadOldStatus(c) ==
    /\ At(c, "status")
    /\ handler' = [handler EXCEPT ![c].pc = "notify", ![c].status = handler[c].oldState]
    /\ UNCHANGED <<workflow, callback, ask, expense, token, late, restarts>>

\* The argument of notifyExpenseStateChange: a third read.
ReadStatus(c) ==
    /\ At(c, "status")
    /\ handler' = [handler EXCEPT ![c].pc = "notify", ![c].status = expense]
    /\ UNCHANGED <<workflow, callback, ask, expense, token, late, restarts>>

\* Mutant of AfterDecision: any completion of the activity is taken for an approval.
AfterAnyDecision(status) == workflow' = "paying"

\* The workflow goes on with the status that completed the activity.
AfterDecision(status) == workflow' = IF status = "APPROVED" THEN "paying" ELSE "declined"

\* notifyExpenseStateChange: without a token nothing is reported; an activity
\* that is closed already, or a call that fails, is only printed.
Notify(c) ==
    /\ At(c, "notify")
    /\ handler' = [handler EXCEPT ![c].pc = "done"]
    /\ \/ token /\ workflow = "waiting" /\ AfterDecision(handler[c].status)
       \/ /\ ~token \/ workflow # "waiting" \/ TimeoutsFire
          /\ UNCHANGED workflow
    /\ UNCHANGED <<callback, ask, expense, token, late, restarts>>

HandlerStep(c) ==
    \/ SetState(c) \/ IsApproved(c) \/ IsRejected(c) \/ ReadStatus(c) \/ Notify(c)

\* The process ends and is started again: the maps are empty, the requests it
\* was handling are lost and their activities fail.
ServerRestart ==
    /\ restarts < MaxRestarts
    /\ restarts' = restarts + 1
    /\ expense' = "NONE"
    /\ token' = FALSE
    /\ handler' = [c \in Callers |->
                      IF At(c, "idle") \/ (At(c, "set") /\ c # Payer) THEN Idle
                      ELSE [handler[c] EXCEPT !.pc = "done"]]
    /\ callback' = IF callback = "checked" THEN "refused" ELSE callback
    /\ workflow' = IF \/ workflow = "waiting" /\ callback = "checked"
                      \/ workflow = "paying" /\ ~At(Payer, "idle")
                   THEN "failed" ELSE workflow
    /\ UNCHANGED <<ask, late>>

-----------------------------------------------------------------------------

ExpenseStep ==
    Create \/ CheckCallback \/ StoreCallback \/ PaymentReturns

ExpenseNext ==
    \/ ExpenseStep \/ ActivityFails
    \/ \E c \in Callers : ReadOldState(c) \/ HandlerStep(c)
    \/ ServerRestart

ExpenseSpec == ExpenseInit /\ [][ExpenseNext]_expenseVars

(* Workers poll, a handler that runs returns, the payment is requested and
   the timeout of a pending activity fires.  Reviewers need not decide.    *)
ExpenseFairness ==
    /\ WF_expenseVars(ExpenseStep)
    /\ WF_expenseVars(ActivityFails)
    /\ WF_expenseVars(ReadOldState(Payer))
    /\ \A c \in Callers : WF_expenseVars(HandlerStep(c))

ExpenseFairSpec == ExpenseSpec /\ ExpenseFairness

-----------------------------------------------------------------------------
(* Properties.                                                             *)

ExpenseTypeOK ==
    /\ workflow \in {"creating", "waiting", "paying"} \union Ended
    /\ callback \in {"none", "checked", "stored", "refused"}
    /\ ask \in [Callers -> DOMAIN StateOf]
    /\ handler \in [Callers ->
            [pc : {"idle", "set", "isApproved", "isRejected", "status",
                   "notify", "done", "refused"},
             oldState : {"NONE", "CREATED", "APPROVED", "REJECTED", "COMPLETED"},
             status : {"NONE", "APPROVED", "REJECTED", "COMPLETED"}]]
    /\ expense \in {"NONE", "CREATED", "APPROVED", "REJECTED", "COMPLETED"}
    /\ token \in BOOLEAN
    /\ late \in {"none"} \union Requests
    /\ restarts \in 0..MaxRestarts

\* A decision that has reached the map at some time.
Decided(type) ==
    \E r \in Reviewers :
        ask[r] = type /\ handler[r].pc \notin {"idle", "set", "refused"}

\* However the handlers of concurrent and contradictory decisions, of the
\* callback and of the payment interleave, and whenever the server loses its
\* memory: an expense is paid only if somebody approved it, and a workflow
\* ends without payment only if somebody rejected it.
DecisionWasMade ==
    /\ workflow \in {"paying", "completed"} \/ expense = "COMPLETED" =>
            Decided("approve")
    /\ workflow = "declined" => Decided("reject")

\* The inductive strengthening: what the map and the handlers say was decided,
\* and the payment comes after the wait.
Reporting == {"isApproved", "isRejected", "status", "notify"}

RecordsAreDecisions ==
    /\ expense = "APPROVED" => Decided("approve")
    /\ expense = "REJECTED" => Decided("reject")
    /\ \A c \in Callers :
        /\ handler[c].status = "APPROVED" => Decided("approve")
        /\ handler[c].status = "REJECTED" => Decided("reject")

HandlersFollowCreate ==
    /\ workflow = "creating" => expense = "NONE"
    /\ \A c \in Callers :
        /\ handler[c].pc = "set" => expense # "NONE"
        /\ handler[c].pc \in Reporting => expense \notin {"NONE", "CREATED"}
        /\ handler[c].pc = "notify" /\ workflow = "waiting" =>
                handler[c].status \in {"APPROVED", "REJECTED"}

PaymentFollowsWait ==
    /\ workflow \in {"creating", "waiting"} =>
            handler[Payer].pc = "idle" /\ expense # "COMPLETED"
    /\ handler[Payer].pc # "idle" \/ late = "payment" => Decided("approve")
    /\ late # "none" => workflow = "failed"

AsksAreFixed == \A c \in Callers : ask[c] = "payment" <=> c = Payer

ExpenseIInv ==
    /\ ExpenseTypeOK
    /\ DecisionWasMade
    /\ RecordsAreDecisions
    /\ HandlersFollowCreate
    /\ PaymentFollowsWait
    /\ AsksAreFixed

\* The workflow comes to an end though a decision that nobody reported, or
\* nobody made, never completes the activity.
ExpenseEnds == <>(workflow \in Ended)

\* expense/README.md:28: "You should see the workflow complete after you
\* approve the expense": once it is approved, with nobody to reject it and no
\* timeout, the workflow completes.
ApprovalCompletes == expense = "APPROVED" ~> workflow = "completed"
=============================================================================
