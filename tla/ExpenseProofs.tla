--------------------------- MODULE ExpenseProofs ---------------------------
(***************************************************************************)
(* Theorems about Expense, for any number of reviewers and restarts.       *)
(***************************************************************************)
EXTENDS Expense, TLAPS

HandlerRecord ==
    [pc : {"idle", "set", "isApproved", "isRejected", "status",
           "notify", "done", "refused"},
     oldState : {"NONE", "CREATED", "APPROVED", "REJECTED", "COMPLETED"},
     status : {"NONE", "APPROVED", "REJECTED", "COMPLETED"}]

LEMMA ExpenseInitInv == ExpenseInit => ExpenseIInv
  <1> SUFFICES ASSUME ExpenseInit PROVE ExpenseIInv
    OBVIOUS
  <1>1. ExpenseTypeOK
    <2>1. Idle \in HandlerRecord
      BY DEF Idle, HandlerRecord
    <2>2. handler \in [Callers -> HandlerRecord]
      BY <2>1 DEF ExpenseInit
    <2>3. restarts \in 0..MaxRestarts
      BY ExpenseAssumption DEF ExpenseInit
    <2>4. ask \in [Callers -> DOMAIN StateOf]
      BY DEF ExpenseInit
    <2>. QED  BY <2>2, <2>3, <2>4 DEF ExpenseInit, ExpenseTypeOK, HandlerRecord
  <1>2. AsksAreFixed
    BY DEF ExpenseInit, AsksAreFixed
  <1>3. \A c \in Callers : handler[c].pc = "idle" /\ handler[c].status = "NONE"
    BY DEF ExpenseInit, Idle
  <1>4. HandlersFollowCreate /\ PaymentFollowsWait
    BY <1>3 DEF ExpenseInit, HandlersFollowCreate, PaymentFollowsWait, Reporting,
                Callers
  <1>5. DecisionWasMade /\ RecordsAreDecisions
    BY <1>3 DEF ExpenseInit, DecisionWasMade, RecordsAreDecisions
  <1>. QED  BY <1>1, <1>2, <1>4, <1>5 DEF ExpenseIInv

\* A decision that reached the map stays a decision.
LEMMA DecidedStays ==
    ASSUME ExpenseTypeOK, UNCHANGED ask,
           \A r \in Reviewers :
               handler[r].pc \notin {"idle", "set", "refused"}
                   => handler'[r].pc \notin {"idle", "set", "refused"},
           NEW type
    PROVE  Decided(type) => Decided(type)'
  BY DEF Decided

\* Every step preserves the inductive invariant, one action at a time.
LEMMA StepInv ==
    ASSUME ExpenseIInv, ExpenseNext
    PROVE  ExpenseIInv'
  <1> USE DEF ExpenseIInv
  <1>1. CASE Create
    <2>1. ExpenseTypeOK'
      BY <1>1 DEF Create, Arrives, ExpenseTypeOK, Ended
    <2>2. RecordsAreDecisions' /\ AsksAreFixed' /\ DecisionWasMade'
      BY <1>1 DEF Create, RecordsAreDecisions, AsksAreFixed, DecisionWasMade, Decided
    <2>3. HandlersFollowCreate' /\ PaymentFollowsWait'
      <3>1. \A c \in Callers : handler[c].pc # "set" /\ handler[c].pc \notin Reporting
        BY <1>1 DEF Create, HandlersFollowCreate
      <3>2. PaymentFollowsWait'
        <4>1. workflow = "creating" \/ workflow = "failed"
          BY <1>1 DEF Create, Arrives, Requested, PaymentFollowsWait
        <4>2. workflow = "creating" => handler[Payer].pc = "idle"
          BY DEF PaymentFollowsWait
        <4>3. /\ workflow' = "waiting" => workflow = "creating"
              /\ workflow' \in {"waiting", "failed"} /\ expense' = "CREATED"
              /\ late' = "none" /\ UNCHANGED <<handler, ask>>
          BY <1>1 DEF Create, Arrives
        <4>4. handler[Payer].pc # "idle" => Decided("approve")'
          BY <4>3 DEF PaymentFollowsWait, Decided
        <4> QED  BY <4>2, <4>3, <4>4 DEF PaymentFollowsWait
      <3>3. HandlersFollowCreate'
        BY <1>1, <3>1 DEF Create, HandlersFollowCreate, Reporting
      <3>. QED  BY <3>2, <3>3
    <2>. QED  BY <2>1, <2>2, <2>3
  <1>2. CASE CheckCallback \/ StoreCallback \/ ActivityFails \/ PaymentReturns
    <2> USE <1>2 DEF CheckCallback, StoreCallback, ActivityFails, PaymentReturns,
                 Arrives, Requested
    <2>1. ExpenseTypeOK'
      BY DEF ExpenseTypeOK, Ended, Requests
    <2>2. RecordsAreDecisions' /\ AsksAreFixed'
      BY DEF RecordsAreDecisions, AsksAreFixed, Decided
    <2>3. DecisionWasMade'
      BY DEF DecisionWasMade, Decided
    <2>4. HandlersFollowCreate' /\ PaymentFollowsWait'
      <3>1. HandlersFollowCreate'
        BY DEF HandlersFollowCreate, PaymentFollowsWait
      <3>2. workflow \in {"paying", "completed"} => Decided("approve")
        BY DEF DecisionWasMade
      <3>3. late' = "payment" => Decided("approve")
        BY <3>2 DEF PaymentFollowsWait
      <3>4. late' # "none" => workflow' = "failed"
        BY DEF PaymentFollowsWait
      <3>5. Decided("approve") => Decided("approve")'
        BY DEF Decided
      <3>6. /\ workflow' \in {"creating", "waiting"} => workflow = workflow'
            /\ UNCHANGED <<handler, expense>>
        OBVIOUS
      <3> QED  BY <3>1, <3>3, <3>4, <3>5, <3>6 DEF PaymentFollowsWait
    <2>. QED  BY <2>1, <2>2, <2>3, <2>4
  <1>3. ASSUME NEW c \in Callers, ReadOldState(c) PROVE ExpenseIInv'
    <2>1. ExpenseTypeOK'
      BY <1>3 DEF ReadOldState, Arrives, ExpenseTypeOK, Ended, At
    <2>2. \A type : Decided(type) => Decided(type)'
      <3>1. \A r \in Reviewers :
                handler[r].pc \notin {"idle", "set", "refused"} => handler'[r] = handler[r]
        BY <1>3 DEF ReadOldState, At, ExpenseTypeOK, Callers
      <3>. QED  BY <1>3, <3>1, DecidedStays DEF ReadOldState
    <2>3. \A d \in Callers : handler'[d].status = handler[d].status
      BY <1>3 DEF ReadOldState, ExpenseTypeOK
    <2>4. RecordsAreDecisions' /\ AsksAreFixed'
      BY <1>3, <2>2, <2>3 DEF ReadOldState, RecordsAreDecisions, AsksAreFixed
    <2>5. DecisionWasMade'
      BY <1>3, <2>2 DEF ReadOldState, DecisionWasMade
    <2>6. HandlersFollowCreate'
      BY <1>3 DEF ReadOldState, HandlersFollowCreate, ExpenseTypeOK, Reporting, At
    <2>7. PaymentFollowsWait'
      <3>1. CASE c = Payer
        <4>1. \/ workflow = "paying"
              \/ late = "payment" /\ workflow = "failed"
          BY <1>3, <3>1 DEF ReadOldState, Arrives, Requested, PaymentFollowsWait
        <4>2. Decided("approve")'
          BY <2>2, <4>1 DEF DecisionWasMade, PaymentFollowsWait
        <4>3. workflow' \in {workflow, "failed"} /\ late' = "none"
          BY <1>3, <3>1 DEF ReadOldState, Arrives
        <4>. QED  BY <4>1, <4>2, <4>3 DEF PaymentFollowsWait
      <3>2. CASE c # Payer
        <4>1. handler'[Payer] = handler[Payer] /\ UNCHANGED expense
          BY <1>3, <3>2 DEF ReadOldState, ExpenseTypeOK, Callers
        <4>2. workflow' \in {workflow, "failed"} /\ UNCHANGED late
          BY <1>3, <3>2 DEF ReadOldState
        <4>. QED  BY <2>2, <4>1, <4>2 DEF PaymentFollowsWait
      <3>. QED  BY <3>1, <3>2
    <2>. QED  BY <2>1, <2>4, <2>5, <2>6, <2>7
  <1>4. ASSUME NEW c \in Callers, SetState(c) PROVE ExpenseIInv'
    <2>1. ExpenseTypeOK'
      BY <1>4 DEF SetState, ExpenseTypeOK, StateOf, At
    <2>2. \A type : Decided(type) => Decided(type)'
      BY <1>4, DecidedStays DEF SetState, At, ExpenseTypeOK
    <2>3. \A d \in Callers : handler'[d].status = handler[d].status
      BY <1>4 DEF SetState, ExpenseTypeOK
    <2>4. c # Payer => c \in Reviewers /\ Decided(ask[c])'
      BY <1>4, <2>1 DEF SetState, Decided, Callers, ExpenseTypeOK, At
    <2>5. ask[c] \in {"approve", "reject", "payment"} /\ (ask[c] = "payment" <=> c = Payer)
      BY DEF ExpenseTypeOK, StateOf, AsksAreFixed
    <2>6. /\ ask[c] = "approve" => expense' = "APPROVED" /\ Decided("approve")'
          /\ ask[c] = "reject" => expense' = "REJECTED" /\ Decided("reject")'
          /\ ask[c] = "payment" => expense' = "COMPLETED"
      BY <1>4, <2>4, <2>5 DEF SetState, StateOf
    <2>7. RecordsAreDecisions' /\ AsksAreFixed'
      BY <1>4, <2>2, <2>3, <2>5, <2>6 DEF SetState, RecordsAreDecisions, AsksAreFixed
    <2>8. HandlersFollowCreate'
      BY <1>4, <2>5, <2>6 DEF SetState, HandlersFollowCreate, ExpenseTypeOK,
                              Reporting, At
    <2>9. PaymentFollowsWait'
      <3>1. handler'[Payer].pc # "idle" => handler[Payer].pc # "idle"
        BY <1>4 DEF SetState, ExpenseTypeOK, Callers, At
      <3>2. handler[Payer].pc = "idle" => handler'[Payer].pc = "idle" /\ c # Payer
        BY <1>4 DEF SetState, ExpenseTypeOK, Callers, At
      <3>. QED  BY <1>4, <2>2, <2>5, <2>6, <3>1, <3>2 DEF SetState, PaymentFollowsWait
    <2>10. DecisionWasMade'
      <3>1. CASE c = Payer
        <4>1. Decided("approve")
          BY <1>4, <3>1 DEF SetState, At, PaymentFollowsWait
        <4>. QED  BY <1>4, <2>2, <4>1 DEF SetState, DecisionWasMade
      <3>2. CASE c # Payer
        BY <1>4, <2>2, <2>5, <2>6, <3>2 DEF SetState, DecisionWasMade
      <3>. QED  BY <3>1, <3>2
    <2>. QED  BY <2>1, <2>7, <2>8, <2>9, <2>10
  <1>5. ASSUME NEW c \in Callers, IsApproved(c) \/ IsRejected(c) PROVE ExpenseIInv'
    <2> USE <1>5 DEF IsApproved, IsRejected
    <2>1. ExpenseTypeOK'
      BY DEF ExpenseTypeOK, At
    <2>2. \A type : Decided(type) => Decided(type)'
      <3>1. \A r \in Reviewers :
                handler[r].pc \notin {"idle", "set", "refused"}
                    => handler'[r].pc \notin {"idle", "set", "refused"}
        BY DEF At, ExpenseTypeOK, Callers
      <3>. QED  BY <3>1, DecidedStays
    <2>3. \A d \in Callers : handler'[d].status = handler[d].status
      BY DEF ExpenseTypeOK
    <2>4. RecordsAreDecisions' /\ AsksAreFixed'
      BY <2>2, <2>3 DEF RecordsAreDecisions, AsksAreFixed
    <2>5. DecisionWasMade'
      BY <2>2 DEF DecisionWasMade
    <2>6. HandlersFollowCreate'
      BY DEF HandlersFollowCreate, ExpenseTypeOK, Reporting, At
    <2>7. PaymentFollowsWait'
      BY <2>2 DEF PaymentFollowsWait, ExpenseTypeOK, Callers, At
    <2>. QED  BY <2>1, <2>4, <2>5, <2>6, <2>7
  <1>6. ASSUME NEW c \in Callers, ReadStatus(c) PROVE ExpenseIInv'
    <2> USE <1>6 DEF ReadStatus
    <2>0. expense \in {"APPROVED", "REJECTED", "COMPLETED"}
      BY DEF HandlersFollowCreate, Reporting, ExpenseTypeOK, At
    <2>1. ExpenseTypeOK'
      BY <2>0 DEF ExpenseTypeOK, At
    <2>2. \A type : Decided(type) => Decided(type)'
      <3>1. \A r \in Reviewers :
                handler[r].pc \notin {"idle", "set", "refused"}
                    => handler'[r].pc \notin {"idle", "set", "refused"}
        BY DEF At, ExpenseTypeOK, Callers
      <3>. QED  BY <3>1, DecidedStays
    <2>3. handler'[c].status = expense
      BY DEF ExpenseTypeOK
    <2>4. \A d \in Callers : d # c => handler'[d] = handler[d]
      BY DEF ExpenseTypeOK
    <2>5. RecordsAreDecisions' /\ AsksAreFixed'
      BY <2>2, <2>3, <2>4 DEF RecordsAreDecisions, AsksAreFixed
    <2>6. DecisionWasMade'
      BY <2>2 DEF DecisionWasMade
    <2>7. HandlersFollowCreate'
      BY <2>0, <2>3, <2>4 DEF HandlersFollowCreate, PaymentFollowsWait, ExpenseTypeOK,
                              Reporting, At
    <2>8. PaymentFollowsWait'
      BY <2>2 DEF PaymentFollowsWait, ExpenseTypeOK, Callers, At
    <2>. QED  BY <2>1, <2>5, <2>6, <2>7, <2>8
  <1>7. ASSUME NEW c \in Callers, Notify(c) PROVE ExpenseIInv'
    <2> USE <1>7 DEF Notify, AfterDecision
    <2>1. ExpenseTypeOK'
      BY DEF ExpenseTypeOK, Ended, At
    <2>2. \A type : Decided(type) => Decided(type)'
      <3>1. \A r \in Reviewers :
                handler[r].pc \notin {"idle", "set", "refused"}
                    => handler'[r].pc \notin {"idle", "set", "refused"}
        BY DEF At, ExpenseTypeOK, Callers
      <3>. QED  BY <3>1, DecidedStays
    <2>3. \A d \in Callers : handler'[d].status = handler[d].status
      BY DEF ExpenseTypeOK
    <2>4. RecordsAreDecisions' /\ AsksAreFixed'
      BY <2>2, <2>3 DEF RecordsAreDecisions, AsksAreFixed
    <2>5. DecisionWasMade'
      <3>1. CASE UNCHANGED workflow
        BY <2>2, <3>1 DEF DecisionWasMade
      <3>2. CASE workflow = "waiting" /\ AfterDecision(handler[c].status)
        <4>1. handler[c].status \in {"APPROVED", "REJECTED"}
          BY <3>2 DEF HandlersFollowCreate, At
        <4>2. /\ handler[c].status = "APPROVED" => Decided("approve")
              /\ handler[c].status = "REJECTED" => Decided("reject")
          BY DEF RecordsAreDecisions
        <4>. QED  BY <2>2, <3>2, <4>1, <4>2 DEF DecisionWasMade
      <3>. QED  BY <3>1, <3>2
    <2>6. HandlersFollowCreate'
      BY DEF HandlersFollowCreate, ExpenseTypeOK, Reporting, At
    <2>7. PaymentFollowsWait'
      BY <2>2 DEF PaymentFollowsWait, ExpenseTypeOK, Callers, At
    <2>. QED  BY <2>1, <2>4, <2>5, <2>6, <2>7
  <1>8. CASE ServerRestart
    <2> USE <1>8 DEF ServerRestart
    <2>1. \A c \in Callers :
            /\ handler'[c].pc \in {"idle", "done"}
            /\ handler'[c].pc = "idle" => handler[c].pc \in {"idle", "set"}
            /\ handler[c].pc = "idle" => handler'[c].pc = "idle"
            /\ handler'[c].status \in {"NONE", handler[c].status}
            /\ handler'[c] \in HandlerRecord
      BY DEF At, Idle, ExpenseTypeOK, HandlerRecord
    <2>2. ExpenseTypeOK'
      <3>1. handler' \in [Callers -> HandlerRecord]
        BY <2>1
      <3>2. restarts' \in 0..MaxRestarts
        BY ExpenseAssumption DEF ExpenseTypeOK
      <3>3. workflow' \in {workflow, "failed"} /\ callback' \in {callback, "refused"}
        OBVIOUS
      <3>4. UNCHANGED <<ask, late>> /\ expense' = "NONE" /\ token' = FALSE
        OBVIOUS
      <3> HIDE <1>8 DEF ServerRestart
      <3>. QED  BY <3>1, <3>2, <3>3, <3>4 DEF ExpenseTypeOK, HandlerRecord, Ended
    <2>3. \A type : Decided(type) => Decided(type)'
      BY <2>1, DecidedStays DEF Callers
    <2>4. RecordsAreDecisions' /\ AsksAreFixed'
      BY <2>1, <2>3 DEF RecordsAreDecisions, AsksAreFixed
    <2>5. DecisionWasMade'
      BY <2>3 DEF DecisionWasMade
    <2>6. HandlersFollowCreate'
      BY <2>1 DEF HandlersFollowCreate, Reporting
    <2>7. PaymentFollowsWait'
      <3>1. Payer \in Callers
        BY DEF Callers
      <3>2. handler'[Payer].pc # "idle" => handler[Payer].pc # "idle"
        BY <2>1, <3>1
      <3>. QED  BY <2>1, <2>3, <3>1, <3>2 DEF PaymentFollowsWait
    <2>. QED  BY <2>2, <2>4, <2>5, <2>6, <2>7
  <1>. QED
    BY <1>1, <1>2, <1>3, <1>4, <1>5, <1>6, <1>7, <1>8
    DEF ExpenseNext, ExpenseStep, HandlerStep

\* The inductive invariant holds for any number of reviewers.
THEOREM ExpenseInvariance == ExpenseSpec => []ExpenseIInv
  <1>1. ExpenseIInv /\ UNCHANGED expenseVars => ExpenseIInv'
    BY DEF expenseVars, ExpenseIInv, ExpenseTypeOK, DecisionWasMade,
           RecordsAreDecisions, HandlersFollowCreate, PaymentFollowsWait,
           AsksAreFixed, Decided
  <1>2. ExpenseIInv /\ [ExpenseNext]_expenseVars => ExpenseIInv'
    BY <1>1, StepInv
  <1>. QED  BY <1>2, ExpenseInitInv, PTL DEF ExpenseSpec

\* Nothing is paid that nobody approved, and no payment is withheld that nobody
\* rejected.
THEOREM DecisionWasMadeHolds == ExpenseSpec => []DecisionWasMade
  <1>1. ExpenseIInv => DecisionWasMade
    BY DEF ExpenseIInv
  <1>. QED  BY <1>1, ExpenseInvariance, PTL
=============================================================================
