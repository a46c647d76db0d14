--------------------------- MODULE RecoveryProofs ---------------------------
(***************************************************************************)
(* The recovery beside the trips it recovers, for any trips, limits and    *)
(* numbers of attempts.  First the batches, then the list, then one layer  *)
(* of the invariant after the other: types and shape, the signals of a     *)
(* run, the progress of the attempts, and, for attempts that do not        *)
(* overlap, the trips that are closed.                                     *)
(***************************************************************************)
EXTENDS Recovery, FiniteSetTheorems, SequenceTheorems, TLAPS

-----------------------------------------------------------------------------
(* Batches.                                                                *)

LEMMA WorkersRange ==
    ASSUME NEW count \in Nat \ {0}
    PROVE  Workers(count) \in 1..count
  BY ConcurrencyAssumption DEF Workers

\* Rounding the quotient up leaves no remainder behind.
LEMMA CeilingCovers ==
    ASSUME NEW count \in Nat \ {0}
    PROVE  /\ BatchSize(count) \in Nat \ {0}
           /\ count <= Workers(count) * BatchSize(count)
  <1> DEFINE n == Workers(count)
             q == count \div n
             r == count % n
  <1>1. n \in Nat \ {0} /\ n <= count
    BY WorkersRange
  <1> HIDE DEF n
  <1>2. q \in Nat /\ r \in 0..(n - 1) /\ count = (n * q) + r
    BY <1>1
  <1> HIDE DEF q, r
  <1>3. q # 0
    BY <1>1, <1>2
  <1>4. CASE r = 0
    <2>1. BatchSize(count) = q
      BY <1>2, <1>4 DEF BatchSize, n, q, r
    <2>. QED  BY <1>1, <1>2, <1>3, <1>4, <2>1 DEF n
  <1>5. CASE r # 0
    <2>1. BatchSize(count) = q + 1
      BY <1>2, <1>5 DEF BatchSize, n, q, r
    <2>2. n * (q + 1) = n * q + n
      BY <1>1, <1>2
    <2>. QED  BY <1>1, <1>2, <2>1, <2>2 DEF n
  <1>. QED  BY <1>4, <1>5

\* Every listed execution is in a batch that some activity is started for.
THEOREM BatchesCover ==
    ASSUME NEW count \in Nat \ {0}, NEW i \in 0..(count - 1)
    PROVE  \E b \in 0..(Workers(count) - 1) : i \in BatchRange(count, b)
  <1> DEFINE n == Workers(count)
             size == BatchSize(count)
             b == i \div size
  <1>1. n \in Nat \ {0} /\ size \in Nat \ {0} /\ count <= n * size
    BY WorkersRange, CeilingCovers
  <1> HIDE DEF n, size
  <1>2. b \in Nat /\ b * size <= i /\ i < b * size + size
    <2>0. i \in Nat
      OBVIOUS
    <2>1. b \in Nat /\ i % size \in 0..(size - 1) /\ i = size * b + (i % size)
      BY <1>1, <2>0
    <2> HIDE DEF b
    <2>3. size * b = b * size
      BY <1>1, <2>1
    <2>. QED  BY <1>1, <2>0, <2>1, <2>3
  <1> HIDE DEF b
  <1>3. b < n
    <2> SUFFICES ASSUME n <= b PROVE FALSE
      BY <1>1, <1>2
    <2>1. n * size <= b * size
      BY <1>1, <1>2
    <2>. QED  BY <1>1, <1>2, <2>1
  <1>. QED  BY <1>1, <1>2, <1>3 DEF BatchRange, StartIndex, EndIndex, n, size

\* No execution is in two batches: no two activities recover the same one.
THEOREM BatchesDisjoint ==
    ASSUME NEW count \in Nat \ {0}, NEW b \in Nat, NEW c \in Nat, b # c
    PROVE  BatchRange(count, b) \intersect BatchRange(count, c) = {}
  <1> DEFINE size == BatchSize(count)
  <1>1. size \in Nat \ {0}
    BY CeilingCovers
  <1> HIDE DEF size
  <1>2. ASSUME NEW x \in Nat, NEW y \in Nat, x < y PROVE x * size + size <= y * size
    <2>1. (x + 1) * size <= y * size
      BY <1>1, <1>2
    <2>. QED  BY <1>1, <2>1
  <1>3. b * size + size <= c * size \/ c * size + size <= b * size
    BY <1>2
  <1>. QED  BY <1>1, <1>3 DEF BatchRange, StartIndex, EndIndex, size

LEMMA WorkersOfNone ==
    /\ Workers(0) = 0
    /\ \A count \in Nat : Workers(count) \in Nat
  BY ConcurrencyAssumption DEF Workers

\* Batches and indices are numbers.
LEMMA RangeFacts ==
    ASSUME NEW count \in Nat, NEW b \in 0..(Workers(count) - 1)
    PROVE  /\ count \in Nat \ {0}
           /\ b \in Nat
           /\ StartIndex(count, b) \in Nat
           /\ EndIndex(count, b) \in Nat
  <1>1. count # 0
    BY WorkersOfNone
  <1>2. BatchSize(count) \in Nat
    BY <1>1, CeilingCovers
  <1>3. b \in Nat
    BY <1>1, WorkersRange
  <1> QED  BY <1>1, <1>2, <1>3 DEF StartIndex, EndIndex

-----------------------------------------------------------------------------
(* The list.                                                               *)

\* listOpenExecutions returns each execution once.
LEMMA ListOfSet ==
    ASSUME NEW S \in SUBSET Trips
    PROVE  /\ Cardinality(S) \in Nat
           /\ ListOf(S) \in Seq(Trips)
           /\ Len(ListOf(S)) = Cardinality(S)
           /\ \A i \in 1..Cardinality(S) : ListOf(S)[i] \in S
           /\ \A i, j \in 1..Cardinality(S) : ListOf(S)[i] = ListOf(S)[j] => i = j
  <1> DEFINE n == Cardinality(S)
             onto(q) == \A t \in S : \E i \in 1..n : q[i] = t
  <1>1. IsFiniteSet(S)
    BY FS_Subset, RecoveryAssumption
  <1>2. n \in Nat /\ ExistsBijection(1..n, S)
    BY <1>1, FS_CardinalityType
  <1>3. \E q \in [1..n -> S] : onto(q)
    BY <1>2 DEF ExistsBijection, Bijection, Surjection
  <1>4. ListOf(S) \in [1..n -> S] /\ onto(ListOf(S))
    BY <1>3 DEF ListOf
  <1>5. ListOf(S) \in Surjection(1..n, S)
    BY <1>4 DEF Surjection
  <1>6. IsFiniteSet(1..n) /\ Cardinality(1..n) = n
    BY <1>2, FS_Interval
  <1>7. ListOf(S) \in Injection(1..n, S)
    BY <1>5, <1>6, FS_SurjSameCardinalityImpliesInj
  <1>8. ListOf(S) \in Seq(Trips) /\ Len(ListOf(S)) = n
    BY <1>2, <1>4
  <1>9. \A i, j \in 1..n : ListOf(S)[i] = ListOf(S)[j] => i = j
    BY <1>7 DEF Injection, IsInjective
  <1> QED  BY <1>2, <1>4, <1>8, <1>9

-----------------------------------------------------------------------------
(* Attempts and batches, one by one.                                       *)

LEMMA NextCases ==
    ASSUME Next
    PROVE  \/ TripNext /\ UNCHANGED recoveryVars
           \/ ListAndSplit
           \/ ListFails
           \/ Complete
           \/ \E b \in BatchIds :
                BeginAttempt(b) \/ AttemptPanics(b) \/ HeartbeatTimeout(b)
           \/ \E b \in BatchIds, s \in Slots :
                \/ ReadHistory(b, s) \/ Terminate(b, s) \/ StartRun(b, s)
                \/ Replay(b, s) \/ FinishIndex(b, s) \/ EndBatch(b, s)
                \/ CallFails(b, s)
           \/ HostRestart
           \/ ListEvicted
  BY DEF Next, BatchStep, AttemptStep, Failure, Slots

LEMMA AttemptFacts ==
    ASSUME NEW r \in Attempt
    PROVE  /\ r.pc \in {"none", "next", "terminate", "start", "replay"}
           /\ r.pc = "none" => r = Idle
           /\ r.pc # "none" => r.index \in Nat
           /\ r.pc \in {"terminate", "start"} => r.base \in Nat
           /\ r.pc \in {"terminate", "start", "replay"} => r.signals \in Nat
           /\ r.pc = "replay" => r.run \in Nat
           /\ r.pc = "terminate" => [r EXCEPT !.pc = "start"] \in Attempt
  BY DEF Attempt, Idle

LEMMA AttemptKinds ==
    /\ Idle \in Attempt
    /\ \A i \in Nat : [pc |-> "next", index |-> i] \in Attempt
    /\ \A pc \in {"terminate", "start"}, i, n, k \in Nat :
          [pc |-> pc, index |-> i, base |-> n, signals |-> k] \in Attempt
    /\ \A i, n, k \in Nat :
          [pc |-> "replay", index |-> i, run |-> n, signals |-> k] \in Attempt
  BY DEF Attempt, Idle

\* One slot of the work changes.
LEMMA SlotUpdate ==
    ASSUME TypeOK, NEW b \in BatchIds, NEW s \in Slots, NEW r \in Attempt
    PROVE  /\ [work EXCEPT ![b][s] = r] \in [BatchIds -> [Slots -> Attempt]]
           /\ \A c \in BatchIds, u \in Slots :
                [work EXCEPT ![b][s] = r][c][u] = IF c = b /\ u = s THEN r ELSE work[c][u]
  BY DEF TypeOK

BatchRecord == [state : {"running", "done", "failed"}, attempts : 0..MaxAttempts,
                heartbeat : Nat \union {NoHeartbeat}]

\* An attempt of a running batch is over.
LEMMA OverUpdate ==
    ASSUME TypeOK, ShapeOK, NEW b \in BatchIds, batch[b].state = "running"
    PROVE  /\ AttemptOver(b) \in [BatchIds -> BatchRecord]
           /\ \A c \in BatchIds \ {b} : AttemptOver(b)[c] = batch[c]
           /\ AttemptOver(b)[b].state \in {"running", "failed"}
           /\ AttemptOver(b)[b].state = "running" => AttemptOver(b)[b].attempts < MaxAttempts
           /\ AttemptOver(b)[b].heartbeat = batch[b].heartbeat
  <1>1. batch \in [BatchIds -> BatchRecord]
    BY DEF TypeOK, BatchRecord
  <1>2. batch[b].attempts \in 0..MaxAttempts /\ batch[b].attempts < MaxAttempts
    BY <1>1 DEF ShapeOK, BatchRecord
  <1>3. MaxAttempts \in Nat
    BY RecoveryAssumption
  <1> DEFINE n == batch[b].attempts + 1
             q == IF n = MaxAttempts THEN "failed" ELSE "running"
  <1>4. AttemptOver(b) = [batch EXCEPT ![b].attempts = n, ![b].state = q]
    BY <1>1 DEF AttemptOver
  <1>5. n \in 0..MaxAttempts /\ (n # MaxAttempts => n < MaxAttempts)
    BY <1>2, <1>3
  <1>6. q \in {"running", "failed"} /\ (q = "running" => n < MaxAttempts)
    BY <1>5
  <1> HIDE DEF n, q
  <1>7. AttemptOver(b) \in [BatchIds -> BatchRecord]
    BY <1>1, <1>4, <1>5, <1>6 DEF BatchRecord
  <1>8. /\ \A c \in BatchIds \ {b} : AttemptOver(b)[c] = batch[c]
        /\ AttemptOver(b)[b].state = q
        /\ AttemptOver(b)[b].attempts = n
        /\ AttemptOver(b)[b].heartbeat = batch[b].heartbeat
    BY <1>1, <1>4 DEF BatchRecord
  <1> QED  BY <1>6, <1>7, <1>8

\* The trip that an attempt is at.
LEMMA TargetIsTrip ==
    ASSUME TypeOK, ShapeOK, NEW b \in BatchIds, NEW s \in Slots, OnTrip(b, s)
    PROVE  Target(b, s) \in Trips
  <1>1. Count \in Nat /\ work[b][s].index \in 0..(Count - 1)
    BY DEF TypeOK, ShapeOK, BatchRange, Count
  <1> QED  BY <1>1 DEF TypeOK, Target, Count

\* What AttemptOver, a heartbeat or the end of a batch may do to it.
BatchChange(b) ==
    /\ batch' \in [BatchIds -> BatchRecord]
    /\ \A c \in BatchIds \ {b} : batch'[c] = batch[c]
    /\ batch'[b].state = "running" => batch'[b].attempts < MaxAttempts
    /\ batch'[b].heartbeat # NoHeartbeat =>
          batch'[b].heartbeat \in BatchRange(Count, b)

\* A step of one attempt, as far as types and shape go.
LEMMA SlotStep ==
    ASSUME TypeOK, ShapeOK, NEW b \in BatchIds, NEW s \in Slots, NEW r \in Attempt,
           work' = [work EXCEPT ![b][s] = r],
           BatchChange(b),
           s = "stale" => batch'[b].state = batch[b].state,
           s = "live" /\ r.pc # "none" => batch'[b].state = "running",
           r.pc # "none" => StartIndex(Count, b) <= r.index,
           r.pc \in {"terminate", "start", "replay"} => r.index \in BatchRange(Count, b),
           UNCHANGED <<phase, listed, cached>>,
           TripTypeOK',
           recovered' \subseteq 0..(Count - 1),
           late' \subseteq Trips
    PROVE  TypeOK' /\ ShapeOK'
  <1>1. BatchIds' = BatchIds /\ Count' = Count
    BY DEF BatchChange, BatchIds, Count
  <1>2. /\ work' \in [BatchIds -> [Slots -> Attempt]]
        /\ \A c \in BatchIds, u \in Slots :
              work'[c][u] = IF c = b /\ u = s THEN r ELSE work[c][u]
    BY SlotUpdate
  <1>3. TypeOK'
    BY <1>1, <1>2 DEF TypeOK, BatchChange, BatchRecord
  <1>4. "live" \in Slots /\ "stale" \in Slots /\ s \in {"live", "stale"}
    BY DEF Slots
  <1>5. ASSUME NEW c \in BatchIds
        PROVE  /\ batch'[c].state = "running" => batch'[c].attempts < MaxAttempts
               /\ batch'[c].heartbeat # NoHeartbeat =>
                    batch'[c].heartbeat \in BatchRange(Count, c)
               /\ work'[c]["live"].pc # "none" => batch'[c].state = "running"
               /\ \A u \in Slots :
                    /\ work'[c][u].pc # "none" => StartIndex(Count, c) <= work'[c][u].index
                    /\ work'[c][u].pc \in {"terminate", "start", "replay"}
                          => work'[c][u].index \in BatchRange(Count, c)
    <2>1. /\ batch'[c].state = "running" => batch'[c].attempts < MaxAttempts
          /\ batch'[c].heartbeat # NoHeartbeat =>
                batch'[c].heartbeat \in BatchRange(Count, c)
      BY <1>5 DEF BatchChange, ShapeOK
    <2>2. work'[c]["live"].pc # "none" => batch'[c].state = "running"
      <3>1. CASE c = b /\ s = "live"
        BY <1>2, <1>4, <3>1
      <3>2. CASE c # b \/ s = "stale"
        <4>1. work'[c]["live"] = work[c]["live"]
          BY <1>2, <1>4, <3>2
        <4>2. batch'[c].state = batch[c].state
          BY <3>2 DEF BatchChange
        <4> QED  BY <4>1, <4>2 DEF ShapeOK, Working, At
      <3> QED  BY <1>4, <3>1, <3>2
    <2>3. ASSUME NEW u \in Slots
          PROVE  /\ work'[c][u].pc # "none" => StartIndex(Count, c) <= work'[c][u].index
                 /\ work'[c][u].pc \in {"terminate", "start", "replay"}
                       => work'[c][u].index \in BatchRange(Count, c)
      <3>1. CASE c = b /\ u = s
        BY <1>2, <3>1
      <3>2. CASE ~(c = b /\ u = s)
        <4>1. work'[c][u] = work[c][u]
          BY <1>2, <3>2
        <4> QED  BY <4>1 DEF ShapeOK, Working, OnTrip, At
      <3> QED  BY <3>1, <3>2
    <2> QED  BY <2>1, <2>2, <2>3
  <1>6. /\ phase = "listing" => Count = 0
        /\ BatchIds = 0..(Workers(Count) - 1)
        /\ \A i, j \in 1..Count : listed[i] = listed[j] => i = j
    BY DEF ShapeOK
  <1>7. ShapeOK'
    BY <1>1, <1>5, <1>6 DEF ShapeOK, Working, OnTrip, At
  <1> QED  BY <1>3, <1>7

\* The batch of an attempt that fails.
LEMMA ErrorChange ==
    ASSUME TypeOK, ShapeOK, NEW b \in BatchIds, NEW s \in Slots,
           Working(b, s), EndInError(b, s)
    PROVE  /\ BatchChange(b)
           /\ s = "stale" => batch' = batch
           /\ batch'[b].heartbeat = batch[b].heartbeat
           /\ s = "live" => batch'[b].state \in {"running", "failed"}
  <1>1. CASE s = "live"
    <2>1. batch[b].state = "running"
      BY <1>1 DEF ShapeOK
    <2> QED  BY <1>1, <2>1, OverUpdate DEF EndInError, BatchChange, ShapeOK
  <1>2. CASE s # "live"
    BY <1>2 DEF EndInError, BatchChange, TypeOK, ShapeOK, BatchRecord
  <1> QED  BY <1>1, <1>2

LEMMA NoBatchChange ==
    ASSUME TypeOK, ShapeOK, NEW b \in BatchIds, UNCHANGED batch
    PROVE  BatchChange(b)
  BY DEF BatchChange, TypeOK, ShapeOK, BatchRecord

LEMMA ErrorKeepsShape ==
    ASSUME TypeOK, ShapeOK, NEW b \in BatchIds, NEW s \in Slots,
           Working(b, s), EndInError(b, s),
           UNCHANGED <<phase, listed, cached, recovered>>, TripTypeOK',
           late' \subseteq Trips
    PROVE  TypeOK' /\ ShapeOK'
  <1>1. BatchChange(b) /\ (s = "stale" => batch' = batch)
    BY ErrorChange
  <1>2. Idle \in Attempt /\ Idle.pc = "none"
    BY AttemptKinds DEF Idle
  <1>3. work' = [work EXCEPT ![b][s] = Idle]
    BY DEF EndInError
  <1>4. recovered' \subseteq 0..(Count - 1)
    BY DEF TypeOK
  <1> QED  BY <1>1, <1>2, <1>3, <1>4, SlotStep

-----------------------------------------------------------------------------
(* Types and shape.                                                        *)

LEMMA TripStepType ==
    ASSUME TripTypeOK, TripNext
    PROVE  TripTypeOK'
  <1>1. SignalLimit \in Nat \ {0} /\ 0 \in 0..SignalLimit
    BY TripAssumption
  <1>2. PICK t \in Trips : SignalTrip(t) \/ ReceiveTrip(t) \/ ContinueAsNew(t)
    BY DEF TripNext, TripStep
  <1>3. trip[t].base + trip[t].used \in Nat /\ trip[t].run + 1 \in Nat
    BY DEF TripTypeOK
  <1>4. CASE SignalTrip(t)
    BY <1>4 DEF SignalTrip, TripTypeOK
  <1>5. CASE ReceiveTrip(t)
    BY <1>1, <1>5 DEF ReceiveTrip, TripTypeOK
  <1>6. CASE ContinueAsNew(t)
    BY <1>1, <1>3, <1>6 DEF ContinueAsNew, TripCounter, NewRun, TripTypeOK
  <1> QED  BY <1>2, <1>4, <1>5, <1>6

LEMMA InitShape == Init => TypeOK /\ ShapeOK
  <1> SUFFICES ASSUME Init PROVE TypeOK /\ ShapeOK
    OBVIOUS
  <1> USE DEF Init, TripInit, RecoveryInit
  <1>1. TripTypeOK
    BY TripAssumption DEF TripTypeOK, NewRun
  <1>2. BatchIds = {} /\ Count = 0
    BY DEF BatchIds, Count
  <1>3. TypeOK
    <2>1. \A X : <<>> \in [{} -> X]
      OBVIOUS
    <2>2. /\ batch \in [BatchIds -> [state : {"running", "done", "failed"},
                                    attempts : 0..MaxAttempts,
                                    heartbeat : Nat \union {NoHeartbeat}]]
          /\ work \in [BatchIds -> [Slots -> Attempt]]
      BY <1>2, <2>1
    <2>3. listed \in Seq(Trips)
      OBVIOUS
    <2> QED  BY <1>1, <2>2, <2>3 DEF TypeOK
  <1>4. Workers(Count) = 0
    BY <1>2, WorkersOfNone
  <1> QED  BY <1>2, <1>3, <1>4 DEF ShapeOK

LEMMA ListKeepsShape ==
    ASSUME TypeOK, ShapeOK, ListAndSplit
    PROVE  /\ TypeOK' /\ ShapeOK'
           /\ UNCHANGED tripVars
           /\ \A i \in 0..(Count' - 1) : trip[listed'[i + 1]].open
           /\ \A b \in BatchIds' :
                /\ batch'[b].state = "running" /\ batch'[b].heartbeat = NoHeartbeat
                /\ \A s \in Slots : work'[b][s] = Idle

  <1> PICK open \in SUBSET {t \in Trips : trip[t].open} :
        LET n == Workers(Cardinality(open)) IN
        /\ listed' = ListOf(open)
        /\ phase' = IF open = {} THEN "panicked" ELSE "recovering"
        /\ batch' = [b \in 0..(n - 1) |->
                        [state |-> "running", attempts |-> 0,
                         heartbeat |-> NoHeartbeat]]
        /\ work' = [b \in 0..(n - 1) |-> [live |-> Idle, stale |-> Idle]]
    BY DEF ListAndSplit
  <1> DEFINE n == Workers(Cardinality(open))
  <1>1. /\ cached' = TRUE /\ UNCHANGED <<tripVars, recovered, late>>
    BY DEF ListAndSplit
  <1>2. /\ Cardinality(open) \in Nat /\ ListOf(open) \in Seq(Trips)
        /\ Len(ListOf(open)) = Cardinality(open)
        /\ \A i \in 1..Cardinality(open) : ListOf(open)[i] \in open
        /\ \A i, j \in 1..Cardinality(open) : ListOf(open)[i] = ListOf(open)[j] => i = j
    BY ListOfSet
  <1>3. Count' = Cardinality(open) /\ BatchIds' = 0..(n - 1) /\ n = Workers(Count')
    BY <1>2 DEF Count, BatchIds
  <1>4. MaxAttempts \in Nat \ {0} /\ 0 \in 0..MaxAttempts
    BY RecoveryAssumption
  <1>5. \A b \in BatchIds' :
            /\ batch'[b] = [state |-> "running", attempts |-> 0, heartbeat |-> NoHeartbeat]
            /\ \A s \in Slots : work'[b][s] = Idle
    BY <1>3 DEF Slots
  <1>6. work' \in [BatchIds' -> [Slots -> Attempt]]
    <2>1. [live |-> Idle, stale |-> Idle] \in [Slots -> Attempt]
      BY AttemptKinds DEF Slots
    <2> HIDE DEF n
    <2> QED  BY <1>3, <2>1
  <1>7. batch' \in [BatchIds' -> [state : {"running", "done", "failed"},
                                 attempts : 0..MaxAttempts,
                                 heartbeat : Nat \union {NoHeartbeat}]]
    <2> HIDE DEF n
    <2> QED  BY <1>3, <1>4
  <1>8. TripTypeOK'
    BY <1>1 DEF TypeOK, TripTypeOK, tripVars
  <1>9. recovered' = {}
    BY <1>1 DEF TypeOK, ShapeOK, ListAndSplit
  <1>10. TypeOK'
    BY <1>1, <1>2, <1>6, <1>7, <1>8, <1>9 DEF TypeOK
  <1>11. ShapeOK'
    <2>1. phase' # "listing"
      OBVIOUS
    <2> QED  BY <1>2, <1>3, <1>4, <1>5, <2>1 DEF ShapeOK, Working, OnTrip, At, Idle
  <1>12. \A i \in 0..(Count' - 1) : trip[listed'[i + 1]].open
    BY <1>2, <1>3
  <1>13. \A b \in BatchIds' : batch'[b].state = "running" /\ batch'[b].heartbeat = NoHeartbeat
    <2> HIDE DEF n
    <2> SUFFICES ASSUME NEW b \in BatchIds'
                 PROVE  batch'[b].state = "running" /\ batch'[b].heartbeat = NoHeartbeat
      OBVIOUS
    <2>1. batch'[b] = [state |-> "running", attempts |-> 0, heartbeat |-> NoHeartbeat]
      BY <1>5
    <2> QED  BY <2>1
  <1>14. \A b \in BatchIds' : \A s \in Slots : work'[b][s] = Idle
    BY <1>5
  <1> HIDE DEF n
  <1> QED  BY <1>1, <1>10, <1>11, <1>12, <1>13, <1>14

LEMMA AttemptKeepsShape ==
    ASSUME TypeOK, ShapeOK, NEW b \in BatchIds, NEW s \in Slots,
           \/ ReadHistory(b, s) \/ Terminate(b, s) \/ StartRun(b, s)
           \/ Replay(b, s) \/ FinishIndex(b, s) \/ EndBatch(b, s)
           \/ CallFails(b, s)
    PROVE  TypeOK' /\ ShapeOK'
  <1>0. late' \subseteq Trips
    <2>1. late \subseteq Trips
      BY DEF TypeOK
    <2>2. CASE Terminate(b, s)
      <3>1. late' = late \union {Target(b, s)} \/ late' \subseteq late
        BY <2>2 DEF Terminate
      <3>2. Target(b, s) \in Trips
        BY <2>2, TargetIsTrip DEF Terminate, At, OnTrip
      <3> QED  BY <2>1, <3>1, <3>2
    <2>3. CASE UNCHANGED late
      BY <2>1, <2>3
    <2> QED  BY <2>2, <2>3 DEF ReadHistory, StartRun, Replay, FinishIndex, EndBatch, CallFails
  <1> DEFINE a == work[b][s]
             i == a.index
  <1>1. a \in Attempt /\ s \in {"live", "stale"}
    BY DEF TypeOK, Slots
  <1>2. /\ TripTypeOK
        /\ recovered \subseteq 0..(Count - 1)
        /\ Count \in Nat
        /\ b \in 0..(Workers(Count) - 1)
    BY DEF TypeOK, ShapeOK, Count
  <1>3. b \in Nat /\ StartIndex(Count, b) \in Nat /\ EndIndex(Count, b) \in Nat
    BY <1>2, RangeFacts
  <1>4. a.pc # "none" => /\ i \in Nat
                         /\ StartIndex(Count, b) <= i
                         /\ s = "live" => batch[b].state = "running"
    BY <1>1, AttemptFacts DEF ShapeOK, Working, At
  <1>5. OnTrip(b, s) => /\ i \in BatchRange(Count, b) /\ Target(b, s) \in Trips
                        /\ a.signals \in Nat
                        /\ a.pc # "replay" => a.base \in Nat
    <2>1. OnTrip(b, s) => i \in BatchRange(Count, b) /\ Target(b, s) \in Trips
      BY TargetIsTrip DEF ShapeOK
    <2>2. a.pc \in {"terminate", "start", "replay"} => a.signals \in Nat
      BY <1>1, AttemptFacts
    <2>3. a.pc \in {"terminate", "start"} => a.base \in Nat
      BY <1>1, AttemptFacts
    <2> HIDE DEF a
    <2> QED  BY <2>1, <2>2, <2>3 DEF OnTrip, a
  <1>6. batch \in [BatchIds -> BatchRecord] /\ batch[b].attempts <= MaxAttempts
    BY RecoveryAssumption DEF TypeOK, BatchRecord
  <1>7. SignalLimit \in Nat /\ 0 \in 0..SignalLimit
    BY TripAssumption
  <1>8. CASE ReadHistory(b, s)
    <2> DEFINE t == trip[listed[i + 1]]
               r == [pc |-> IF t.open THEN "terminate" ELSE "start",
                     index |-> i, base |-> t.base, signals |-> t.hist]
    <2>1. /\ a.pc = "next" /\ i < EndIndex(Count, b) /\ i < Count
          /\ work' = [work EXCEPT ![b][s] = r]
          /\ UNCHANGED <<tripVars, phase, listed, cached, batch, recovered>>
      BY <1>8 DEF ReadHistory, At
    <2>2. i \in BatchRange(Count, b)
      BY <1>2, <1>3, <1>4, <2>1 DEF BatchRange
    <2>3. listed[i + 1] \in Trips
      BY <1>2, <1>4, <2>1 DEF TypeOK, Count
    <2>4. t.base \in Nat /\ t.hist \in Nat
      BY <1>2, <2>3 DEF TripTypeOK
    <2>5. r \in Attempt
      BY <1>4, <2>1, <2>4, AttemptKinds
    <2>6. r.index = i
      OBVIOUS
    <2>7. TripTypeOK'
      BY <1>2, <2>1 DEF tripVars, TripTypeOK
    <2>8. BatchChange(b)
      BY <2>1, NoBatchChange
    <2>9. s = "live" => batch'[b].state = "running"
      BY <1>4, <2>1
    <2> HIDE DEF r, a, i
    <2> QED  BY <1>2, <1>4, <2>1, <2>2, <2>5, <2>6, <2>7, <2>8, <2>9, SlotStep, <1>0
  <1>9. CASE Terminate(b, s)
    <2>1. a.pc = "terminate" /\ UNCHANGED <<sent, phase, listed, cached, recovered>>
      BY <1>9 DEF Terminate, At
    <2>2. i \in BatchRange(Count, b) /\ Target(b, s) \in Trips
      BY <1>5, <2>1 DEF OnTrip
    <2>3. CASE trip[Target(b, s)].open
      <3> DEFINE r == [a EXCEPT !.pc = "start"]
      <3>1. /\ trip' = [trip EXCEPT ![Target(b, s)].open = FALSE]
            /\ work' = [work EXCEPT ![b][s].pc = "start"]
            /\ UNCHANGED batch
        BY <1>9, <2>3 DEF Terminate
      <3>2. work' = [work EXCEPT ![b][s] = r]
        BY <3>1
      <3>3. r \in Attempt /\ r.index = i
        BY <1>1, <2>1, AttemptFacts DEF Attempt
      <3>4. TripTypeOK'
        BY <1>2, <2>1, <2>2, <3>1 DEF TripTypeOK
      <3>5. BatchChange(b)
        BY <3>1, NoBatchChange
      <3>6. s = "live" => batch'[b].state = "running"
        BY <1>4, <2>1, <3>1
      <3> HIDE DEF r, a, i
      <3> QED  BY <1>2, <1>4, <2>1, <2>2, <3>1, <3>2, <3>3, <3>4, <3>5, <3>6, SlotStep, <1>0
    <2>4. CASE ~trip[Target(b, s)].open
      <3>1. EndInError(b, s) /\ UNCHANGED trip
        BY <1>9, <2>4 DEF Terminate
      <3>2. TripTypeOK'
        BY <1>2, <2>1, <3>1 DEF TripTypeOK
      <3> QED  BY <1>2, <2>1, <3>1, <3>2, ErrorKeepsShape, <1>0 DEF Working, At
    <2> QED  BY <2>3, <2>4
  <1>10. CASE StartRun(b, s)
    <2>1. a.pc = "start" /\ UNCHANGED <<sent, phase, listed, cached, recovered>>
      BY <1>10 DEF StartRun, At
    <2>2. i \in BatchRange(Count, b) /\ Target(b, s) \in Trips
      BY <1>5, <2>1 DEF OnTrip
    <2> DEFINE t == Target(b, s)
    <2>3. CASE ~trip[t].open
      <3> DEFINE r == [pc |-> "replay", index |-> i, run |-> trip[t].run + 1,
                       signals |-> a.signals]
      <3>1. /\ trip' = [trip EXCEPT ![t] = NewRun(trip[t].run + 1, NextType, a.base)]
            /\ work' = [work EXCEPT ![b][s] = r]
            /\ UNCHANGED batch
        BY <1>10, <2>3 DEF StartRun
      <3>2. trip[t].run + 1 \in Nat /\ a.base \in Nat /\ a.signals \in Nat
        <4>1. trip[t].run + 1 \in Nat
          BY <1>2, <2>2 DEF TripTypeOK
        <4> QED  BY <1>5, <2>1, <4>1 DEF OnTrip
      <3>3. r \in Attempt /\ r.index = i
        BY <1>4, <2>1, <3>2, AttemptKinds
      <3>4. TripTypeOK'
        BY <1>2, <1>7, <2>1, <2>2, <3>1, <3>2 DEF TripTypeOK, NewRun
      <3>5. BatchChange(b)
        BY <3>1, NoBatchChange
      <3>6. s = "live" => batch'[b].state = "running"
        BY <1>4, <2>1, <3>1
      <3> HIDE DEF r, a, i, t
      <3> QED  BY <1>2, <1>4, <2>1, <2>2, <3>1, <3>3, <3>4, <3>5, <3>6, SlotStep, <1>0
    <2>4. CASE trip[t].open
      <3>1. EndInError(b, s) /\ UNCHANGED trip
        BY <1>10, <2>4 DEF StartRun
      <3>2. TripTypeOK'
        BY <1>2, <2>1, <3>1 DEF TripTypeOK
      <3> QED  BY <1>2, <2>1, <3>1, <3>2, ErrorKeepsShape, <1>0 DEF Working, At
    <2> QED  BY <2>3, <2>4
  <1>11. CASE Replay(b, s)
    <2> DEFINE r == [a EXCEPT !.signals = a.signals - 1]
    <2>1. /\ a.pc = "replay" /\ a.signals > 0
          /\ work' = [work EXCEPT ![b][s].signals = @ - 1]
          /\ UNCHANGED <<sent, phase, listed, cached, batch, recovered>>
      BY <1>11 DEF Replay, At
    <2>2. i \in BatchRange(Count, b) /\ Target(b, s) \in Trips
      BY <1>5, <2>1 DEF OnTrip
    <2>3. work' = [work EXCEPT ![b][s] = r]
      BY <2>1
    <2>4. a.signals \in Nat /\ a.signals - 1 \in Nat
      BY <1>5, <2>1 DEF OnTrip
    <2>5. r \in Attempt /\ r.index = i
      BY <1>1, <2>1, <2>4 DEF Attempt
    <2>6. TripTypeOK'
      <3>1. CASE UNCHANGED trip
        BY <1>2, <2>1, <3>1 DEF TripTypeOK
      <3>2. CASE trip' = [trip EXCEPT ![Target(b, s)].hist = @ + 1]
        BY <1>2, <2>1, <2>2, <3>2 DEF TripTypeOK
      <3> QED  BY <1>11, <3>1, <3>2 DEF Replay
    <2>7. BatchChange(b)
      BY <2>1, NoBatchChange
    <2>8. s = "live" => batch'[b].state = "running"
      BY <1>4, <2>1
    <2> HIDE DEF r, a, i
    <2> QED  BY <1>2, <1>4, <2>1, <2>2, <2>3, <2>5, <2>6, <2>7, <2>8, SlotStep, <1>0
  <1>12. CASE FinishIndex(b, s)
    <2> DEFINE r == [pc |-> "next", index |-> i + 1]
    <2>1. /\ a.pc = "replay"
          /\ work' = [work EXCEPT ![b][s] = r]
          /\ recovered' = recovered \union {i}
          /\ UNCHANGED <<tripVars, phase, listed, cached>>
      BY <1>12 DEF FinishIndex, At
    <2>2. i \in 0..(Count - 1) /\ i \in Nat /\ StartIndex(Count, b) <= i
      BY <1>4, <1>5, <2>1 DEF OnTrip, BatchRange
    <2>3. r \in Attempt /\ r.pc = "next" /\ StartIndex(Count, b) <= r.index
      BY <1>3, <2>2, AttemptKinds
    <2>4. TripTypeOK'
      BY <1>2, <2>1 DEF tripVars, TripTypeOK
    <2>5. recovered' \subseteq 0..(Count - 1)
      BY <1>2, <2>1, <2>2
    <2>6. s = "live" => batch[b].state = "running"
      BY <1>4, <2>1
    <2>7. BatchChange(b) /\ batch'[b].state = batch[b].state
      <3>1. CASE UNCHANGED batch
        BY <3>1, NoBatchChange
      <3>2. CASE batch' = [batch EXCEPT ![b].heartbeat = i]
        <4>1. batch' \in [BatchIds -> BatchRecord] /\ batch'[b].heartbeat = i
          BY <1>6, <2>2, <3>2 DEF BatchRecord
        <4>2. /\ batch'[b].state = batch[b].state /\ batch'[b].attempts = batch[b].attempts
              /\ \A c \in BatchIds \ {b} : batch'[c] = batch[c]
          BY <1>6, <3>2 DEF BatchRecord
        <4>3. i \in BatchRange(Count, b)
          BY <1>5, <2>1 DEF OnTrip
        <4> HIDE DEF i
        <4> QED  BY <4>1, <4>2, <4>3 DEF BatchChange, ShapeOK
      <3> QED  BY <1>12, <3>1, <3>2 DEF FinishIndex
    <2> HIDE DEF r, a, i
    <2> QED  BY <1>2, <2>1, <2>3, <2>4, <2>5, <2>6, <2>7, SlotStep, <1>0
  <1>13. CASE EndBatch(b, s)
    <2>1. /\ a.pc = "next"
          /\ work' = [work EXCEPT ![b][s] = Idle]
          /\ batch' = IF s = "live" THEN [batch EXCEPT ![b].state = "done"] ELSE batch
          /\ UNCHANGED <<tripVars, phase, listed, cached, recovered>>
      BY <1>13 DEF EndBatch, At
    <2>2. Idle \in Attempt /\ Idle.pc = "none"
      BY AttemptKinds DEF Idle
    <2>3. TripTypeOK'
      BY <1>2, <2>1 DEF tripVars, TripTypeOK
    <2>4. BatchChange(b) /\ (s = "stale" => batch'[b].state = batch[b].state)
      <3>1. CASE s = "live"
        <4>1. batch' = [batch EXCEPT ![b].state = "done"]
          BY <2>1, <3>1
        <4>2. batch' \in [BatchIds -> BatchRecord] /\ batch'[b].state = "done"
          BY <1>6, <4>1 DEF BatchRecord
        <4>3. /\ batch'[b].heartbeat = batch[b].heartbeat
              /\ \A c \in BatchIds \ {b} : batch'[c] = batch[c]
          BY <1>6, <4>1 DEF BatchRecord
        <4> QED  BY <3>1, <4>2, <4>3 DEF BatchChange, ShapeOK
      <3>2. CASE s # "live"
        BY <2>1, <3>2, NoBatchChange
      <3> QED  BY <3>1, <3>2
    <2> HIDE DEF a, i
    <2> QED  BY <1>2, <2>1, <2>2, <2>3, <2>4, SlotStep, <1>0
  <1>14. CASE CallFails(b, s)
    <2>1. /\ a.pc # "none" /\ EndInError(b, s)
          /\ UNCHANGED <<tripVars, phase, listed, cached, recovered>>
      BY <1>14 DEF CallFails
    <2>2. TripTypeOK'
      BY <1>2, <2>1 DEF tripVars, TripTypeOK
    <2> QED  BY <1>2, <2>1, <2>2, ErrorKeepsShape, <1>0 DEF Working, At
  <1> QED  BY <1>8, <1>9, <1>10, <1>11, <1>12, <1>13, <1>14

LEMMA BatchKeepsShape ==
    ASSUME TypeOK, ShapeOK, NEW b \in BatchIds,
           BeginAttempt(b) \/ AttemptPanics(b) \/ HeartbeatTimeout(b)
    PROVE  TypeOK' /\ ShapeOK'
  <1>0. late' \subseteq Trips
    BY DEF TypeOK, BeginAttempt, AttemptPanics, HeartbeatTimeout
  <1>1. /\ TripTypeOK
        /\ recovered \subseteq 0..(Count - 1)
        /\ Count \in Nat
        /\ b \in 0..(Workers(Count) - 1)
        /\ batch \in [BatchIds -> BatchRecord]
    BY DEF TypeOK, ShapeOK, Count, BatchRecord
  <1>2. b \in Nat /\ StartIndex(Count, b) \in Nat
    BY <1>1, RangeFacts
  <1>3. UNCHANGED tripVars => TripTypeOK'
    BY <1>1 DEF tripVars, TripTypeOK
  <1>4. CASE BeginAttempt(b)
    <2> DEFINE r == [pc |-> "next", index |-> FirstIndex(b)]
    <2>1. /\ batch[b].state = "running"
          /\ work' = [work EXCEPT ![b]["live"] = r]
          /\ UNCHANGED <<tripVars, phase, listed, cached, batch, recovered>>
      BY <1>4 DEF BeginAttempt
    <2>2. FirstIndex(b) \in Nat /\ StartIndex(Count, b) <= FirstIndex(b)
      <3>1. batch[b].heartbeat \in Nat \union {NoHeartbeat}
        BY <1>1 DEF BatchRecord
      <3>2. batch[b].heartbeat # NoHeartbeat => StartIndex(Count, b) <= batch[b].heartbeat
        BY DEF ShapeOK, BatchRange
      <3> QED  BY <1>2, <3>1, <3>2 DEF FirstIndex
    <2>3. r \in Attempt /\ r.pc = "next" /\ StartIndex(Count, b) <= r.index
      BY <2>2, AttemptKinds
    <2>4. BatchChange(b) /\ batch'[b].state = "running"
      BY <2>1, NoBatchChange
    <2>5. "live" \in Slots
      BY DEF Slots
    <2> HIDE DEF r
    <2> QED  BY <1>1, <1>3, <2>1, <2>3, <2>4, <2>5, SlotStep, <1>0
  <1>5. CASE AttemptPanics(b)
    <2>1. /\ batch[b].state = "running" /\ work[b]["live"].pc = "none"
          /\ batch' = AttemptOver(b)
          /\ UNCHANGED <<tripVars, phase, listed, cached, work, recovered>>
      BY <1>5 DEF AttemptPanics, At
    <2>2. "live" \in Slots /\ work[b]["live"] \in Attempt
      BY DEF Slots, TypeOK
    <2>3. work' = [work EXCEPT ![b]["live"] = Idle]
      <3>1. work[b]["live"] = Idle
        BY <2>1, <2>2, AttemptFacts
      <3> QED  BY <2>1, <2>2, <3>1 DEF TypeOK
    <2>4. BatchChange(b)
      BY <2>1, OverUpdate DEF BatchChange, ShapeOK
    <2>5. Idle \in Attempt /\ Idle.pc = "none"
      BY AttemptKinds DEF Idle
    <2> QED  BY <1>1, <1>3, <2>1, <2>2, <2>3, <2>4, <2>5, SlotStep, <1>0
  <1>6. CASE HeartbeatTimeout(b)
    <2> DEFINE r == IF AttemptsOverlap THEN work[b]["live"] ELSE work[b]["stale"]
    <2>1. /\ work[b]["live"].pc # "none"
          /\ batch' = AttemptOver(b)
          /\ work' = [work EXCEPT ![b] = [live |-> Idle, stale |-> r]]
          /\ UNCHANGED <<tripVars, phase, listed, cached, recovered>>
      BY <1>6 DEF HeartbeatTimeout, At
    <2>2. batch[b].state = "running"
      BY <2>1 DEF ShapeOK, Working, At
    <2>3. BatchChange(b)
      BY <2>1, <2>2, OverUpdate DEF BatchChange, ShapeOK
    <2>4. /\ BatchIds' = BatchIds /\ Count' = Count
          /\ TripTypeOK'
      BY <1>3, <2>1, <2>3 DEF BatchChange, BatchIds, Count
    <2>5. r \in Attempt /\ Idle \in Attempt
      BY AttemptKinds DEF TypeOK, Slots
    <2>6. /\ work' \in [BatchIds -> [Slots -> Attempt]]
          /\ \A c \in BatchIds \ {b} : work'[c] = work[c]
          /\ work'[b]["live"] = Idle /\ work'[b]["stale"] = r
      <3>1. [live |-> Idle, stale |-> r] \in [Slots -> Attempt]
        BY <2>5 DEF Slots
      <3>2. /\ [live |-> Idle, stale |-> r]["live"] = Idle
            /\ [live |-> Idle, stale |-> r]["stale"] = r
        OBVIOUS
      <3> HIDE DEF r
      <3> QED  BY <2>1, <3>1, <3>2 DEF TypeOK
    <2>7. TypeOK'
      BY <1>0, <1>1, <2>1, <2>3, <2>4, <2>6 DEF TypeOK, BatchChange, BatchRecord
    <2>8. /\ r.pc # "none" => StartIndex(Count, b) <= r.index
          /\ r.pc \in {"terminate", "start", "replay"} => r.index \in BatchRange(Count, b)
      BY DEF ShapeOK, Working, OnTrip, At, Slots
    <2>9. ShapeOK'
      <3>1. ASSUME NEW c \in BatchIds
            PROVE  /\ batch'[c].state = "running" => batch'[c].attempts < MaxAttempts
                   /\ batch'[c].heartbeat # NoHeartbeat =>
                        batch'[c].heartbeat \in BatchRange(Count, c)
                   /\ work'[c]["live"].pc # "none" => batch'[c].state = "running"
                   /\ \A u \in Slots :
                        /\ work'[c][u].pc # "none" => StartIndex(Count, c) <= work'[c][u].index
                        /\ work'[c][u].pc \in {"terminate", "start", "replay"}
                              => work'[c][u].index \in BatchRange(Count, c)
        <4> HIDE DEF r
        <4>1. CASE c # b
          BY <2>3, <2>6, <4>1 DEF ShapeOK, BatchChange, Working, OnTrip, At
        <4>2. CASE c = b
          BY <2>3, <2>6, <2>8, <4>2 DEF BatchChange, Idle, Slots
        <4> QED  BY <4>1, <4>2
      <3>2. /\ phase = "listing" => Count = 0
            /\ BatchIds = 0..(Workers(Count) - 1)
            /\ \A i, j \in 1..Count : listed[i] = listed[j] => i = j
        BY DEF ShapeOK
      <3> QED  BY <2>1, <2>4, <3>1, <3>2 DEF ShapeOK, Working, OnTrip, At
    <2> QED  BY <2>7, <2>9
  <1> QED  BY <1>4, <1>5, <1>6

LEMMA RestartKeepsShape ==
    ASSUME TypeOK, ShapeOK, HostRestart
    PROVE  /\ TypeOK' /\ ShapeOK'
           /\ BatchIds' = BatchIds
           /\ \A b \in BatchIds :
                /\ \A s \in Slots : work'[b][s] = Idle
                /\ batch'[b].heartbeat = batch[b].heartbeat
                /\ batch'[b] # batch[b] => batch[b].state = "running"
                                        /\ batch'[b].state \in {"running", "failed"}
  <1>1. /\ cached' = FALSE
        /\ work' = [b \in BatchIds |-> [live |-> Idle, stale |-> Idle]]
        /\ batch' = [b \in BatchIds |->
                        IF work[b]["live"].pc = "none" THEN batch[b] ELSE AttemptOver(b)[b]]
        /\ UNCHANGED <<tripVars, phase, listed, recovered, late>>
    BY DEF HostRestart, At
  <1>2. BatchIds' = BatchIds /\ Count' = Count
    BY <1>1 DEF BatchIds, Count
  <1>3. \A b \in BatchIds : \A s \in Slots : work'[b][s] = Idle
    BY <1>1 DEF Slots
  <1>4. work' \in [BatchIds -> [Slots -> Attempt]]
    <2>1. [live |-> Idle, stale |-> Idle] \in [Slots -> Attempt]
      BY AttemptKinds DEF Slots
    <2> QED  BY <1>1, <2>1
  <1>5. ASSUME NEW b \in BatchIds
        PROVE  /\ batch'[b] \in BatchRecord
               /\ batch'[b].heartbeat = batch[b].heartbeat
               /\ batch'[b].state = "running" => batch'[b].attempts < MaxAttempts
               /\ batch'[b] # batch[b] => batch[b].state = "running"
                                       /\ batch'[b].state \in {"running", "failed"}
    <2>1. batch[b] \in BatchRecord
      BY DEF TypeOK, BatchRecord
    <2>2. CASE work[b]["live"].pc = "none"
      <3>1. batch'[b] = batch[b]
        BY <1>1, <2>2
      <3> QED  BY <2>1, <3>1 DEF ShapeOK
    <2>3. CASE work[b]["live"].pc # "none"
      <3>1. batch[b].state = "running"
        BY <2>3 DEF ShapeOK, Working, At
      <3>2. batch'[b] = AttemptOver(b)[b]
        BY <1>1, <2>3
      <3> QED  BY <3>1, <3>2, OverUpdate
    <2> QED  BY <2>2, <2>3
  <1>6. batch' \in [BatchIds -> BatchRecord]
    BY <1>1, <1>5
  <1>7. TypeOK'
    <2>1. TripTypeOK'
      BY <1>1 DEF TypeOK, TripTypeOK, tripVars
    <2> QED  BY <1>1, <1>2, <1>4, <1>6, <2>1 DEF TypeOK, BatchRecord
  <1>8. ShapeOK'
    <2>1. "live" \in Slots
      BY DEF Slots
    <2> QED  BY <1>1, <1>2, <1>3, <1>5, <2>1 DEF ShapeOK, Working, OnTrip, At, Idle
  <1> QED  BY <1>2, <1>3, <1>5, <1>7, <1>8

LEMMA StepShape == TypeOK /\ ShapeOK /\ [Next]_vars => TypeOK' /\ ShapeOK'
  <1> SUFFICES ASSUME TypeOK, ShapeOK, [Next]_vars PROVE TypeOK' /\ ShapeOK'
    OBVIOUS
  <1>1. CASE UNCHANGED recoveryVars /\ TripTypeOK'
    BY <1>1 DEF recoveryVars, TypeOK, ShapeOK, BatchIds, Count, Working, OnTrip, At
  <1>2. CASE UNCHANGED vars
    BY <1>1, <1>2 DEF vars, tripVars, TypeOK, TripTypeOK
  <1>3. CASE TripNext /\ UNCHANGED recoveryVars
    BY <1>1, <1>3, TripStepType DEF TypeOK
  <1>4. CASE ListFails \/ Complete \/ ListEvicted
    <2>1. UNCHANGED <<tripVars, listed, batch, work, recovered, late>>
      BY <1>4 DEF ListFails, Complete, ListEvicted
    <2>2. /\ cached' \in BOOLEAN
          /\ phase' \in {"listing", "recovering", "panicked", "completed", "failed"}
          /\ phase' = "listing" => phase = "listing"
      BY <1>4 DEF ListFails, Complete, ListEvicted, TypeOK
    <2>3. TripTypeOK'
      BY <2>1 DEF TypeOK, TripTypeOK, tripVars
    <2>4. TypeOK'
      BY <2>1, <2>2, <2>3 DEF TypeOK, BatchIds, Count
    <2>5. ShapeOK'
      BY <2>1, <2>2 DEF ShapeOK, BatchIds, Count, Working, OnTrip, At
    <2> QED  BY <2>4, <2>5
  <1>5. CASE Next
    BY <1>3, <1>4, <1>5, NextCases, ListKeepsShape, BatchKeepsShape, AttemptKeepsShape,
       RestartKeepsShape
  <1> QED  BY <1>2, <1>5

\* Whatever fails and restarts, the recovery stays well formed.
THEOREM RecoveryTypeCorrect == Spec => [](TypeOK /\ ShapeOK)
  <1> QED  BY InitShape, StepShape, PTL DEF Spec

-----------------------------------------------------------------------------
(* The signals of a run: layer two.                                        *)

\* ReplaysOwnRun, for one attempt and for two.
Fits(b, s) ==
    /\ work[b][s].pc \in {"terminate", "start"} =>
          work[b][s].base + work[b][s].signals <= sent[Target(b, s)]
    /\ At(b, s, "replay") =>
          LET t == Target(b, s) IN
          /\ work[b][s].run <= trip[t].run
          /\ work[b][s].run = trip[t].run =>
                trip[t].base + trip[t].hist + work[b][s].signals <= sent[t]

Apart(b, s, c, u) ==
    /\ At(b, s, "replay") /\ At(c, u, "replay")
    /\ Target(b, s) = Target(c, u)
    /\ work[b][s].run = work[c][u].run
    => b = c /\ s = u

LEMMA OwnRunParts ==
    ReplaysOwnRun <=> /\ \A b \in BatchIds, s \in Slots : Fits(b, s)
                      /\ \A b, c \in BatchIds, s, u \in Slots : Apart(b, s, c, u)
  BY DEF ReplaysOwnRun, Fits, Apart

\* A trip has no fewer signals missing than before, or it has a new run.
Grows(t) ==
    /\ sent'[t] >= sent[t]
    /\ \/ trip'[t].run > trip[t].run
       \/ /\ trip'[t].run = trip[t].run
          /\ trip'[t].base + trip'[t].hist + sent[t]
                <= trip[t].base + trip[t].hist + sent'[t]

LEMMA TripNumbers ==
    ASSUME TypeOK, NEW t \in Trips
    PROVE  /\ trip[t].run \in Nat /\ trip[t].base \in Nat /\ trip[t].hist \in Nat
           /\ trip[t].used \in Nat /\ trip[t].open \in BOOLEAN /\ sent[t] \in Nat
  BY TripAssumption DEF TypeOK, TripTypeOK

LEMMA AttemptNumbers ==
    ASSUME TypeOK, NEW b \in BatchIds, NEW s \in Slots
    PROVE  /\ work[b][s].pc \in {"none", "next", "terminate", "start", "replay"}
           /\ work[b][s].pc # "none" => work[b][s].index \in Nat
           /\ work[b][s].pc \in {"terminate", "start"} => work[b][s].base \in Nat
           /\ work[b][s].pc \in {"terminate", "start", "replay"} => work[b][s].signals \in Nat
           /\ work[b][s].pc = "replay" => work[b][s].run \in Nat
  <1>1. work[b][s] \in Attempt
    BY DEF TypeOK
  <1> QED  BY <1>1, AttemptFacts

LEMMA FitsKept ==
    ASSUME TypeOK, ShapeOK, TypeOK', NEW b \in BatchIds, NEW s \in Slots, Fits(b, s),
           work'[b][s] = work[b][s], UNCHANGED listed,
           OnTrip(b, s) => Grows(Target(b, s))
    PROVE  Fits(b, s)'
  <1> DEFINE a == work[b][s]
             t == Target(b, s)
  <1>1. CASE ~OnTrip(b, s)
    BY <1>1 DEF Fits, At, OnTrip
  <1>2. CASE OnTrip(b, s)
    <2>1. t \in Trips /\ Target(b, s)' = t
      BY <1>2, TargetIsTrip DEF Target
    <2>2. /\ trip[t].run \in Nat /\ trip[t].base \in Nat /\ trip[t].hist \in Nat /\ sent[t] \in Nat
          /\ trip'[t].run \in Nat /\ trip'[t].base \in Nat /\ trip'[t].hist \in Nat
          /\ sent'[t] \in Nat
      BY <2>1, TripAssumption DEF TypeOK, TripTypeOK
    <2>3. /\ a.pc \in {"terminate", "start"} => a.base \in Nat /\ a.signals \in Nat
          /\ a.pc = "replay" => a.run \in Nat /\ a.signals \in Nat
      BY AttemptNumbers
    <2>4. Grows(t)
      BY <1>2
    <2>5. CASE a.pc \in {"terminate", "start"}
      <3>1. a.base + a.signals <= sent'[t]
        BY <2>2, <2>3, <2>4, <2>5 DEF Fits, Grows
      <3> QED  BY <2>1, <2>5, <3>1 DEF Fits, At
    <2>6. CASE a.pc = "replay"
      <3>1. a.run <= trip[t].run
        BY <2>6 DEF Fits, At
      <3>2. CASE trip'[t].run > trip[t].run
        <4>1. a.run <= trip'[t].run /\ a.run # trip'[t].run
          BY <2>2, <2>3, <2>6, <3>1, <3>2
        <4> QED  BY <2>1, <2>6, <4>1 DEF Fits, At
      <3>3. CASE trip'[t].run = trip[t].run
        <4>1. /\ a.run <= trip'[t].run
              /\ a.run = trip'[t].run =>
                    trip[t].base + trip[t].hist + a.signals <= sent[t]
          BY <2>6, <3>1, <3>3 DEF Fits, At
        <4>2. trip'[t].base + trip'[t].hist + sent[t]
                  <= trip[t].base + trip[t].hist + sent'[t]
          BY <2>2, <2>4, <3>3 DEF Grows
        <4>3. a.run = trip'[t].run =>
                    trip'[t].base + trip'[t].hist + a.signals <= sent'[t]
          BY <2>2, <2>3, <2>6, <4>1, <4>2
        <4> QED  BY <2>1, <2>6, <4>1, <4>3 DEF Fits, At
      <3> QED  BY <2>4, <3>2, <3>3 DEF Grows
    <2> QED  BY <1>2, <2>5, <2>6 DEF OnTrip
  <1> QED  BY <1>1, <1>2

\* Nobody but this attempt replays to the run of r.
NoOtherReplays(b, s, r) ==
    \A c \in BatchIds, u \in Slots :
        /\ r.pc = "replay" /\ At(c, u, "replay")
        /\ Target(c, u) = listed[r.index + 1]
        /\ work[c][u].run = r.run
        => c = b /\ u = s

\* A step of one attempt, as far as runs go.
LEMMA SlotRuns ==
    ASSUME TypeOK, ShapeOK, ReplaysOwnRun, NEW b \in BatchIds, NEW s \in Slots,
           NEW r \in Attempt, work' = [work EXCEPT ![b][s] = r],
           UNCHANGED listed, BatchIds' = BatchIds,
           \A c \in BatchIds, u \in Slots : Fits(c, u)',
           NoOtherReplays(b, s, r)
    PROVE  ReplaysOwnRun'
  <1>1. \A c \in BatchIds, u \in Slots : work'[c][u] = IF c = b /\ u = s THEN r ELSE work[c][u]
    BY SlotUpdate
  <1>2. ASSUME NEW c \in BatchIds, NEW d \in BatchIds, NEW u \in Slots, NEW v \in Slots
        PROVE  Apart(c, u, d, v)'
    <2>1. Apart(c, u, d, v)
      BY OwnRunParts
    <2>2. CASE c = b /\ u = s /\ d = b /\ v = s
      BY <2>2 DEF Apart
    <2>3. CASE c = b /\ u = s /\ ~(d = b /\ v = s)
      <3>1. work'[c][u] = r /\ work'[d][v] = work[d][v]
        BY <1>1, <2>3
      <3> QED  BY <2>3, <3>1 DEF Apart, At, Target, NoOtherReplays
    <2>4. CASE ~(c = b /\ u = s) /\ d = b /\ v = s
      <3>1. work'[c][u] = work[c][u] /\ work'[d][v] = r
        BY <1>1, <2>4
      <3> QED  BY <2>4, <3>1 DEF Apart, At, Target, NoOtherReplays
    <2>5. CASE ~(c = b /\ u = s) /\ ~(d = b /\ v = s)
      <3>1. work'[c][u] = work[c][u] /\ work'[d][v] = work[d][v]
        BY <1>1, <2>5
      <3> QED  BY <2>1, <3>1 DEF Apart, At, Target
    <2> QED  BY <2>2, <2>3, <2>4, <2>5
  <1> QED  BY <1>2, OwnRunParts DEF ReplaysOwnRun, Fits, Apart

LEMMA TripStepGrows ==
    ASSUME TripTypeOK, NeverOvercounts, TripNext
    PROVE  NeverOvercounts' /\ \A t \in Trips : Grows(t)
  <1>1. \A t \in Trips :
          /\ trip[t].run \in Nat /\ trip[t].base \in Nat /\ trip[t].hist \in Nat
          /\ trip[t].used \in Nat /\ sent[t] \in Nat
    BY TripAssumption DEF TripTypeOK
  <1>2. trip \in [Trips -> [open : BOOLEAN, run : Nat, type : {FirstType, NextType},
                            base : Nat, hist : Nat, used : 0..SignalLimit]]
        /\ sent \in [Trips -> Nat]
    BY DEF TripTypeOK
  <1>3. PICK t \in Trips : SignalTrip(t) \/ ReceiveTrip(t) \/ ContinueAsNew(t)
    BY DEF TripNext, TripStep
  <1>4. \A u \in Trips \ {t} : trip'[u] = trip[u] /\ sent'[u] = sent[u]
    BY <1>2, <1>3 DEF SignalTrip, ReceiveTrip, ContinueAsNew
  <1>5. /\ trip'[t].used <= trip'[t].hist
        /\ trip'[t].base + trip'[t].hist <= sent'[t]
        /\ Grows(t)
    <2>1. trip[t].used <= trip[t].hist /\ trip[t].base + trip[t].hist <= sent[t]
      BY DEF NeverOvercounts
    <2>2. CASE SignalTrip(t)
      <3>1. /\ trip'[t].hist = trip[t].hist + 1 /\ sent'[t] = sent[t] + 1
            /\ trip'[t].run = trip[t].run /\ trip'[t].base = trip[t].base
            /\ trip'[t].used = trip[t].used
        BY <1>2, <2>2 DEF SignalTrip
      <3> QED  BY <1>1, <2>1, <3>1 DEF Grows
    <2>3. CASE ReceiveTrip(t)
      <3>1. /\ trip'[t].hist = trip[t].hist /\ sent'[t] = sent[t]
            /\ trip'[t].run = trip[t].run /\ trip'[t].base = trip[t].base
            /\ trip'[t].used = trip[t].used + 1 /\ trip[t].used < trip[t].hist
        BY <1>2, <2>3 DEF ReceiveTrip
      <3> QED  BY <1>1, <2>1, <3>1 DEF Grows
    <2>4. CASE ContinueAsNew(t)
      <3>1. /\ trip'[t].hist = 0 /\ sent'[t] = sent[t]
            /\ trip'[t].run = trip[t].run + 1
            /\ trip'[t].base = trip[t].base + trip[t].used
            /\ trip'[t].used = 0
        BY <1>2, <2>4 DEF ContinueAsNew, NewRun, TripCounter
      <3> QED  BY <1>1, <2>1, <3>1 DEF Grows
    <2> QED  BY <1>3, <2>2, <2>3, <2>4
  <1>6. \A u \in Trips \ {t} : Grows(u)
    BY <1>1, <1>4 DEF Grows
  <1> QED  BY <1>4, <1>5, <1>6 DEF NeverOvercounts

\* Nothing happens to the trips and no attempt comes to a new one.
LEMMA QuietStepRuns ==
    ASSUME TypeOK, ShapeOK, TypeOK', NeverOvercounts, ReplaysOwnRun,
           UNCHANGED <<tripVars, listed>>, BatchIds' = BatchIds,
           NEW b \in BatchIds, NEW s \in Slots, NEW r \in Attempt,
           work' = [work EXCEPT ![b][s] = r],
           r.pc \in {"none", "next"}
    PROVE  NeverOvercounts' /\ ReplaysOwnRun'
  <1>1. \A t \in Trips : Grows(t)
    BY TripNumbers DEF Grows, tripVars
  <1>2. \A c \in BatchIds, u \in Slots : work'[c][u] = IF c = b /\ u = s THEN r ELSE work[c][u]
    BY SlotUpdate
  <1>3. ASSUME NEW c \in BatchIds, NEW u \in Slots
        PROVE  Fits(c, u)'
    <2>1. CASE c = b /\ u = s
      <3>1. work'[c][u] = r
        BY <1>2, <2>1
      <3> QED  BY <3>1 DEF Fits, At
    <2>2. CASE ~(c = b /\ u = s)
      <3>1. work'[c][u] = work[c][u] /\ Fits(c, u)
        BY <1>2, <2>2, OwnRunParts
      <3>2. OnTrip(c, u) => Grows(Target(c, u))
        BY <1>1, TargetIsTrip
      <3> QED  BY <3>1, <3>2, FitsKept
    <2> QED  BY <2>1, <2>2
  <1>4. ReplaysOwnRun'
    BY <1>3, SlotRuns DEF NoOtherReplays
  <1> QED  BY <1>4 DEF NeverOvercounts, tripVars

LEMMA AttemptKeepsRuns ==
    ASSUME TypeOK, ShapeOK, TypeOK', ShapeOK', NeverOvercounts, ReplaysOwnRun,
           NEW b \in BatchIds, NEW s \in Slots,
           \/ ReadHistory(b, s) \/ Terminate(b, s) \/ StartRun(b, s)
           \/ Replay(b, s) \/ FinishIndex(b, s) \/ EndBatch(b, s)
           \/ CallFails(b, s)
    PROVE  NeverOvercounts' /\ ReplaysOwnRun'
  <1> DEFINE a == work[b][s]
             t == Target(b, s)
  <1>1. UNCHANGED listed
    BY DEF ReadHistory, Terminate, StartRun, Replay, FinishIndex, EndBatch, CallFails
  <1>2. BatchIds' = BatchIds
    BY <1>1 DEF ShapeOK, Count
  <1>3. Idle \in Attempt /\ Idle.pc = "none"
    BY AttemptKinds DEF Idle
  <1>4. a \in Attempt
    BY DEF TypeOK
  <1>5. a.pc # "none" => a.index \in Nat
    BY AttemptNumbers
  <1>6. OnTrip(b, s) => /\ t \in Trips /\ a.signals \in Nat
                        /\ a.pc # "replay" => a.base \in Nat
                        /\ a.pc = "replay" => a.run \in Nat
    BY TargetIsTrip, AttemptNumbers DEF OnTrip
  <1>7. /\ trip \in [Trips -> [open : BOOLEAN, run : Nat, type : {FirstType, NextType},
                               base : Nat, hist : Nat, used : 0..SignalLimit]]
        /\ sent \in [Trips -> Nat]
    BY DEF TypeOK, TripTypeOK
  <1>8. ASSUME UNCHANGED tripVars, work' = [work EXCEPT ![b][s] = Idle]
        PROVE  NeverOvercounts' /\ ReplaysOwnRun'
    BY <1>1, <1>2, <1>3, <1>8, QuietStepRuns
  <1>9. CASE EndBatch(b, s) \/ CallFails(b, s)
    BY <1>8, <1>9 DEF EndBatch, CallFails, EndInError
  <1>10. CASE FinishIndex(b, s)
    <2> DEFINE r == [pc |-> "next", index |-> a.index + 1]
    <2>1. /\ UNCHANGED tripVars /\ work' = [work EXCEPT ![b][s] = r] /\ a.pc = "replay"
      BY <1>10 DEF FinishIndex, At
    <2>2. r \in Attempt /\ r.pc = "next"
      BY <1>5, <2>1, AttemptKinds
    <2> HIDE DEF r
    <2> QED  BY <1>1, <1>2, <2>1, <2>2, QuietStepRuns
  <1>11. CASE ReadHistory(b, s)
    <2> DEFINE i == a.index
               q == listed[i + 1]
               r == [pc |-> IF trip[q].open THEN "terminate" ELSE "start",
                     index |-> i, base |-> trip[q].base, signals |-> trip[q].hist]
    <2>1. /\ a.pc = "next" /\ i < Count
          /\ work' = [work EXCEPT ![b][s] = r]
          /\ UNCHANGED tripVars
      BY <1>11 DEF ReadHistory, At
    <2>2. q \in Trips /\ i \in Nat
      BY <1>5, <2>1 DEF TypeOK, Count
    <2>3. /\ trip[q].base \in Nat /\ trip[q].hist \in Nat
          /\ trip[q].base + trip[q].hist <= sent[q]
      BY <2>2, TripNumbers DEF NeverOvercounts
    <2>4. r \in Attempt /\ r.pc \in {"terminate", "start"} /\ r.index = i
          /\ r.base + r.signals <= sent[q]
      BY <2>2, <2>3, AttemptKinds
    <2> HIDE DEF r
    <2>5. \A c \in BatchIds, u \in Slots :
            work'[c][u] = IF c = b /\ u = s THEN r ELSE work[c][u]
      BY <2>1, <2>4, SlotUpdate
    <2>6. \A p \in Trips : Grows(p)
      BY <2>1, TripNumbers DEF Grows, tripVars
    <2>7. ASSUME NEW c \in BatchIds, NEW u \in Slots
          PROVE  Fits(c, u)'
      <3>1. CASE c = b /\ u = s
        <4>1. work'[c][u] = r
          BY <2>5, <3>1
        <4> QED  BY <1>1, <2>1, <2>4, <4>1 DEF Fits, At, Target, tripVars
      <3>2. CASE ~(c = b /\ u = s)
        <4>1. work'[c][u] = work[c][u] /\ Fits(c, u)
          BY <2>5, <3>2, OwnRunParts
        <4>2. OnTrip(c, u) => Grows(Target(c, u))
          BY <2>6, TargetIsTrip
        <4> QED  BY <1>1, <4>1, <4>2, FitsKept
      <3> QED  BY <3>1, <3>2
    <2>8. ReplaysOwnRun'
      BY <1>1, <1>2, <2>1, <2>4, <2>7, SlotRuns DEF NoOtherReplays
    <2> QED  BY <2>1, <2>8 DEF NeverOvercounts, tripVars
  <1>12. CASE Terminate(b, s)
    <2>1. a.pc = "terminate" /\ sent' = sent
      BY <1>12 DEF Terminate, At
    <2>2. t \in Trips
      BY <1>6, <2>1 DEF OnTrip
    <2>3. CASE ~trip[t].open
      BY <1>8, <1>12, <2>1, <2>3 DEF Terminate, EndInError, tripVars
    <2>4. CASE trip[t].open
      <3> DEFINE r == [a EXCEPT !.pc = "start"]
      <3>1. /\ trip' = [trip EXCEPT ![t].open = FALSE]
            /\ work' = [work EXCEPT ![b][s].pc = "start"]
        BY <1>12, <2>4 DEF Terminate
      <3>2. work' = [work EXCEPT ![b][s] = r]
        BY <3>1
      <3>3. /\ r \in Attempt /\ r.pc = "start" /\ r.index = a.index
            /\ r.base = a.base /\ r.signals = a.signals
        BY <1>4, <2>1, AttemptFacts DEF Attempt
      <3>4. \A p \in Trips :
               /\ trip'[p].run = trip[p].run /\ trip'[p].base = trip[p].base
               /\ trip'[p].hist = trip[p].hist /\ trip'[p].used = trip[p].used
        BY <1>7, <2>2, <3>1
      <3>5. \A p \in Trips : Grows(p)
        BY <2>1, <3>4, TripNumbers DEF Grows
      <3> HIDE DEF r
      <3>6. \A c \in BatchIds, u \in Slots :
              work'[c][u] = IF c = b /\ u = s THEN r ELSE work[c][u]
        BY <3>2, <3>3, SlotUpdate
      <3>7. ASSUME NEW c \in BatchIds, NEW u \in Slots
            PROVE  Fits(c, u)'
        <4>1. Fits(c, u)
          BY OwnRunParts
        <4>2. CASE c = b /\ u = s
          <5>1. work'[c][u] = r
            BY <3>6, <4>2
          <5>2. a.base + a.signals <= sent[t]
            BY <2>1, <4>1, <4>2 DEF Fits
          <5> QED  BY <1>1, <2>1, <3>3, <5>1, <5>2 DEF Fits, At, Target
        <4>3. CASE ~(c = b /\ u = s)
          <5>1. work'[c][u] = work[c][u]
            BY <3>6, <4>3
          <5>2. OnTrip(c, u) => Grows(Target(c, u))
            BY <3>5, TargetIsTrip
          <5> QED  BY <1>1, <4>1, <5>1, <5>2, FitsKept
        <4> QED  BY <4>2, <4>3
      <3>8. ReplaysOwnRun'
        BY <1>1, <1>2, <3>2, <3>3, <3>7, SlotRuns DEF NoOtherReplays
      <3>9. NeverOvercounts'
        BY <2>1, <3>4 DEF NeverOvercounts
      <3> QED  BY <3>8, <3>9
    <2> QED  BY <2>3, <2>4
  <1>13. CASE StartRun(b, s)
    <2>1. a.pc = "start" /\ sent' = sent
      BY <1>13 DEF StartRun, At
    <2>2. t \in Trips /\ a.base \in Nat /\ a.signals \in Nat /\ a.index \in Nat
      BY <1>5, <1>6, <2>1 DEF OnTrip
    <2>3. CASE trip[t].open
      BY <1>8, <1>13, <2>1, <2>3 DEF StartRun, EndInError, tripVars
    <2>4. CASE ~trip[t].open
      <3> DEFINE n == trip[t].run + 1
                 r == [pc |-> "replay", index |-> a.index, run |-> n, signals |-> a.signals]
      <3>1. /\ trip' = [trip EXCEPT ![t] = NewRun(n, NextType, a.base)]
            /\ work' = [work EXCEPT ![b][s] = r]
        BY <1>13, <2>4 DEF StartRun
      <3>2. n \in Nat /\ trip[t].run \in Nat /\ trip[t].run < n
        BY <2>2, TripNumbers
      <3>3. /\ r \in Attempt /\ r.pc = "replay" /\ r.index = a.index /\ r.run = n
            /\ r.signals = a.signals
        BY <2>2, <3>2, AttemptKinds
      <3>4. /\ \A p \in Trips \ {t} : trip'[p] = trip[p]
            /\ trip'[t].run = n /\ trip'[t].base = a.base
            /\ trip'[t].hist = 0 /\ trip'[t].used = 0
        BY <1>7, <2>2, <3>1 DEF NewRun
      <3> HIDE DEF n, r
      <3>5. \A p \in Trips : Grows(p)
        BY <2>1, <3>2, <3>4, TripNumbers DEF Grows
      <3>6. \A c \in BatchIds, u \in Slots :
              work'[c][u] = IF c = b /\ u = s THEN r ELSE work[c][u]
        BY <3>1, <3>3, SlotUpdate
      <3>7. a.base + a.signals <= sent[t]
        BY <2>1, OwnRunParts DEF Fits
      <3>8. ASSUME NEW c \in BatchIds, NEW u \in Slots
            PROVE  Fits(c, u)'
        <4>1. Fits(c, u)
          BY OwnRunParts
        <4>2. CASE c = b /\ u = s
          <5>1. work'[c][u] = r /\ Target(c, u)' = t
            BY <1>1, <3>3, <3>6, <4>2 DEF Target
          <5>2. r.run <= trip'[t].run
            BY <3>2, <3>3, <3>4
          <5>3. trip'[t].base + trip'[t].hist + r.signals <= sent'[t]
            BY <2>1, <2>2, <3>3, <3>4, <3>7
          <5> QED  BY <3>3, <5>1, <5>2, <5>3 DEF Fits, At
        <4>3. CASE ~(c = b /\ u = s)
          <5>1. work'[c][u] = work[c][u]
            BY <3>6, <4>3
          <5>2. OnTrip(c, u) => Grows(Target(c, u))
            BY <3>5, TargetIsTrip
          <5> QED  BY <1>1, <4>1, <5>1, <5>2, FitsKept
        <4> QED  BY <4>2, <4>3
      <3>9. ASSUME NEW c \in BatchIds, NEW u \in Slots, At(c, u, "replay"),
                   Target(c, u) = t
            PROVE  work[c][u].run # n
        <4>1. work[c][u].run <= trip[t].run /\ work[c][u].run \in Nat
          BY <3>9, OwnRunParts, AttemptNumbers DEF Fits, At
        <4> QED  BY <3>2, <4>1
      <3>10. ReplaysOwnRun'
        <4>1. t = listed[r.index + 1]
          BY <3>3 DEF Target
        <4>2. ASSUME NEW c \in BatchIds, NEW u \in Slots,
                     r.pc = "replay", At(c, u, "replay"),
                     Target(c, u) = listed[r.index + 1], work[c][u].run = r.run
              PROVE  c = b /\ u = s
          BY <3>3, <3>9, <4>1, <4>2
        <4>3. NoOtherReplays(b, s, r)
          BY <4>2 DEF NoOtherReplays
        <4> QED  BY <1>1, <1>2, <3>1, <3>3, <3>8, <4>3, SlotRuns
      <3>11. NeverOvercounts'
        <4>1. trip'[t].used <= trip'[t].hist /\ trip'[t].base + trip'[t].hist <= sent'[t]
          BY <1>7, <2>1, <2>2, <3>4, <3>7
        <4> QED  BY <2>1, <3>4, <4>1 DEF NeverOvercounts
      <3> QED  BY <3>10, <3>11
    <2> QED  BY <2>3, <2>4
  <1>14. CASE Replay(b, s)
    <2> DEFINE r == [a EXCEPT !.signals = a.signals - 1]
    <2>1. /\ a.pc = "replay" /\ a.signals > 0 /\ sent' = sent
          /\ work' = [work EXCEPT ![b][s].signals = @ - 1]
          /\ \/ /\ trip[t].run = a.run
                /\ trip' = [trip EXCEPT ![t].hist = @ + 1]
             \/ UNCHANGED trip
      BY <1>14 DEF Replay, At
    <2>2. t \in Trips /\ a.signals \in Nat /\ a.run \in Nat
      BY <1>6, <2>1 DEF OnTrip
    <2>3. work' = [work EXCEPT ![b][s] = r]
      BY <2>1
    <2>4. a.signals - 1 \in Nat
      BY <2>1, <2>2
    <2>5. /\ r \in Attempt /\ r.pc = "replay" /\ r.index = a.index
          /\ r.run = a.run /\ r.signals = a.signals - 1
      BY <1>4, <2>1, <2>4 DEF Attempt
    <2> HIDE DEF r
    <2>6. \A c \in BatchIds, u \in Slots :
            work'[c][u] = IF c = b /\ u = s THEN r ELSE work[c][u]
      BY <2>3, <2>5, SlotUpdate
    <2>7. /\ \A p \in Trips \ {t} : trip'[p] = trip[p]
          /\ trip'[t].run = trip[t].run /\ trip'[t].base = trip[t].base
          /\ trip'[t].used = trip[t].used
          /\ \/ trip'[t].hist = trip[t].hist
             \/ trip'[t].hist = trip[t].hist + 1 /\ trip[t].run = a.run
      BY <1>7, <2>1, <2>2
    <2>8. /\ a.run <= trip[t].run
          /\ a.run = trip[t].run => trip[t].base + trip[t].hist + a.signals <= sent[t]
      BY <2>1, OwnRunParts DEF Fits, At
    <2>9. /\ trip[t].run \in Nat /\ trip[t].base \in Nat /\ trip[t].hist \in Nat
          /\ trip[t].used \in Nat /\ sent[t] \in Nat
      BY <2>2, TripNumbers
    <2>10. ASSUME NEW c \in BatchIds, NEW u \in Slots
           PROVE  Fits(c, u)'
      <3>1. Fits(c, u)
        BY OwnRunParts
      <3>2. CASE c = b /\ u = s
        <4>1. work'[c][u] = r /\ Target(c, u)' = t
          BY <1>1, <2>5, <2>6, <3>2 DEF Target
        <4>2. r.run <= trip'[t].run
          BY <2>5, <2>7, <2>8
        <4>3. r.run = trip'[t].run =>
                  trip'[t].base + trip'[t].hist + r.signals <= sent'[t]
          BY <2>1, <2>2, <2>5, <2>7, <2>8, <2>9
        <4> QED  BY <2>5, <4>1, <4>2, <4>3 DEF Fits, At
      <3>3. CASE ~(c = b /\ u = s)
        <4>1. work'[c][u] = work[c][u]
          BY <2>6, <3>3
        <4>2. CASE OnTrip(c, u) => Grows(Target(c, u))
          BY <1>1, <3>1, <4>1, <4>2, FitsKept
        <4>3. CASE OnTrip(c, u) /\ ~Grows(Target(c, u))
          <5>1. Target(c, u) \in Trips
            BY <4>3, TargetIsTrip
          <5>2. Target(c, u) = t /\ trip[t].run = a.run
            <6>1. \A p \in Trips \ {t} : Grows(p)
              BY <2>1, <2>7, TripNumbers DEF Grows
            <6>2. trip'[t].hist = trip[t].hist => Grows(t)
              BY <2>1, <2>7, <2>9 DEF Grows
            <6> QED  BY <2>7, <4>3, <5>1, <6>1, <6>2
          <5>3. Target(c, u)' = t
            BY <1>1, <4>1, <5>2 DEF Target
          <5>4. CASE work[c][u].pc \in {"terminate", "start"}
            BY <2>1, <3>1, <4>1, <5>2, <5>3, <5>4 DEF Fits, At
          <5>5. CASE work[c][u].pc = "replay"
            <6>1. work[c][u].run <= trip[t].run /\ work[c][u].run # trip[t].run
              <7>1. work[c][u].run # a.run
                BY <2>1, <3>3, <5>2, <5>5, OwnRunParts DEF Apart, At
              <7> QED  BY <3>1, <5>2, <5>5, <7>1 DEF Fits, At
            <6> QED  BY <2>7, <4>1, <5>3, <5>5, <6>1 DEF Fits, At
          <5> QED  BY <4>3, <5>4, <5>5 DEF OnTrip
        <4> QED  BY <4>2, <4>3
      <3> QED  BY <3>2, <3>3
    <2>11. ASSUME NEW c \in BatchIds, NEW u \in Slots, At(c, u, "replay"),
                  Target(c, u) = t, work[c][u].run = a.run
           PROVE  c = b /\ u = s
      BY <2>1, <2>11, OwnRunParts DEF Apart, At
    <2>12. ReplaysOwnRun'
      <3>1. t = listed[r.index + 1]
        BY <2>5 DEF Target
      <3>2. ASSUME NEW c \in BatchIds, NEW u \in Slots,
                   r.pc = "replay", At(c, u, "replay"),
                   Target(c, u) = listed[r.index + 1], work[c][u].run = r.run
            PROVE  c = b /\ u = s
        BY <2>5, <2>11, <3>1, <3>2
      <3>3. NoOtherReplays(b, s, r)
        BY <3>2 DEF NoOtherReplays
      <3> QED  BY <1>1, <1>2, <2>3, <2>5, <2>10, <3>3, SlotRuns
    <2>13. NeverOvercounts'
      <3>1. trip'[t].used <= trip'[t].hist /\ trip'[t].base + trip'[t].hist <= sent'[t]
        BY <2>1, <2>2, <2>7, <2>8, <2>9 DEF NeverOvercounts
      <3> QED  BY <2>1, <2>7, <3>1 DEF NeverOvercounts
    <2> QED  BY <2>12, <2>13
  <1> QED  BY <1>9, <1>10, <1>11, <1>12, <1>13, <1>14

\* No attempt is at a trip afterwards that was not there before: BeginAttempt,
\* the failures of attempts and of hosts, and what does not concern attempts.
LEMMA OthersKeepRuns ==
    ASSUME TypeOK, ShapeOK, TypeOK', ShapeOK', NeverOvercounts, ReplaysOwnRun,
           UNCHANGED <<sent, listed>>, UNCHANGED trip, BatchIds' = BatchIds,
           \A b \in BatchIds : \/ work'[b] = work[b]
                               \/ \A s \in Slots : ~OnTrip(b, s)'
                               \/ /\ ~OnTrip(b, "live")'
                                  /\ work'[b]["stale"] = work[b]["live"]
    PROVE  NeverOvercounts' /\ ReplaysOwnRun'
  <1> DEFINE Origin(b, s) == IF work'[b] = work[b] THEN s ELSE "live"
  <1>1. ASSUME NEW b \in BatchIds, NEW s \in Slots, OnTrip(b, s)'
        PROVE  /\ Origin(b, s) \in Slots
               /\ work'[b][s] = work[b][Origin(b, s)]
               /\ \A u \in Slots : OnTrip(b, u)' /\ Origin(b, u) = Origin(b, s) => u = s
    BY <1>1 DEF Slots
  <1> HIDE DEF Origin
  <1>2. ASSUME NEW b \in BatchIds, NEW s \in Slots
        PROVE  Fits(b, s)'
    <2>1. CASE OnTrip(b, s)'
      <3>1. Fits(b, Origin(b, s))
        BY <1>1, <2>1, OwnRunParts
      <3> QED  BY <1>1, <2>1, <3>1 DEF Fits, At, Target
    <2>2. CASE ~OnTrip(b, s)'
      BY <2>2 DEF Fits, At, OnTrip
    <2> QED  BY <2>1, <2>2
  <1>3. ASSUME NEW b \in BatchIds, NEW c \in BatchIds, NEW s \in Slots, NEW u \in Slots
        PROVE  Apart(b, s, c, u)'
    <2>1. CASE OnTrip(b, s)' /\ OnTrip(c, u)'
      <3>1. Apart(b, Origin(b, s), c, Origin(c, u))
        BY <1>1, <2>1, OwnRunParts
      <3>2. /\ work'[b][s] = work[b][Origin(b, s)]
            /\ work'[c][u] = work[c][Origin(c, u)]
        BY <1>1, <2>1
      <3>3. b = c /\ Origin(b, s) = Origin(c, u) => s = u
        BY <1>1, <2>1
      <3> QED  BY <3>1, <3>2, <3>3 DEF Apart, At, Target
    <2>2. CASE ~OnTrip(b, s)' \/ ~OnTrip(c, u)'
      BY <2>2 DEF Apart, At, OnTrip
    <2> QED  BY <2>1, <2>2
  <1>4. ReplaysOwnRun'
    BY <1>2, <1>3 DEF ReplaysOwnRun, Fits, Apart
  <1> QED  BY <1>4 DEF NeverOvercounts

LEMMA StepRuns ==
    TypeOK /\ ShapeOK /\ TypeOK' /\ ShapeOK' /\ NeverOvercounts /\ ReplaysOwnRun /\ [Next]_vars
        => NeverOvercounts' /\ ReplaysOwnRun'
  <1> SUFFICES ASSUME TypeOK, ShapeOK, TypeOK', ShapeOK', NeverOvercounts, ReplaysOwnRun,
                      [Next]_vars
               PROVE  NeverOvercounts' /\ ReplaysOwnRun'
    OBVIOUS
  <1>1. CASE UNCHANGED <<tripVars, listed, work>> /\ BatchIds' = BatchIds
    BY <1>1, OthersKeepRuns DEF tripVars
  <1>2. CASE UNCHANGED vars
    BY <1>1, <1>2 DEF vars, recoveryVars, BatchIds
  <1>3. CASE TripNext /\ UNCHANGED recoveryVars
    <2>1. UNCHANGED <<listed, work>> /\ BatchIds' = BatchIds
      BY <1>3 DEF recoveryVars, BatchIds
    <2>2. NeverOvercounts' /\ \A t \in Trips : Grows(t)
      BY <1>3, TripStepGrows DEF TypeOK
    <2>3. ASSUME NEW b \in BatchIds, NEW s \in Slots
          PROVE  Fits(b, s)'
      <3>1. Fits(b, s) /\ (OnTrip(b, s) => Grows(Target(b, s)))
        BY <2>2, OwnRunParts, TargetIsTrip
      <3> QED  BY <2>1, <3>1, FitsKept
    <2>4. ASSUME NEW b \in BatchIds, NEW c \in BatchIds, NEW s \in Slots, NEW u \in Slots
          PROVE  Apart(b, s, c, u)'
      <3>1. Apart(b, s, c, u)
        BY OwnRunParts
      <3> QED  BY <2>1, <3>1 DEF Apart, At, Target
    <2>5. ReplaysOwnRun'
      BY <2>1, <2>3, <2>4 DEF ReplaysOwnRun, Fits, Apart
    <2> QED  BY <2>2, <2>5
  <1>4. CASE ListAndSplit
    <2>1. UNCHANGED tripVars /\ \A b \in BatchIds' : \A s \in Slots : work'[b][s] = Idle
      BY <1>4, ListKeepsShape
    <2> QED  BY <2>1 DEF NeverOvercounts, ReplaysOwnRun, tripVars, At, Idle
  <1>5. CASE ListFails \/ Complete \/ ListEvicted
    BY <1>1, <1>5 DEF ListFails, Complete, ListEvicted, BatchIds
  <1>6. CASE HostRestart
    <2>1. UNCHANGED <<tripVars, listed>>
      BY <1>6 DEF HostRestart
    <2>2. BatchIds' = BatchIds /\ \A b \in BatchIds : \A s \in Slots : work'[b][s] = Idle
      BY <1>6, RestartKeepsShape
    <2>3. \A b \in BatchIds : \A s \in Slots : ~OnTrip(b, s)'
      BY <2>2 DEF OnTrip, Idle
    <2> QED  BY <2>1, <2>2, <2>3, OthersKeepRuns DEF tripVars
  <1>7. ASSUME NEW b \in BatchIds,
               BeginAttempt(b) \/ AttemptPanics(b) \/ HeartbeatTimeout(b)
        PROVE  NeverOvercounts' /\ ReplaysOwnRun'
    <2>1. UNCHANGED <<tripVars, listed>>
      BY <1>7 DEF BeginAttempt, AttemptPanics, HeartbeatTimeout
    <2>2. BatchIds' = BatchIds
      BY <2>1 DEF ShapeOK, Count
    <2>3. CASE AttemptPanics(b)
      BY <1>1, <2>1, <2>2, <2>3 DEF AttemptPanics
    <2>4. CASE BeginAttempt(b)
      <3> DEFINE r == [pc |-> "next", index |-> FirstIndex(b)]
      <3>1. work' = [work EXCEPT ![b]["live"] = r] /\ At(b, "live", "none")
        BY <2>4 DEF BeginAttempt
      <3>2. "live" \in Slots /\ work'[b]["live"] = r
        BY <3>1 DEF Slots, TypeOK
      <3>3. r \in Attempt
        BY <2>2, <3>2 DEF TypeOK
      <3>4. r.pc = "next"
        OBVIOUS
      <3> HIDE DEF r
      <3> QED  BY <2>1, <2>2, <3>1, <3>2, <3>3, <3>4, QuietStepRuns
    <2>5. CASE HeartbeatTimeout(b)
      <3> DEFINE r == IF AttemptsOverlap THEN work[b]["live"] ELSE work[b]["stale"]
      <3>1. work' = [work EXCEPT ![b] = [live |-> Idle, stale |-> r]]
        BY <2>5 DEF HeartbeatTimeout
      <3> HIDE DEF r
      <3>2. /\ \A c \in BatchIds \ {b} : work'[c] = work[c]
            /\ work'[b]["live"] = Idle /\ work'[b]["stale"] = r
        BY <3>1 DEF TypeOK
      <3>3. CASE AttemptsOverlap
        <4>1. r = work[b]["live"]
          BY <3>3 DEF r
        <4>2. ~OnTrip(b, "live")' /\ work'[b]["stale"] = work[b]["live"]
          BY <3>2, <4>1 DEF OnTrip, Idle
        <4> QED  BY <2>1, <2>2, <3>2, <4>2, OthersKeepRuns DEF tripVars
      <3>4. CASE ~AttemptsOverlap
        <4>1. r = work[b]["stale"]
          BY <3>4 DEF r
        <4>2. Idle \in Attempt /\ Idle.pc = "none" /\ "live" \in Slots
          BY AttemptKinds DEF Idle, Slots
        <4>3. work' = [work EXCEPT ![b]["live"] = Idle]
          BY <2>2, <3>1, <3>2, <4>1 DEF TypeOK, Slots
        <4> QED  BY <2>1, <2>2, <4>2, <4>3, QuietStepRuns
      <3> QED  BY <3>3, <3>4
    <2> QED  BY <1>7, <2>3, <2>4, <2>5
  <1>8. CASE Next
    BY <1>3, <1>4, <1>5, <1>6, <1>7, <1>8, NextCases, AttemptKeepsRuns
  <1> QED  BY <1>2, <1>8

LEMMA InitRuns == Init => NeverOvercounts /\ ReplaysOwnRun
  BY TripAssumption DEF Init, TripInit, RecoveryInit, NewRun, NeverOvercounts, ReplaysOwnRun,
     BatchIds

\* No signal of a trip is counted twice, whatever attempts overlap, fail in the
\* middle of a restart, and replay to runs that others have terminated.
THEOREM NeverOvercountsHolds == Spec => []NeverOvercounts
  <1>1. Spec => []ReplaysOwnRun /\ []NeverOvercounts
    BY InitShape, StepShape, InitRuns, StepRuns, PTL DEF Spec
  <1> QED  BY <1>1, PTL

-----------------------------------------------------------------------------
(* The progress of the attempts: layer three.                              *)

\* An execution is behind an attempt, a heartbeat, or the end of its batch.
Behind(b, i) ==
    \/ batch[b].state = "done"
    \/ i <= batch[b].heartbeat
    \/ Working(b, "live") /\ i < work[b]["live"].index

LEMMA ProgressParts ==
    ProgressIsRecovered <=>
        \A b \in BatchIds : \A i \in BatchRange(Count, b) : Behind(b, i) => i \in recovered
  BY DEF ProgressIsRecovered, Behind

LEMMA ProgressKept ==
    ASSUME ProgressIsRecovered, UNCHANGED listed, BatchIds' = BatchIds,
           recovered \subseteq recovered',
           \A b \in BatchIds : \A i \in BatchRange(Count, b) :
              Behind(b, i)' => Behind(b, i) \/ i \in recovered'
    PROVE  ProgressIsRecovered'
  BY ProgressParts DEF ProgressIsRecovered, Behind, Count

\* A batch neither gets further nor done.
LEMMA NothingPassed ==
    ASSUME NEW b \in BatchIds,
           batch'[b].heartbeat = batch[b].heartbeat,
           batch'[b].state = "done" => batch[b].state = "done",
           \/ work'[b]["live"].pc = "none"
           \/ /\ work[b]["live"].pc # "none"
              /\ work'[b]["live"].index = work[b]["live"].index,
           NEW i
    PROVE  Behind(b, i)' => Behind(b, i)
  BY DEF Behind, Working, At

\* The step of an attempt changes its own slot and batch.
LEMMA AttemptIsLocal ==
    ASSUME TypeOK, ShapeOK, NEW b \in BatchIds, NEW s \in Slots,
           \/ ReadHistory(b, s) \/ Terminate(b, s) \/ StartRun(b, s)
           \/ Replay(b, s) \/ FinishIndex(b, s) \/ EndBatch(b, s)
           \/ CallFails(b, s)
    PROVE  /\ UNCHANGED <<listed, phase>>
           /\ BatchIds' = BatchIds /\ Count' = Count
           /\ recovered \subseteq recovered'
           /\ \A c \in BatchIds \ {b} : work'[c] = work[c] /\ batch'[c] = batch[c]
           /\ s = "stale" => batch' = batch /\ work'[b]["live"] = work[b]["live"]
           /\ s = "live" => work'[b]["stale"] = work[b]["stale"]
  <1>1. UNCHANGED <<listed, phase>> /\ recovered \subseteq recovered'
    BY DEF ReadHistory, Terminate, StartRun, Replay, FinishIndex, EndBatch, CallFails
  <1>2. TypeOK' /\ ShapeOK'
    BY AttemptKeepsShape
  <1>3. BatchIds' = BatchIds /\ Count' = Count
    BY <1>1, <1>2 DEF ShapeOK, Count
  <1>4. \E r : work' = [work EXCEPT ![b][s] = r]
    <2>1. CASE Terminate(b, s)
      <3>1. work' = [work EXCEPT ![b][s] = [work[b][s] EXCEPT !.pc = "start"]] \/ EndInError(b, s)
        BY <2>1 DEF Terminate
      <3> QED  BY <3>1 DEF EndInError
    <2>2. CASE Replay(b, s)
      <3>1. work' = [work EXCEPT ![b][s] =
                        [work[b][s] EXCEPT !.signals = work[b][s].signals - 1]]
        BY <2>2 DEF Replay
      <3> QED  BY <3>1
    <2>3. CASE StartRun(b, s)
      BY <2>3 DEF StartRun, EndInError
    <2>4. CASE ReadHistory(b, s)
      BY <2>4 DEF ReadHistory
    <2>5. CASE FinishIndex(b, s) \/ EndBatch(b, s) \/ CallFails(b, s)
      BY <2>5 DEF FinishIndex, EndBatch, CallFails, EndInError
    <2> QED  BY <2>1, <2>2, <2>3, <2>4, <2>5
  <1>5. /\ \A c \in BatchIds \ {b} : work'[c] = work[c]
        /\ \A u \in Slots \ {s} : work'[b][u] = work[b][u]
    BY <1>4 DEF TypeOK
  <1>6. /\ \A c \in BatchIds \ {b} : batch'[c] = batch[c]
        /\ s = "stale" => batch' = batch
    <2>1. CASE UNCHANGED batch
      BY <2>1
    <2>2. CASE EndInError(b, s) /\ Working(b, s)
      BY <2>2, ErrorChange DEF BatchChange
    <2>3. CASE \/ s = "live" /\ batch' = [batch EXCEPT ![b].state = "done"]
               \/ s = "live" /\ batch' = [batch EXCEPT ![b].heartbeat = work[b][s].index]
      BY <2>3 DEF TypeOK
    <2> QED  BY <2>1, <2>2, <2>3 DEF ReadHistory, Terminate, StartRun, Replay, FinishIndex,
                                     EndBatch, CallFails, Working, At
  <1> QED  BY <1>1, <1>3, <1>5, <1>6 DEF Slots

LEMMA AttemptKeepsProgress ==
    ASSUME TypeOK, ShapeOK, ProgressIsRecovered, NEW b \in BatchIds, NEW s \in Slots,
           \/ ReadHistory(b, s) \/ Terminate(b, s) \/ StartRun(b, s)
           \/ Replay(b, s) \/ FinishIndex(b, s) \/ EndBatch(b, s)
           \/ CallFails(b, s)
    PROVE  ProgressIsRecovered'
  <1> DEFINE i == work[b][s].index
  <1>1. /\ UNCHANGED listed
        /\ BatchIds' = BatchIds /\ Count' = Count
        /\ recovered \subseteq recovered'
        /\ \A c \in BatchIds \ {b} : work'[c] = work[c] /\ batch'[c] = batch[c]
        /\ s = "stale" => batch' = batch /\ work'[b]["live"] = work[b]["live"]
    BY AttemptIsLocal
  <1>2. \A c \in BatchIds \ {b} : \A j : Behind(c, j)' => Behind(c, j)
    BY <1>1 DEF Behind, Working, At
  <1>3. SUFFICES ASSUME NEW j \in BatchRange(Count, b), Behind(b, j)'
                 PROVE  Behind(b, j) \/ j \in recovered'
    BY <1>1, <1>2, ProgressKept
  <1>4. CASE s = "stale"
    BY <1>1, <1>3, <1>4 DEF Behind, Working, At
  <1>5. CASE s = "live"
    <2>1. Working(b, s) => i \in Nat
      BY AttemptNumbers DEF Working, At
    <2>2. j \in Nat /\ j < Count /\ j < EndIndex(Count, b) /\ Count \in Nat
      BY DEF BatchRange, TypeOK, Count
    <2>3. batch[b] \in BatchRecord
      BY DEF TypeOK, BatchRecord
    <2>4. CASE EndInError(b, s) /\ Working(b, s)
      <3>1. /\ batch'[b].heartbeat = batch[b].heartbeat
            /\ batch'[b].state # "done"
        BY <1>5, <2>4, ErrorChange
      <3>2. work'[b]["live"].pc = "none"
        BY <1>5, <2>4 DEF EndInError, TypeOK, Idle, Slots
      <3> QED  BY <1>3, <3>1, <3>2, NothingPassed
    <2>5. CASE FinishIndex(b, s)
      <3>1. /\ At(b, s, "replay") /\ i \in recovered'
            /\ work' = [work EXCEPT ![b][s] = [pc |-> "next", index |-> i + 1]]
            /\ batch' = [batch EXCEPT ![b].heartbeat = i] \/ UNCHANGED batch
        BY <2>5 DEF FinishIndex
      <3>2. work'[b]["live"].index = i + 1
        BY <1>5, <3>1 DEF TypeOK, Slots
      <3>3. /\ batch'[b].state = batch[b].state
            /\ batch'[b].heartbeat \in {i, batch[b].heartbeat}
        BY <2>3, <3>1 DEF TypeOK, BatchRecord
      <3>4. Working(b, "live") /\ i \in Nat
        BY <1>5, <2>1, <3>1 DEF Working, At
      <3>5. CASE j = i
        BY <3>1, <3>5
      <3>6. CASE j # i
        <4> HIDE DEF i
        <4>1. /\ batch[b].state = "done" \/ j <= batch[b].heartbeat \/ j <= i \/ j < i + 1
          BY <1>3, <3>2, <3>3 DEF Behind
        <4>2. CASE j <= i \/ j < i + 1
          <5>1. j < i
            BY <2>2, <3>4, <3>6, <4>2
          <5> QED  BY <1>5, <3>4, <5>1 DEF Behind, i
        <4> QED  BY <4>1, <4>2 DEF Behind
      <3> QED  BY <3>5, <3>6
    <2>6. CASE EndBatch(b, s)
      <3>1. At(b, s, "next") /\ (i >= EndIndex(Count, b) \/ i >= Count)
        BY <2>6 DEF EndBatch
      <3>2. Working(b, "live") /\ i \in Nat
        BY <1>5, <2>1, <3>1 DEF Working, At
      <3>3. EndIndex(Count, b) \in Nat
        BY <2>2, RangeFacts DEF ShapeOK
      <3>4. j < i
        BY <2>2, <3>1, <3>2, <3>3
      <3> QED  BY <1>5, <3>2, <3>4 DEF Behind
    <2>7. CASE UNCHANGED batch /\ work[b][s].pc # "none" /\ work'[b][s].index = i
      BY <1>3, <1>5, <2>7, NothingPassed
    <2>8. CASE ReadHistory(b, s)
      <3>1. work'[b][s].index = i /\ UNCHANGED batch /\ At(b, s, "next")
        BY <2>8 DEF ReadHistory, TypeOK
      <3> QED  BY <2>7, <3>1 DEF At
    <2>9. CASE Terminate(b, s) /\ ~EndInError(b, s)
      <3>1. /\ work' = [work EXCEPT ![b][s].pc = "start"]
            /\ UNCHANGED batch /\ At(b, s, "terminate")
        BY <2>9 DEF Terminate
      <3>2. work[b][s] \in Attempt /\ work[b][s].pc = "terminate"
        BY <3>1 DEF TypeOK, At
      <3>3. work'[b][s].index = i
        BY <3>1, <3>2 DEF TypeOK, Attempt
      <3> QED  BY <2>7, <3>1, <3>2, <3>3
    <2>10. CASE StartRun(b, s) /\ ~EndInError(b, s)
      <3>1. work'[b][s].index = i /\ UNCHANGED batch /\ At(b, s, "start")
        BY <2>10 DEF StartRun, TypeOK
      <3> QED  BY <2>7, <3>1 DEF At
    <2>11. CASE Replay(b, s)
      <3>1. /\ work' = [work EXCEPT ![b][s].signals = @ - 1]
            /\ UNCHANGED batch /\ At(b, s, "replay")
        BY <2>11 DEF Replay
      <3>2. work[b][s] \in Attempt /\ work[b][s].pc = "replay"
        BY <3>1 DEF TypeOK, At
      <3>3. work'[b][s].index = i
        BY <3>1, <3>2 DEF TypeOK, Attempt
      <3> QED  BY <2>7, <3>1, <3>2, <3>3
    <2>12. EndInError(b, s) /\ (Terminate(b, s) \/ StartRun(b, s) \/ CallFails(b, s))
              => Working(b, s)
      BY DEF Terminate, StartRun, CallFails, Working, At
    <2>13. CallFails(b, s) => EndInError(b, s)
      BY DEF CallFails
    <2> QED  BY <2>4, <2>5, <2>6, <2>8, <2>9, <2>10, <2>11, <2>12, <2>13
  <1> QED  BY <1>4, <1>5 DEF Slots

\* An attempt starts no further than its heartbeat allows.
LEMMA BeginKeepsProgress ==
    ASSUME TypeOK, ShapeOK, ProgressIsRecovered, NEW b \in BatchIds, BeginAttempt(b)
    PROVE  ProgressIsRecovered'
  <1>1. /\ UNCHANGED <<listed, batch, recovered>> /\ BatchIds' = BatchIds
        /\ work' = [work EXCEPT ![b]["live"] = [pc |-> "next", index |-> FirstIndex(b)]]
    BY DEF BeginAttempt, BatchIds
  <1>2. \A c \in BatchIds \ {b} : work'[c] = work[c]
    BY <1>1 DEF TypeOK
  <1>3. work'[b]["live"].index = FirstIndex(b)
    BY <1>1 DEF TypeOK, Slots
  <1>4. SUFFICES ASSUME NEW j \in BatchRange(Count, b), Behind(b, j)'
                 PROVE  Behind(b, j)
    BY <1>1, <1>2, ProgressKept DEF Behind, Working, At
  <1>5. batch[b].heartbeat \in Nat \union {NoHeartbeat}
    BY DEF TypeOK
  <1>6. j \in Nat /\ StartIndex(Count, b) <= j
    BY DEF BatchRange, TypeOK, Count
  <1>7. StartIndex(Count, b) \in Nat
    BY RangeFacts DEF ShapeOK, TypeOK, Count
  <1>8. batch[b].state = "done" \/ j <= batch[b].heartbeat \/ j < FirstIndex(b)
    BY <1>1, <1>3, <1>4 DEF Behind
  <1>9. CASE j < FirstIndex(b)
    BY <1>5, <1>6, <1>7, <1>9 DEF FirstIndex, Behind
  <1> QED  BY <1>8, <1>9 DEF Behind

LEMMA StepProgress ==
    TypeOK /\ ShapeOK /\ TypeOK' /\ ShapeOK' /\ ProgressIsRecovered /\ [Next]_vars
        => ProgressIsRecovered'
  <1> SUFFICES ASSUME TypeOK, ShapeOK, TypeOK', ShapeOK', ProgressIsRecovered, [Next]_vars
               PROVE  ProgressIsRecovered'
    OBVIOUS
  <1>1. CASE UNCHANGED <<listed, batch, work, recovered>>
    BY <1>1 DEF ProgressIsRecovered, BatchIds, Count, Working, At
  <1>2. CASE UNCHANGED vars \/ UNCHANGED recoveryVars \/ ListFails \/ Complete \/ ListEvicted
    BY <1>1, <1>2 DEF vars, recoveryVars, ListFails, Complete, ListEvicted
  <1>3. CASE ListAndSplit
    <2>1. \A b \in BatchIds' :
            /\ batch'[b].state = "running" /\ batch'[b].heartbeat = NoHeartbeat
            /\ work'[b]["live"] = Idle
      BY <1>3, ListKeepsShape DEF Slots
    <2>2. ASSUME NEW b \in BatchIds', NEW i \in BatchRange(Count, b)', Behind(b, i)'
          PROVE  FALSE
      <3>1. i \in Nat
        BY DEF BatchRange, TypeOK, Count
      <3> QED  BY <2>1, <2>2, <3>1 DEF Behind, Working, At, Idle, NoHeartbeat
    <2> QED  BY <2>2 DEF ProgressIsRecovered, Behind
  <1>4. CASE HostRestart
    <2>1. UNCHANGED <<listed, recovered>>
      BY <1>4 DEF HostRestart
    <2>2. BatchIds' = BatchIds
          /\ \A b \in BatchIds :
                /\ work'[b]["live"] = Idle
                /\ batch'[b].heartbeat = batch[b].heartbeat
                /\ batch'[b].state = "done" => batch[b].state = "done"
      BY <1>4, RestartKeepsShape DEF Slots
    <2>3. \A b \in BatchIds : \A i : Behind(b, i)' => Behind(b, i)
      BY <2>2, NothingPassed DEF Idle
    <2> QED  BY <2>1, <2>2, <2>3, ProgressKept
  <1>5. ASSUME NEW b \in BatchIds, AttemptPanics(b) \/ HeartbeatTimeout(b)
        PROVE  ProgressIsRecovered'
    <2>1. /\ UNCHANGED <<listed, recovered>> /\ batch' = AttemptOver(b)
          /\ work'[b]["live"].pc = "none"
          /\ \A c \in BatchIds \ {b} : work'[c] = work[c]
      BY <1>5 DEF AttemptPanics, HeartbeatTimeout, At, TypeOK, Idle
    <2>2. batch[b].state = "running"
      BY <1>5 DEF AttemptPanics, HeartbeatTimeout, ShapeOK, Working
    <2>3. /\ BatchIds' = BatchIds
          /\ \A c \in BatchIds \ {b} : batch'[c] = batch[c]
          /\ batch'[b].state # "done" /\ batch'[b].heartbeat = batch[b].heartbeat
      BY <2>1, <2>2, OverUpdate DEF BatchIds
    <2>4. \A i : Behind(b, i)' => Behind(b, i)
      BY <2>1, <2>3, NothingPassed
    <2>5. \A c \in BatchIds \ {b} : \A i : Behind(c, i)' => Behind(c, i)
      BY <2>1, <2>3 DEF Behind, Working, At
    <2> QED  BY <2>1, <2>3, <2>4, <2>5, ProgressKept
  <1>6. CASE Next
    BY <1>2, <1>3, <1>4, <1>5, <1>6, NextCases, AttemptKeepsProgress, BeginKeepsProgress
  <1> QED  BY <1>2, <1>6

LEMMA InitProgress == Init => ProgressIsRecovered
  BY DEF Init, RecoveryInit, ProgressIsRecovered, BatchIds

LEMMA ProgressSuffices == TypeOK /\ ShapeOK /\ ProgressIsRecovered => DoneIsRecovered
  <1> SUFFICES ASSUME TypeOK, ShapeOK, ProgressIsRecovered PROVE DoneIsRecovered
    OBVIOUS
  <1>1. Count \in Nat
    BY DEF TypeOK, Count
  <1>2. \A i \in 0..(Count - 1) : \E b \in BatchIds : i \in BatchRange(Count, b)
    BY <1>1, BatchesCover DEF ShapeOK
  <1> QED  BY <1>2 DEF ProgressIsRecovered, DoneIsRecovered

\* A batch whose activity succeeds has recovered every execution it was given,
\* and every listed execution was given to one, whatever attempts failed,
\* resumed from an old heartbeat, or lost their host.
THEOREM DoneIsRecoveredHolds == Spec => []DoneIsRecovered
  <1> QED  BY InitShape, StepShape, InitProgress, StepProgress, ProgressSuffices, PTL DEF Spec

THEOREM RecoveryInvariance == Spec => []RecoveryIInv
  <1>1. Spec => [](TypeOK /\ ShapeOK) /\ []NeverOvercounts /\ []ReplaysOwnRun
                /\ []ProgressIsRecovered
    BY InitShape, StepShape, InitRuns, StepRuns, InitProgress, StepProgress, PTL DEF Spec
  <1>2. TypeOK /\ ShapeOK /\ NeverOvercounts /\ ReplaysOwnRun /\ ProgressIsRecovered
            => RecoveryIInv
    BY DEF RecoveryIInv
  <1> QED  BY <1>1, <1>2, PTL

-----------------------------------------------------------------------------
(* The trips that are closed: layer four.                                  *)

\* Batch b has yet to recover index i, or has failed.
Ahead(b, i) ==
    /\ i \in BatchRange(Count, b)
    /\ \/ batch[b].state = "failed"
       \/ /\ batch[b].state = "running"
          /\ batch[b].heartbeat < i
          /\ Working(b, "live") => work[b]["live"].index <= i
          /\ At(b, "live", "replay") => work[b]["live"].index < i

InPlace(b) == Working(b, "live") => batch[b].heartbeat < work[b]["live"].index

\* A trip that is closed, and not by an attempt the server had given up on.
Due(t) == ~trip[t].open /\ t \notin late

LEMMA AheadParts ==
    ClosedIsAhead <=>
        /\ \A b \in BatchIds : InPlace(b)
        /\ \A i \in 0..(Count - 1) :
              Due(listed[i + 1]) => \E b \in BatchIds : Ahead(b, i)
  BY DEF ClosedIsAhead, InPlace, Ahead, Due

\* Only batch b takes a step.
LEMMA BatchKeepsAhead ==
    ASSUME ClosedIsAhead, NEW b \in BatchIds,
           UNCHANGED listed, BatchIds' = BatchIds,
           \A c \in BatchIds \ {b} : work'[c] = work[c] /\ batch'[c] = batch[c],
           InPlace(b)',
           \A i \in 0..(Count - 1) :
              Due(listed[i + 1])' =>
                  \/ Due(listed[i + 1]) /\ (Ahead(b, i) => Ahead(b, i)')
                  \/ Ahead(b, i)'
    PROVE  ClosedIsAhead'
  <1>1. \A c \in BatchIds \ {b} : InPlace(c) => InPlace(c)'
    BY DEF InPlace, At, Working
  <1>2. \A c \in BatchIds \ {b} : \A i : Ahead(c, i) => Ahead(c, i)'
    BY DEF Ahead, At, Working, Count
  <1>3. ASSUME NEW i \in 0..(Count - 1), Due(listed[i + 1])'
        PROVE  \E c \in BatchIds : Ahead(c, i)'
    BY <1>2, <1>3, AheadParts
  <1>4. \A c \in BatchIds : InPlace(c)'
    BY <1>1, AheadParts
  <1> QED  BY <1>3, <1>4 DEF ClosedIsAhead, InPlace, Ahead, Due, Count

\* An attempt the server has given up on closes no trip but those it marks.
LEMMA StaleKeepsAhead ==
    ASSUME TypeOK, ShapeOK, ClosedIsAhead, NEW b \in BatchIds,
           \/ ReadHistory(b, "stale") \/ Terminate(b, "stale") \/ StartRun(b, "stale")
           \/ Replay(b, "stale") \/ FinishIndex(b, "stale") \/ EndBatch(b, "stale")
           \/ CallFails(b, "stale")
    PROVE  ClosedIsAhead'
  <1>1. "stale" \in Slots
    BY DEF Slots
  <1>2. /\ UNCHANGED listed
        /\ BatchIds' = BatchIds /\ Count' = Count
        /\ \A c \in BatchIds \ {b} : work'[c] = work[c] /\ batch'[c] = batch[c]
        /\ batch' = batch /\ work'[b]["live"] = work[b]["live"]
    BY <1>1, AttemptIsLocal
  <1>3. InPlace(b)'
    BY <1>2, AheadParts DEF InPlace, Working, At
  <1>4. \A j : Ahead(b, j) => Ahead(b, j)'
    BY <1>2 DEF Ahead, Working, At
  <1>5. /\ trip \in [Trips -> [open : BOOLEAN, run : Nat, type : {FirstType, NextType},
                               base : Nat, hist : Nat, used : 0..SignalLimit]]
        /\ OnTrip(b, "stale") => Target(b, "stale") \in Trips
    BY <1>1, TargetIsTrip DEF TypeOK, TripTypeOK
  <1>6. \A t \in Trips : Due(t)' => Due(t)
    <2>1. CASE UNCHANGED <<trip, late>>
      BY <2>1 DEF Due
    <2>2. CASE /\ OnTrip(b, "stale")
               /\ trip' = [trip EXCEPT ![Target(b, "stale")].open = FALSE]
               /\ late' = late \union {Target(b, "stale")}
      BY <1>5, <2>2 DEF Due
    <2>3. CASE /\ OnTrip(b, "stale") /\ UNCHANGED late
               /\ \E r : r.open /\ trip' = [trip EXCEPT ![Target(b, "stale")] = r]
      BY <1>5, <2>3 DEF Due
    <2>4. CASE /\ OnTrip(b, "stale") /\ UNCHANGED late
               /\ trip' = [trip EXCEPT ![Target(b, "stale")].hist = @ + 1]
      BY <1>5, <2>4 DEF Due
    <2>5. CASE StartRun(b, "stale")
      <3>1. CASE trip[Target(b, "stale")].open
        BY <2>1, <2>5, <3>1 DEF StartRun
      <3>2. CASE ~trip[Target(b, "stale")].open
        <4> DEFINE n == NewRun(trip[Target(b, "stale")].run + 1, NextType,
                               work[b]["stale"].base)
        <4>1. trip' = [trip EXCEPT ![Target(b, "stale")] = n]
              /\ UNCHANGED late /\ OnTrip(b, "stale")
          BY <2>5, <3>2 DEF StartRun, OnTrip, At
        <4>2. n.open
          BY DEF NewRun
        <4> QED  BY <2>3, <4>1, <4>2
      <3> QED  BY <3>1, <3>2
    <2>6. CASE Terminate(b, "stale")
      BY <2>1, <2>2, <2>6 DEF Terminate, OnTrip, At
    <2>7. CASE Replay(b, "stale")
      BY <2>1, <2>4, <2>7 DEF Replay, OnTrip, At
    <2> QED  BY <2>1, <2>5, <2>6, <2>7
             DEF ReadHistory, FinishIndex, EndBatch, CallFails, tripVars
  <1>7. \A j \in 0..(Count - 1) : listed[j + 1] \in Trips
    BY DEF TypeOK, Count
  <1>8. \A j \in 0..(Count - 1) : Due(listed[j + 1])' => Due(listed[j + 1])
    BY <1>2, <1>6, <1>7 DEF Due
  <1> QED  BY <1>2, <1>3, <1>4, <1>8, BatchKeepsAhead

LEMMA AttemptKeepsAhead ==
    ASSUME TypeOK, ShapeOK, ClosedIsAhead, NEW b \in BatchIds, NEW s \in Slots,
           \/ ReadHistory(b, s) \/ Terminate(b, s) \/ StartRun(b, s)
           \/ Replay(b, s) \/ FinishIndex(b, s) \/ EndBatch(b, s)
           \/ CallFails(b, s)
    PROVE  ClosedIsAhead'
  <1>0. CASE s = "stale"
    BY <1>0, StaleKeepsAhead
  <1> SUFFICES ASSUME s = "live" PROVE ClosedIsAhead'
    BY <1>0 DEF Slots
  <1> DEFINE a == work[b]["live"]
             i == a.index
             h == batch[b].heartbeat
  <1>1. /\ UNCHANGED listed
        /\ BatchIds' = BatchIds /\ Count' = Count
        /\ \A c \in BatchIds \ {b} : work'[c] = work[c] /\ batch'[c] = batch[c]
    BY AttemptIsLocal
  <1>2. s = "live" /\ a.pc # "none" /\ a \in Attempt
    BY DEF ReadHistory, Terminate, StartRun, Replay, FinishIndex, EndBatch, CallFails,
           At, Slots, TypeOK
  <1>4. /\ batch[b].state = "running"
        /\ h < i /\ i \in Nat /\ h \in Nat \union {NoHeartbeat}
        /\ StartIndex(Count, b) <= i
    BY <1>2, AheadParts, AttemptNumbers DEF InPlace, Working, At, ShapeOK, Slots, TypeOK
  <1>5. Count \in Nat /\ EndIndex(Count, b) \in Nat
    BY RangeFacts DEF TypeOK, ShapeOK, Count
  <1>6. \A j \in 0..(Count - 1) : j \in Nat /\ listed[j + 1] \in Trips
    BY DEF TypeOK, Count
  <1>7. OnTrip(b, s) => /\ i \in BatchRange(Count, b) /\ i \in 0..(Count - 1)
                        /\ Target(b, s) = listed[i + 1] /\ Target(b, s) \in Trips
    BY <1>2, TargetIsTrip DEF ShapeOK, BatchRange, Target
  <1>8. batch \in [BatchIds -> BatchRecord]
        /\ trip \in [Trips -> [open : BOOLEAN, run : Nat, type : {FirstType, NextType},
                               base : Nat, hist : Nat, used : 0..SignalLimit]]
    BY DEF TypeOK, TripTypeOK, BatchRecord
  \* An attempt that fails leaves the closed trips to the next one.
  <1>9. ASSUME EndInError(b, s), UNCHANGED <<trip, late>>
        PROVE  ClosedIsAhead'
    <2>1. /\ batch'[b].heartbeat = h /\ batch'[b].state \in {"running", "failed"}
          /\ work'[b]["live"].pc = "none"
      BY <1>2, <1>9, ErrorChange DEF EndInError, TypeOK, Working, At, Slots, Idle
    <2>2. InPlace(b)'
      BY <2>1 DEF InPlace, Working, At
    <2>3. \A j : Ahead(b, j) => Ahead(b, j)'
      BY <1>1, <1>4, <2>1 DEF Ahead, Working, At
    <2> QED  BY <1>1, <1>9, <2>2, <2>3, BatchKeepsAhead DEF Due
  \* The attempt stays at its index.
  <1>10. ASSUME batch'[b] = batch[b], work'[b]["live"].index = i,
                work'[b]["live"].pc \in {"terminate", "start"} \/ At(b, "live", "replay"),
                \A j \in 0..(Count - 1) :
                    Due(listed[j + 1])' => Due(listed[j + 1]) \/ Ahead(b, j)'
         PROVE  ClosedIsAhead'
    <2>1. InPlace(b)'
      BY <1>4, <1>10 DEF InPlace
    <2>2. \A j : Ahead(b, j) => Ahead(b, j)'
      BY <1>1, <1>2, <1>10 DEF Ahead, Working, At
    <2> QED  BY <1>1, <1>10, <2>1, <2>2, BatchKeepsAhead
  <1>11. CASE ReadHistory(b, s)
    <2>1. /\ work' = [work EXCEPT ![b][s] =
                [pc |-> IF trip[listed[i + 1]].open THEN "terminate" ELSE "start", index |-> i,
                 base |-> trip[listed[i + 1]].base, signals |-> trip[listed[i + 1]].hist]]
          /\ UNCHANGED <<trip, batch, late>>
      BY <1>2, <1>11 DEF ReadHistory, tripVars
    <2>2. work'[b]["live"].index = i /\ work'[b]["live"].pc \in {"terminate", "start"}
      BY <1>2, <2>1 DEF TypeOK
    <2> QED  BY <1>1, <1>10, <2>1, <2>2 DEF Due
  <1>12. CASE Terminate(b, s)
    <2>1. a.pc = "terminate" /\ OnTrip(b, s)
      BY <1>2, <1>12 DEF Terminate, At, OnTrip
    <2> DEFINE t == Target(b, s)
    <2>2. CASE ~trip[t].open
      BY <1>9, <1>12, <2>2 DEF Terminate
    <2>3. CASE trip[t].open
      <3>1. /\ trip' = [trip EXCEPT ![t].open = FALSE]
            /\ late' = late \ {t}
            /\ work' = [work EXCEPT ![b][s].pc = "start"]
            /\ UNCHANGED batch
        BY <1>2, <1>12, <2>3 DEF Terminate
      <3>2. work'[b]["live"].index = i /\ work'[b]["live"].pc = "start"
        BY <1>2, <2>1, <3>1 DEF TypeOK, Attempt
      <3>3. \A j : j = i => Ahead(b, j)'
        BY <1>1, <1>4, <1>7, <2>1, <3>1, <3>2 DEF Ahead, At, Working
      <3>4. ASSUME NEW j \in 0..(Count - 1), Due(listed[j + 1])'
            PROVE  Due(listed[j + 1]) \/ Ahead(b, j)'
        <4>1. CASE listed[j + 1] = t
          <5>1. j + 1 \in 1..Count /\ i + 1 \in 1..Count
            BY <1>5, <1>7, <2>1
          <5>2. j + 1 = i + 1
            BY <1>7, <2>1, <4>1, <5>1 DEF ShapeOK
          <5>3. j = i
            BY <1>4, <1>6, <5>2
          <5> QED  BY <3>3, <5>3
        <4>2. CASE listed[j + 1] # t
          <5> HIDE DEF t
          <5>1. trip'[listed[j + 1]] = trip[listed[j + 1]]
            BY <1>6, <1>8, <3>1, <4>2
          <5>2. Due(listed[j + 1])
            BY <1>1, <3>1, <3>4, <4>2, <5>1 DEF Due
          <5> QED  BY <5>2
        <4> QED  BY <4>1, <4>2
      <3> QED  BY <1>10, <3>1, <3>2, <3>4
    <2> QED  BY <2>2, <2>3
  <1>13. CASE StartRun(b, s)
    <2>1. a.pc = "start" /\ OnTrip(b, s)
      BY <1>2, <1>13 DEF StartRun, At, OnTrip
    <2> DEFINE t == Target(b, s)
    <2>2. CASE trip[t].open
      BY <1>9, <1>13, <2>2 DEF StartRun
    <2>3. CASE ~trip[t].open
      <3>1. /\ trip' = [trip EXCEPT ![t] = NewRun(trip[t].run + 1, NextType, work[b][s].base)]
            /\ work' = [work EXCEPT ![b][s] =
                          [pc |-> "replay", index |-> work[b][s].index,
                           run |-> trip[t].run + 1, signals |-> work[b][s].signals]]
            /\ UNCHANGED <<batch, late>>
        BY <1>13, <2>3 DEF StartRun
      <3>2. work'[b]["live"].index = i /\ work'[b]["live"].pc = "replay"
        BY <1>2, <3>1 DEF TypeOK
      <3>3. trip'[t].open /\ \A p \in Trips \ {t} : trip'[p] = trip[p]
        BY <1>7, <1>8, <2>1, <3>1 DEF NewRun
      <3>4. InPlace(b)'
        BY <1>4, <3>1, <3>2 DEF InPlace
      <3>5. ASSUME NEW j \in 0..(Count - 1), Due(listed[j + 1])'
            PROVE  Due(listed[j + 1]) /\ (Ahead(b, j) => Ahead(b, j)')
        <4>1. j # i /\ Due(listed[j + 1])
          BY <1>1, <1>6, <1>7, <2>1, <3>1, <3>3, <3>5 DEF Due
        <4>2. i <= j /\ j # i => i < j
          BY <1>4, <1>6
        <4> HIDE DEF i, a, h
        <4>3. Ahead(b, j) => j \in BatchRange(Count, b) /\ h < j /\ i <= j
          BY <1>2, <1>4 DEF Ahead, Working, At, i, a, h
        <4> QED  BY <1>1, <1>4, <3>1, <3>2, <4>1, <4>2, <4>3 DEF Ahead, Working, At, h
      <3> QED  BY <1>1, <3>4, <3>5, BatchKeepsAhead
    <2> QED  BY <2>2, <2>3
  <1>14. CASE Replay(b, s)
    <2>1. /\ a.pc = "replay" /\ OnTrip(b, s)
          /\ work' = [work EXCEPT ![b][s].signals = @ - 1]
          /\ UNCHANGED <<batch, late>>
          /\ UNCHANGED trip \/ trip' = [trip EXCEPT ![Target(b, s)].hist = @ + 1]
      BY <1>2, <1>14 DEF Replay, At, OnTrip
    <2>2. work'[b]["live"].index = i /\ At(b, "live", "replay")
      BY <1>2, <2>1 DEF TypeOK, Attempt, At
    <2>3. \A p \in Trips : trip'[p].open = trip[p].open
      BY <1>7, <1>8, <2>1
    <2> QED  BY <1>1, <1>6, <1>10, <2>1, <2>2, <2>3 DEF Due
  <1>15. CASE FinishIndex(b, s)
    <2>1. /\ a.pc = "replay" /\ UNCHANGED <<trip, late>>
          /\ work' = [work EXCEPT ![b][s] = [pc |-> "next", index |-> i + 1]]
          /\ batch' = [batch EXCEPT ![b].heartbeat = i] \/ UNCHANGED batch
      BY <1>2, <1>15 DEF FinishIndex, At, tripVars
    <2>2. work'[b]["live"].index = i + 1 /\ work'[b]["live"].pc = "next"
      BY <1>2, <2>1 DEF TypeOK
    <2>3. batch'[b].state = "running" /\ batch'[b].heartbeat \in {i, h}
      BY <1>4, <1>8, <2>1 DEF BatchRecord
    <2>4. InPlace(b)'
      <3> HIDE DEF i, h
      <3>1. h < i + 1 /\ i < i + 1
        BY <1>4 DEF NoHeartbeat
      <3>2. batch'[b].heartbeat < i + 1
        BY <2>3, <3>1
      <3> QED  BY <2>2, <3>2 DEF InPlace, i
    <2>5. ASSUME NEW j \in 0..(Count - 1), Ahead(b, j)
          PROVE  Ahead(b, j)'
      <3>1. j \in BatchRange(Count, b) /\ h < j /\ i < j
        BY <1>2, <1>4, <2>1, <2>5 DEF Ahead, Working, At
      <3>2. i + 1 <= j /\ batch'[b].heartbeat < j
        BY <1>4, <1>6, <2>3, <3>1
      <3> QED  BY <1>1, <2>2, <2>3, <3>1, <3>2 DEF Ahead, Working, At
    <2> QED  BY <1>1, <2>1, <2>4, <2>5, BatchKeepsAhead DEF Due
  <1>16. CASE EndBatch(b, s)
    <2>1. /\ i >= EndIndex(Count, b) \/ i >= Count
          /\ work' = [work EXCEPT ![b][s] = Idle] /\ UNCHANGED <<trip, late>>
      BY <1>2, <1>16 DEF EndBatch, tripVars
    <2>2. InPlace(b)'
      <3>1. work'[b]["live"].pc = "none"
        BY <1>2, <2>1 DEF TypeOK, Idle
      <3> QED  BY <3>1 DEF InPlace, Working, At
    <2>3. ASSUME NEW j \in 0..(Count - 1), Ahead(b, j)
          PROVE  FALSE
      <3>1. i <= j /\ j < EndIndex(Count, b) /\ j < Count
        BY <1>2, <1>4, <1>5, <2>3 DEF Ahead, Working, At, BatchRange
      <3> QED  BY <1>4, <1>5, <1>6, <2>1, <3>1
    <2> QED  BY <1>1, <2>1, <2>2, <2>3, BatchKeepsAhead DEF Due
  <1>17. CASE CallFails(b, s)
    BY <1>9, <1>17 DEF CallFails, tripVars
  <1> QED  BY <1>11, <1>12, <1>13, <1>14, <1>15, <1>16, <1>17
\* An attempt resumes after the heartbeat.
LEMMA BeginKeepsAhead ==
    ASSUME TypeOK, ShapeOK, ClosedIsAhead, NEW b \in BatchIds, BeginAttempt(b)
    PROVE  ClosedIsAhead'
  <1> DEFINE h == batch[b].heartbeat
             f == FirstIndex(b)
  <1>1. /\ UNCHANGED <<trip, listed, batch, late>> /\ BatchIds' = BatchIds
        /\ batch[b].state = "running"
        /\ work' = [work EXCEPT ![b]["live"] = [pc |-> "next", index |-> f]]
    BY DEF BeginAttempt, BatchIds, tripVars
  <1>2. /\ work'[b]["live"].index = f /\ work'[b]["live"].pc = "next"
        /\ work'[b]["stale"] = work[b]["stale"]
        /\ \A c \in BatchIds \ {b} : work'[c] = work[c]
    BY <1>1 DEF TypeOK, Slots
  <1>3. h \in Nat \union {NoHeartbeat} /\ Count \in Nat
    BY DEF TypeOK, Count
  <1>4. StartIndex(Count, b) \in Nat
    BY <1>3, RangeFacts DEF ShapeOK
  <1>5. h < f
    BY <1>3, <1>4 DEF FirstIndex, NoHeartbeat
  <1>6. \A j \in BatchRange(Count, b) : h < j => f <= j
    <2> SUFFICES ASSUME NEW j \in BatchRange(Count, b), h < j PROVE f <= j
      OBVIOUS
    <2>1. j \in Nat /\ StartIndex(Count, b) <= j
      BY <1>3 DEF BatchRange
    <2> QED  BY <1>3, <2>1 DEF FirstIndex, NoHeartbeat
  <1> HIDE DEF f
  <1>7. InPlace(b)'
    BY <1>1, <1>2, <1>5 DEF InPlace, At
  <1>8. \A j : Ahead(b, j) => Ahead(b, j)'
    BY <1>1, <1>2, <1>6 DEF Ahead, Working, At, Count
  <1> QED  BY <1>1, <1>2, <1>7, <1>8, BatchKeepsAhead DEF Due

\* The steps of attempts, of the recovery and of the trips.
LEMMA StepAhead ==
    ASSUME TypeOK, ShapeOK, ClosedIsAhead, [Next]_vars
    PROVE  ClosedIsAhead'
  <1>1. ASSUME UNCHANGED <<listed, batch, work, late>>,
               \A t \in Trips : ~trip'[t].open => ~trip[t].open
        PROVE  ClosedIsAhead'
    <2>1. \A i \in 0..(Count - 1) : listed[i + 1] \in Trips
      BY DEF TypeOK, Count
    <2>2. Count' = Count /\ BatchIds' = BatchIds
      BY <1>1 DEF Count, BatchIds
    <2> QED  BY <1>1, <2>1, <2>2 DEF ClosedIsAhead, Working, At
  <1>2. CASE UNCHANGED vars \/ ListFails \/ Complete \/ ListEvicted
    BY <1>1, <1>2 DEF vars, recoveryVars, tripVars, ListFails, Complete, ListEvicted
  <1>3. CASE TripNext /\ UNCHANGED recoveryVars
    <2>1. PICK t \in Trips : SignalTrip(t) \/ ReceiveTrip(t) \/ ContinueAsNew(t)
      BY <1>3 DEF TripNext, TripStep
    <2>2. trip \in [Trips -> [open : BOOLEAN, run : Nat, type : {FirstType, NextType},
                              base : Nat, hist : Nat, used : 0..SignalLimit]]
      BY DEF TypeOK, TripTypeOK
    <2>3. \A p \in Trips : ~trip'[p].open => ~trip[p].open
      BY <2>1, <2>2 DEF SignalTrip, ReceiveTrip, ContinueAsNew, NewRun
    <2> QED  BY <1>1, <1>3, <2>3 DEF recoveryVars
  <1>4. CASE ListAndSplit
    <2>1. /\ trip' = trip
          /\ \A i \in 0..(Count' - 1) : trip[listed'[i + 1]].open
          /\ \A b \in BatchIds' : \A s \in Slots : work'[b][s].pc = "none"
      BY <1>4, ListKeepsShape DEF tripVars, Idle
    <2> QED  BY <2>1 DEF ClosedIsAhead, Working, At, Slots
  <1>5. CASE HostRestart
    <2>1. UNCHANGED <<trip, listed, late>>
      BY <1>5 DEF HostRestart, tripVars
    <2>2. /\ BatchIds' = BatchIds
          /\ \A b \in BatchIds :
                /\ work'[b]["live"].pc = "none" /\ work'[b]["stale"].pc = "none"
                /\ batch'[b].heartbeat = batch[b].heartbeat
                /\ \/ batch'[b] = batch[b]
                   \/ batch[b].state = "running" /\ batch'[b].state \in {"running", "failed"}
      BY <1>5, RestartKeepsShape DEF Slots, Idle
    <2>3. ASSUME NEW b \in BatchIds, NEW i, Ahead(b, i)
          PROVE  Ahead(b, i)'
      BY <2>1, <2>2, <2>3 DEF Ahead, Working, At, Count
    <2>4. \A b \in BatchIds : InPlace(b)'
      BY <2>2 DEF InPlace, Working, At
    <2>5. Count' = Count
      BY <2>1 DEF Count
    <2> QED  BY <2>1, <2>2, <2>3, <2>4, <2>5, AheadParts DEF ClosedIsAhead, InPlace, Ahead, Due
  <1>6. ASSUME NEW b \in BatchIds, AttemptPanics(b) \/ HeartbeatTimeout(b)
        PROVE  ClosedIsAhead'
    <2>1. /\ UNCHANGED <<trip, listed, late>> /\ batch' = AttemptOver(b)
          /\ work'[b]["live"].pc = "none"
          /\ \A c \in BatchIds \ {b} : work'[c] = work[c]
      BY <1>6 DEF AttemptPanics, HeartbeatTimeout, At, TypeOK, Slots, Idle, tripVars
    <2>2. batch[b].state = "running"
      BY <1>6 DEF AttemptPanics, HeartbeatTimeout, ShapeOK, Working
    <2>3. /\ BatchIds' = BatchIds
          /\ \A c \in BatchIds \ {b} : batch'[c] = batch[c]
          /\ batch'[b].state \in {"running", "failed"}
          /\ batch'[b].heartbeat = batch[b].heartbeat
      BY <2>1, <2>2, OverUpdate DEF BatchIds
    <2>4. InPlace(b)'
      BY <2>1, AheadParts DEF InPlace, Working, At
    <2>5. \A i : Ahead(b, i) => Ahead(b, i)'
      BY <2>1, <2>2, <2>3 DEF Ahead, Working, At, Count
    <2> QED  BY <2>1, <2>3, <2>4, <2>5, BatchKeepsAhead DEF Due
  <1>7. CASE Next
    BY <1>2, <1>3, <1>4, <1>5, <1>6, <1>7, NextCases, AttemptKeepsAhead, BeginKeepsAhead
  <1> QED  BY <1>2, <1>7

LEMMA InitAhead == Init => ClosedIsAhead
  <1> SUFFICES ASSUME Init PROVE ClosedIsAhead
    OBVIOUS
  <1>1. BatchIds = {} /\ Count = 0
    BY DEF Init, RecoveryInit, BatchIds, Count
  <1> QED  BY <1>1 DEF ClosedIsAhead

\* A trip that recovery has terminated is in the range of a batch that is still
\* being worked on or has failed, however attempts overlap: none is forgotten,
\* but for those that an attempt closed after the server gave up on it.
THEOREM TerminatedIsPendingHolds == Spec => []TerminatedIsPending
  <1>1. TypeOK /\ ShapeOK /\ ClosedIsAhead /\ [Next]_vars => ClosedIsAhead'
    BY StepAhead
  <1>2. ClosedIsAhead => TerminatedIsPending
    BY DEF ClosedIsAhead, TerminatedIsPending
  <1> QED  BY <1>1, <1>2, InitShape, StepShape, InitAhead, PTL DEF Spec

-----------------------------------------------------------------------------
(* The trips alone, without recovery.                                      *)

LEMMA TripInitType == TripInit => TripTypeOK
  <1>1. 0 \in 0..SignalLimit
    BY TripAssumption
  <1> QED  BY <1>1 DEF TripInit, TripTypeOK, NewRun

\* Beside no recovery, the counter of a trip workflow never goes back, from one
\* run to the next either.
THEOREM CounterNeverDecreasesHolds == TripSpec => CounterNeverDecreases
  <1>1. TripTypeOK /\ [TripNext]_tripVars
            => [\A t \in Trips : TripCounter(t)' >= TripCounter(t)]_tripVars
    <2> SUFFICES ASSUME TripTypeOK, TripNext, NEW t \in Trips
                 PROVE  TripCounter(t)' >= TripCounter(t)
      OBVIOUS
    <2>1. PICK p \in Trips : SignalTrip(p) \/ ReceiveTrip(p) \/ ContinueAsNew(p)
      BY DEF TripNext, TripStep
    <2>2. /\ trip \in [Trips -> [open : BOOLEAN, run : Nat, type : {FirstType, NextType},
                                base : Nat, hist : Nat, used : 0..SignalLimit]]
          /\ trip[t].base \in Nat /\ trip[t].used \in Nat
      BY TripAssumption DEF TripTypeOK
    <2>3. CASE p # t
      <3>1. trip'[t] = trip[t]
        BY <2>1, <2>2, <2>3 DEF SignalTrip, ReceiveTrip, ContinueAsNew
      <3> QED  BY <2>2, <3>1 DEF TripCounter
    <2>4. CASE SignalTrip(t)
      <3>1. trip'[t].base = trip[t].base /\ trip'[t].used = trip[t].used
        BY <2>2, <2>4 DEF SignalTrip
      <3> QED  BY <2>2, <3>1 DEF TripCounter
    <2>5. CASE ReceiveTrip(t)
      <3>1. trip'[t].base = trip[t].base /\ trip'[t].used = trip[t].used + 1
        BY <2>2, <2>5 DEF ReceiveTrip
      <3> QED  BY <2>2, <3>1 DEF TripCounter
    <2>6. CASE ContinueAsNew(t)
      <3>1. trip'[t].base = trip[t].base + trip[t].used /\ trip'[t].used = 0
        BY <2>2, <2>6 DEF ContinueAsNew, NewRun, TripCounter
      <3> QED  BY <2>2, <3>1 DEF TripCounter
    <2> QED  BY <2>1, <2>3, <2>4, <2>5, <2>6
  <1>2. TripTypeOK /\ [TripNext]_tripVars => TripTypeOK'
    BY TripStepType DEF TripTypeOK, tripVars
  <1> QED  BY <1>1, <1>2, TripInitType, PTL DEF TripSpec, CounterNeverDecreases
=============================================================================
