---------------------------- MODULE MutexProofs ----------------------------
(***************************************************************************)
(* Theorems about Mutex, for every set of clients, every number of         *)
(* attempts and runs of any length.                                        *)
(***************************************************************************)
EXTENDS Mutex, TLAPS

\* Members of a request queue after a request is added or taken.
LEMMA AppendMembers ==
    ASSUME NEW q \in Seq(Clients), NEW c \in Clients
    PROVE  /\ Append(q, c) \in Seq(Clients)
           /\ \E i \in 1..Len(Append(q, c)) : Append(q, c)[i] = c
           /\ \A d \in Clients :
                (\E i \in 1..Len(q) : q[i] = d)
                  => \E i \in 1..Len(Append(q, c)) : Append(q, c)[i] = d
  <1>1. Append(q, c) \in Seq(Clients) /\ Len(Append(q, c)) = Len(q) + 1
    OBVIOUS
  <1>2. Append(q, c)[Len(q) + 1] = c
    OBVIOUS
  <1>3. \A i \in 1..Len(q) : Append(q, c)[i] = q[i] /\ i \in 1..(Len(q) + 1)
    OBVIOUS
  <1>4. Len(q) + 1 \in 1..(Len(q) + 1)
    OBVIOUS
  <1>. QED  BY <1>1, <1>2, <1>3, <1>4

LEMMA TailMembers ==
    ASSUME NEW q \in Seq(Clients), q # <<>>
    PROVE  /\ Tail(q) \in Seq(Clients)
           /\ Head(q) \in Clients
           /\ \A d \in Clients :
                (\E i \in 1..Len(q) : q[i] = d)
                  => d = Head(q) \/ \E i \in 1..Len(Tail(q)) : Tail(q)[i] = d
  <1>1. Tail(q) \in Seq(Clients) /\ Head(q) \in Clients /\ Head(q) = q[1]
    OBVIOUS
  <1>2. Len(q) \in Nat /\ Len(q) > 0 /\ Len(Tail(q)) = Len(q) - 1
    OBVIOUS
  <1>3. \A i \in 1..Len(Tail(q)) : Tail(q)[i] = q[i + 1]
    OBVIOUS
  <1>4. ASSUME NEW d \in Clients, NEW i \in 1..Len(q), q[i] = d, d # Head(q)
        PROVE  \E j \in 1..Len(Tail(q)) : Tail(q)[j] = d
    <2>1. i # 1 /\ i - 1 \in 1..Len(Tail(q)) /\ (i - 1) + 1 = i
      BY <1>1, <1>2, <1>4
    <2>2. Tail(q)[i - 1] = d
      BY <1>3, <1>4, <2>1
    <2>. QED  BY <2>1, <2>2
  <1>. QED  BY <1>1, <1>4

-----------------------------------------------------------------------------
(* Type correctness.                                                       *)

LEMMA InitType == Init => TypeOK
  BY NoClientAssumption, ConstantsAssumption
  DEF Init, TypeOK, OpenStates, ClosedStates, RunStates, NoUnlocks

LEMMA NextType == TypeOK /\ [Next]_vars => TypeOK'
  <1> SUFFICES ASSUME TypeOK, [Next]_vars PROVE TypeOK'
    OBVIOUS
  <1> USE NoClientAssumption, ConstantsAssumption
      DEF OpenStates, ClosedStates, RunStates
  <1>1. ASSUME NEW c \in Clients, Start(c) PROVE TypeOK'
    BY <1>1 DEF TypeOK, Start, mutexVars
  <1>2. ASSUME NEW c \in Clients, SendRequest(c) PROVE TypeOK'
    <2>1. attempts' \in [Clients -> 0..MaxAttempts]
      BY <1>2 DEF TypeOK, SendRequest
    <2>2. run' \in Nat /\ served' \in 0..GrantsBeforeTimeout
      BY <1>2 DEF TypeOK, SendRequest, SignalWithStart
    <2>3. /\ acquired' = acquired /\ expired' = expired
          /\ unlocks' \in [Clients -> Nat]
      BY <1>2 DEF TypeOK, SendRequest, SignalWithStart, NoUnlocks
    <2>4. /\ client' \in [Clients ->
                          {"idle"} \union OpenStates \union ClosedStates]
          /\ execution' \in [Clients -> Nat]
      <3>1. CASE UNCHANGED <<client, execution>>
        BY <3>1 DEF TypeOK
      <3>2. CASE /\ client' = [client EXCEPT ![c] = "waiting"]
                 /\ execution' = [execution EXCEPT ![c] = run']
        BY <2>2, <3>2 DEF TypeOK
      <3>. QED  BY <1>2, <3>1, <3>2 DEF SendRequest
    <2>5. /\ mutex' \in RunStates
          /\ holder' \in Clients \union {NoClient}
          /\ mutex' \in {"granting", "granted", "awaiting"} <=> holder' # NoClient
      BY <1>2 DEF TypeOK, SendRequest, SignalWithStart
    <2>6. queue' = Append(queue, c) \/ queue' = <<c>>
      BY <1>2 DEF TypeOK, SendRequest, SignalWithStart
    <2>7. queue' \in Seq(Clients)
      <3>1. queue \in Seq(Clients) /\ <<c>> \in Seq(Clients)
        BY DEF TypeOK
      <3>2. Append(queue, c) \in Seq(Clients)
        BY <3>1, AppendMembers
      <3>. QED  BY <2>6, <3>1, <3>2
    <2>. QED  BY <2>1, <2>2, <2>3, <2>4, <2>5, <2>7 DEF TypeOK
  <1>3. ASSUME NEW c \in Clients, AttemptFails(c) PROVE TypeOK'
    BY <1>3 DEF TypeOK, AttemptFails, mutexVars
  <1>4. ASSUME NEW c \in Clients, LockFails(c) PROVE TypeOK'
    BY <1>4 DEF TypeOK, LockFails, mutexVars
  <1>5. ASSUME NEW c \in Clients, EnterCritical(c) PROVE TypeOK'
    BY <1>5 DEF TypeOK, EnterCritical, mutexVars
  <1>6. ASSUME NEW c \in Clients, ExitCritical(c) PROVE TypeOK'
    BY <1>6 DEF TypeOK, ExitCritical, mutexVars
  <1>7. ASSUME NEW c \in Clients, DeliverUnlock(c) PROVE TypeOK'
    BY <1>7 DEF TypeOK, DeliverUnlock
  <1>8. ASSUME NEW c \in Clients, Complete(c) PROVE TypeOK'
    BY <1>8 DEF TypeOK, Complete, mutexVars
  <1>9. ASSUME NEW c \in Clients, ClientTimesOut(c) PROVE TypeOK'
    BY <1>9 DEF TypeOK, ClientTimesOut, mutexVars
  <1>10. ASSUME ReceiveRequest PROVE TypeOK'
    BY <1>10, TailMembers DEF TypeOK, ReceiveRequest, clientVars
  <1>11. ASSUME DeliverGrant PROVE TypeOK'
    BY <1>11 DEF TypeOK, DeliverGrant, clientVars
  <1>12. ASSUME GrantFails PROVE TypeOK'
    BY <1>12 DEF TypeOK, GrantFails, clientVars
  <1>13. ASSUME AwaitRelease PROVE TypeOK'
    BY <1>13 DEF TypeOK, AwaitRelease, clientVars
  <1>14. ASSUME ReceiveRelease PROVE TypeOK'
    BY <1>14 DEF TypeOK, ReceiveRelease, clientVars
  <1>15. ASSUME UnlockTimeout PROVE TypeOK'
    BY <1>15 DEF TypeOK, UnlockTimeout, clientVars
  <1>16. ASSUME Finish PROVE TypeOK'
    BY <1>16 DEF TypeOK, Finish, clientVars, NoUnlocks
  <1>17. ASSUME RunTimesOut PROVE TypeOK'
    BY <1>17 DEF TypeOK, RunTimesOut, clientVars, NoUnlocks
  <1>18. CASE UNCHANGED vars
    BY <1>18 DEF TypeOK, vars
  <1>. QED
    BY <1>1, <1>2, <1>3, <1>4, <1>5, <1>6, <1>7, <1>8, <1>9, <1>10, <1>11,
       <1>12, <1>13, <1>14, <1>15, <1>16, <1>17, <1>18
    DEF Next, ClientStep, MutexStep, Terminated

\* Every state a run of the workflows reaches is well typed, and the mutex
\* run has a holder exactly while it serves a request.
THEOREM TypeCorrect == Spec => []TypeOK
  BY InitType, NextType, PTL DEF Spec

-----------------------------------------------------------------------------
(* The safety invariants.  They hold when a lease lasts as long as its      *)
(* holder and no mutex run reaches its own execution timeout.               *)

LEMMA InitInv == Init => IInv
  <1> SUFFICES ASSUME Init PROVE IInv
    OBVIOUS
  <1>1. TypeOK
    BY InitType
  <1>2. /\ GrantIsHeld
        /\ NoRequestLost
        /\ UnlockingIsHeld
        /\ UnlocksAreReleased
        /\ IdleIsFresh
        /\ ClosedIsEmpty
        /\ RunIsKnown
    BY DEF Init, GrantIsHeld, HasLock, NoRequestLost, UnlockingIsHeld,
           UnlocksAreReleased, IdleIsFresh, ClosedIsEmpty, RunIsKnown,
           NoUnlocks
  <1>. QED  BY <1>1, <1>2 DEF IInv

LEMMA NextInv ==
    ASSUME LeaseCoversHolder, ~RunMayTimeOut
    PROVE  IInv /\ [Next]_vars => IInv'
  <1> SUFFICES ASSUME IInv, [Next]_vars PROVE IInv'
    OBVIOUS
  <1>0. TypeOK /\ TypeOK'
    BY NextType DEF IInv
  <1> DEFINE Safe == /\ GrantIsHeld
                     /\ NoRequestLost
                     /\ UnlockingIsHeld
                     /\ UnlocksAreReleased
                     /\ IdleIsFresh
        /\ ClosedIsEmpty
                     /\ RunIsKnown
  <1> SUFFICES Safe'
    BY <1>0 DEF IInv
  <1> USE <1>0, NoClientAssumption
      DEF TypeOK, IInv, GrantIsHeld, HasLock, Held, NoRequestLost, Requested,
          UnlockingIsHeld, UnlocksAreReleased, IdleIsFresh, ClosedIsEmpty,
          RunIsKnown, IsOpen, IsClosed, OpenStates, ClosedStates, RunStates
  <1>1. ASSUME NEW c \in Clients, Start(c) PROVE Safe'
    <2>1. /\ client' = [client EXCEPT ![c] = "locking"] /\ client[c] = "idle"
          /\ UNCHANGED <<attempts, acquired, execution,
                         run, mutex, queue, holder, unlocks>>
      BY <1>1 DEF Start, mutexVars
    <2>. QED  BY <2>1
  <1>2. ASSUME NEW c \in Clients, SendRequest(c) PROVE Safe'
    <2>1. /\ UNCHANGED acquired
          /\ client[c] = "locking"
          /\ \/ client' = [client EXCEPT ![c] = "waiting"]
             \/ UNCHANGED client
      BY <1>2 DEF SendRequest
    <2>2. \/ /\ mutex \in RunStates
             /\ queue' = Append(queue, c)
             /\ UNCHANGED <<run, mutex, holder, unlocks>>
          \/ /\ mutex = "closed"
             /\ mutex' = "looping"
             /\ queue' = <<c>>
             /\ unlocks' = NoUnlocks
      BY <1>2 DEF SendRequest, SignalWithStart
    <2>3. GrantIsHeld' /\ UnlockingIsHeld' /\ IdleIsFresh' /\ ClosedIsEmpty'
      BY <2>1, <2>2
    <2>4. UnlocksAreReleased'
      <3>1. unlocks' = unlocks \/ \A d \in Clients : unlocks'[d] = 0
        BY <2>2 DEF NoUnlocks
      <3>2. \A d \in Clients : client'[d] = client[d] \/ d = c
        BY <2>1
      <3>3. unlocks[c] \in Nat /\ ~(unlocks[c] > 0)
        BY <2>1
      <3>4. ASSUME NEW d \in Clients, unlocks'[d] > 0
            PROVE  client'[d] = "released" \/ IsClosed(d)'
        <4>1. unlocks[d] > 0 /\ d # c
          <5> HIDE DEF IInv, TypeOK
          <5>1. CASE unlocks' = unlocks
            BY <3>3, <3>4, <5>1
          <5>2. CASE \A e \in Clients : unlocks'[e] = 0
            BY <3>4, <5>2
          <5>. QED  BY <3>1, <5>1, <5>2
        <4>. QED  BY <3>2, <4>1
      <3>. QED  BY <3>4
    <2>5. RunIsKnown'
      BY <1>2 DEF SendRequest, SignalWithStart
    <2>6. NoRequestLost'
      <3> SUFFICES ASSUME NEW d \in Clients, client'[d] = "waiting"
                   PROVE  acquired'[d] > 0 \/ Requested(d)'
        OBVIOUS
      <3>1. CASE d = c
        <4>1. \E i \in 1..Len(queue') : queue'[i] = c
          <5>1. CASE queue' = <<c>>
            BY <5>1
          <5>2. CASE queue' = Append(queue, c)
            <6> HIDE DEF IInv, TypeOK
            <6>1. queue \in Seq(Clients)
              BY DEF TypeOK
            <6>. QED  BY <5>2, <6>1, AppendMembers
          <5>. QED  BY <2>2, <5>1, <5>2
        <4>. QED  BY <3>1, <4>1
      <3>2. CASE d # c
        <4>1. client[d] = "waiting" /\ mutex # "closed"
          BY <2>1, <3>2
        <4>2. CASE acquired[d] > 0
          BY <2>1, <4>2
        <4>3. CASE \E i \in 1..Len(queue) : queue[i] = d
          <5> HIDE DEF IInv, TypeOK
          <5>1. queue \in Seq(Clients) /\ queue' = Append(queue, c)
            BY <2>2, <4>1 DEF TypeOK
          <5>2. \E i \in 1..Len(queue') : queue'[i] = d
            BY <4>3, <5>1, AppendMembers
          <5>. QED  BY <5>2
        <4>4. CASE mutex = "granting" /\ holder = d
          BY <2>2, <4>4
        <4>. QED  BY <4>1, <4>2, <4>3, <4>4
      <3>. QED  BY <3>1, <3>2
    <2>. QED  BY <2>3, <2>4, <2>5, <2>6
  <1>3. ASSUME NEW c \in Clients, AttemptFails(c) PROVE Safe'
    BY <1>3 DEF AttemptFails, mutexVars
  <1>4. ASSUME NEW c \in Clients, LockFails(c) PROVE Safe'
    BY <1>4 DEF LockFails, mutexVars
  <1>5. ASSUME NEW c \in Clients, EnterCritical(c) PROVE Safe'
    BY <1>5 DEF EnterCritical, mutexVars
  <1>6. ASSUME NEW c \in Clients, ExitCritical(c) PROVE Safe'
    BY <1>6 DEF ExitCritical, mutexVars
  <1>7. ASSUME NEW c \in Clients, DeliverUnlock(c) PROVE Safe'
    BY <1>7 DEF DeliverUnlock
  <1>8. ASSUME NEW c \in Clients, Complete(c) PROVE Safe'
    BY <1>8 DEF Complete, mutexVars
  <1>9. ASSUME NEW c \in Clients, ClientTimesOut(c) PROVE Safe'
    BY <1>9 DEF ClientTimesOut, mutexVars
  <1>10. ASSUME ReceiveRequest PROVE Safe'
    <2>1. NoRequestLost'
      <3> SUFFICES ASSUME NEW d \in Clients, client'[d] = "waiting"
                   PROVE  acquired'[d] > 0 \/ Requested(d)'
        OBVIOUS
      <3>1. acquired[d] > 0 \/ \E i \in 1..Len(queue) : queue[i] = d
        BY <1>10 DEF ReceiveRequest, clientVars
      <3>2. (\E i \in 1..Len(queue) : queue[i] = d)
              => d = holder' \/ \E i \in 1..Len(queue') : queue'[i] = d
        <4> HIDE DEF IInv, TypeOK
        <4>1. /\ queue \in Seq(Clients) /\ queue # <<>>
              /\ queue' = Tail(queue) /\ holder' = Head(queue)
          BY <1>10 DEF TypeOK, ReceiveRequest
        <4>. QED  BY <4>1, TailMembers
      <3>. QED  BY <1>10, <3>1, <3>2 DEF ReceiveRequest, clientVars
    <2>. QED  BY <1>10, <2>1 DEF ReceiveRequest, clientVars
  <1>11. ASSUME DeliverGrant PROVE Safe'
    BY <1>11 DEF DeliverGrant, clientVars
  <1>12. ASSUME GrantFails PROVE Safe'
    BY <1>12 DEF GrantFails, clientVars
  <1>13. ASSUME AwaitRelease PROVE Safe'
    BY <1>13 DEF AwaitRelease, clientVars
  <1>14. ASSUME ReceiveRelease PROVE Safe'
    BY <1>14 DEF ReceiveRelease, clientVars
  <1>15. ASSUME UnlockTimeout PROVE Safe'
    BY <1>15 DEF UnlockTimeout, clientVars
  <1>16. ASSUME Finish PROVE Safe'
    BY <1>16 DEF Finish, clientVars, NoUnlocks
  <1>17. ASSUME RunTimesOut PROVE Safe'
    BY <1>17 DEF RunTimesOut, clientVars, NoUnlocks
  <1>18. CASE UNCHANGED vars
    BY <1>18 DEF vars
  <1>. QED
    BY <1>1, <1>2, <1>3, <1>4, <1>5, <1>6, <1>7, <1>8, <1>9, <1>10, <1>11,
       <1>12, <1>13, <1>14, <1>15, <1>16, <1>17, <1>18
    DEF Next, ClientStep, MutexStep, Terminated

\* IInv is an invariant of the sample as it is configured.
THEOREM Invariance ==
    ASSUME LeaseCoversHolder, ~RunMayTimeOut
    PROVE  Spec => []IInv
  <1>1. Init => IInv
    BY InitInv
  <1>2. IInv /\ [Next]_vars => IInv'
    BY NextInv
  <1>. QED  BY <1>1, <1>2, PTL DEF Spec

LEMMA ExclusionFromInv == IInv => MutualExclusion
  <1> SUFFICES ASSUME IInv, NEW c \in Clients, NEW d \in Clients,
                      client[c] = "critical", client[d] = "critical"
               PROVE  c = d
    BY DEF MutualExclusion
  <1>1. holder = c /\ holder = d
    BY DEF IInv, GrantIsHeld, HasLock, Held
  <1>. QED  BY <1>1

\* Two clients never run their critical sections together.
THEOREM MutualExclusionHolds ==
    ASSUME LeaseCoversHolder, ~RunMayTimeOut
    PROVE  Spec => []MutualExclusion
  BY Invariance, ExclusionFromInv, PTL

\* A client blocked in Lock is in the queue, being served, or has its answer.
THEOREM NoRequestLostHolds ==
    ASSUME LeaseCoversHolder, ~RunMayTimeOut
    PROVE  Spec => []NoRequestLost
  <1>1. IInv => NoRequestLost
    BY DEF IInv
  <1>. QED  BY <1>1, Invariance, PTL

\* A release is addressed to the run that waits for it.
THEOREM ReleaseReachesGranterHolds ==
    ASSUME LeaseCoversHolder, ~RunMayTimeOut
    PROVE  Spec => []ReleaseReachesGranter
  <1>1. IInv => ReleaseReachesGranter
    BY DEF IInv, UnlockingIsHeld, RunIsKnown, ReleaseReachesGranter
  <1>. QED  BY <1>1, Invariance, PTL

-----------------------------------------------------------------------------
(* Exclusion within a run, when mutex runs may time out.                    *)

\* A client that sent one request, whose answer told it the run.
Single(c) == attempts[c] = 1 /\ client[c] \in {"waiting", "critical"}

InHands(c) == holder = c \/ \E i \in 1..Len(queue) : queue[i] = c

UnaskedIsFree == \A c \in Clients : attempts[c] = 0 => acquired[c] = 0 /\ ~InHands(c)

RunsCameBefore == \A c \in Clients : execution[c] <= run

RequestIsOfRun == \A c \in Clients : Single(c) /\ InHands(c) => execution[c] = run

\* The open run accounts for the locks it handed out; nothing adds to those
\* that a closed run handed out.
LockIsHeld ==
    \A c \in Clients :
        Single(c) /\ HasLock(c) /\ execution[c] = run /\ mutex \in RunStates => Held(c)

OneLockOfRun ==
    \A c, d \in Clients :
        /\ Single(c) /\ HasLock(c)
        /\ Single(d) /\ HasLock(d)
        /\ execution[c] = execution[d]
        => c = d

RunIInv ==
    /\ TypeOK
    /\ UnlocksAreReleased
    /\ UnaskedIsFree
    /\ RunsCameBefore
    /\ RequestIsOfRun
    /\ LockIsHeld
    /\ OneLockOfRun

LEMMA AppendAdds ==
    ASSUME NEW q \in Seq(Clients), NEW c \in Clients, NEW d,
           NEW i \in 1..Len(Append(q, c)), Append(q, c)[i] = d
    PROVE  d = c \/ \E j \in 1..Len(q) : q[j] = d
  <1>1. Len(Append(q, c)) = Len(q) + 1 /\ Len(q) \in Nat
    OBVIOUS
  <1>2. CASE i = Len(q) + 1
    BY <1>2
  <1>3. CASE i \in 1..Len(q)
    BY <1>3
  <1>. QED  BY <1>1, <1>2, <1>3

LEMMA TailTakes ==
    ASSUME NEW q \in Seq(Clients), q # <<>>
    PROVE  /\ \E j \in 1..Len(q) : q[j] = Head(q)
           /\ \A d : (\E i \in 1..Len(Tail(q)) : Tail(q)[i] = d)
                        => \E j \in 1..Len(q) : q[j] = d
  <1>1. Head(q) = q[1] /\ 1 \in 1..Len(q)
    OBVIOUS
  <1>2. Len(q) \in Nat /\ Len(q) > 0 /\ Len(Tail(q)) = Len(q) - 1
    OBVIOUS
  <1>3. \A i \in 1..Len(Tail(q)) : Tail(q)[i] = q[i + 1] /\ i + 1 \in 1..Len(q)
    BY <1>2
  <1>. QED  BY <1>1, <1>3

\* Nothing is asked for and no lock is handed out.
LEMMA RunKept ==
    ASSUME RunIInv, TypeOK', UnlocksAreReleased',
           UNCHANGED <<attempts, execution, run>>,
           \A c \in Clients :
              /\ InHands(c)' => InHands(c)
              /\ Single(c)' => Single(c)
              /\ Single(c)' /\ HasLock(c)' => HasLock(c) /\ (Held(c) => Held(c)')
              /\ attempts[c] = 0 /\ acquired[c] = 0 => acquired'[c] = 0,
           mutex' \in RunStates => mutex \in RunStates \/ \A c \in Clients : execution[c] # run
    PROVE  RunIInv'
  <1>1. UnaskedIsFree' /\ RunsCameBefore' /\ RequestIsOfRun'
    BY DEF RunIInv, UnaskedIsFree, RunsCameBefore, RequestIsOfRun
  <1>2. LockIsHeld' /\ OneLockOfRun'
    BY DEF RunIInv, LockIsHeld, OneLockOfRun
  <1>. QED  BY <1>1, <1>2 DEF RunIInv

\* A client that sends its request, for the first time or again.
LEMMA SendKeepsRuns ==
    ASSUME RunIInv, TypeOK', NEW c \in Clients, SendRequest(c)
    PROVE  RunIInv'
  <1>1. /\ TypeOK /\ client[c] = "locking" /\ attempts[c] \in Nat /\ run \in Nat
        /\ queue \in Seq(Clients) /\ acquired' = acquired
        /\ attempts' = [attempts EXCEPT ![c] = @ + 1]
        /\ \/ /\ client' = [client EXCEPT ![c] = "waiting"]
              /\ execution' = [execution EXCEPT ![c] = run']
           \/ UNCHANGED <<client, execution>>
    BY ConstantsAssumption DEF SendRequest, RunIInv, TypeOK
  <1>2. \/ /\ mutex \in RunStates
           /\ queue' = Append(queue, c)
           /\ UNCHANGED <<run, mutex, holder, unlocks>>
        \/ /\ mutex = "closed"
           /\ run' = run + 1 /\ mutex' = "looping" /\ queue' = <<c>>
           /\ holder' = NoClient /\ unlocks' = NoUnlocks
    BY <1>1 DEF SendRequest, SignalWithStart, TypeOK
  <1>3. \A d \in Clients \ {c} :
            /\ attempts'[d] = attempts[d] /\ client'[d] = client[d]
            /\ execution'[d] = execution[d]
    BY <1>1 DEF TypeOK
  <1>4. attempts'[c] = attempts[c] + 1
    BY <1>1 DEF TypeOK
  <1>5. ASSUME NEW d \in Clients \ {c}, InHands(d)'
        PROVE  InHands(d) /\ mutex \in RunStates /\ run' = run
    <2>1. CASE /\ mutex \in RunStates /\ queue' = Append(queue, c)
               /\ holder' = holder /\ run' = run
      BY <1>1, <1>5, <2>1, AppendAdds DEF InHands
    <2>2. CASE queue' = <<c>> /\ holder' = NoClient
      <3>1. Len(queue') = 1 /\ queue'[1] = c
        BY <2>2
      <3>2. d # c /\ d # NoClient
        BY NoClientAssumption
      <3>. QED  BY <1>5, <2>2, <3>1, <3>2 DEF InHands
    <2>. QED  BY <1>2, <2>1, <2>2
  \* The sender has one request only if this is its first, so no lock.
  <1>6. Single(c)' => ~HasLock(c)' /\ execution'[c] = run'
    <2>1. Single(c)' => attempts[c] = 0 /\ client'[c] = "waiting"
      BY <1>1, <1>4 DEF Single, TypeOK
    <2>2. attempts[c] = 0 => acquired[c] = 0
      BY DEF RunIInv, UnaskedIsFree
    <2>. QED  BY <1>1, <2>1, <2>2 DEF HasLock, TypeOK, Single
  <1>7. \A d \in Clients \ {c} : (Single(d)' <=> Single(d)) /\ (HasLock(d)' <=> HasLock(d))
    BY <1>1, <1>3 DEF Single, HasLock
  <1>8. UnlocksAreReleased'
    <2>1. ASSUME NEW d \in Clients, unlocks'[d] > 0
          PROVE  client'[d] = "released" \/ IsClosed(d)'
      <3>1. unlocks[d] > 0
        BY <1>2, <2>1 DEF NoUnlocks
      <3>2. client[d] = "released" \/ IsClosed(d)
        BY <3>1 DEF RunIInv, UnlocksAreReleased
      <3>3. d # c
        BY <1>1, <3>2 DEF IsClosed, ClosedStates
      <3>. QED  BY <1>3, <3>2, <3>3 DEF IsClosed
    <2>. QED  BY <2>1 DEF UnlocksAreReleased
  <1>9. UnaskedIsFree'
    <2>1. attempts'[c] # 0
      BY <1>1, <1>4
    <2>. QED  BY <1>1, <1>3, <1>5, <2>1 DEF RunIInv, UnaskedIsFree
  <1>10. RunsCameBefore'
    <2>1. run <= run' /\ run' \in Nat
      BY <1>1, <1>2
    <2>2. execution'[c] \in {execution[c], run'}
      BY <1>1 DEF TypeOK
    <2>3. \A d \in Clients : execution[d] \in Nat /\ execution[d] <= run
      BY <1>1 DEF TypeOK, RunIInv, RunsCameBefore
    <2>. QED  BY <1>1, <1>3, <2>1, <2>2, <2>3 DEF RunsCameBefore
  <1>11. RequestIsOfRun'
    BY <1>3, <1>5, <1>6, <1>7 DEF RunIInv, RequestIsOfRun
  <1>12. LockIsHeld'
    <2>1. ASSUME NEW d \in Clients \ {c}, Single(d)', HasLock(d)', execution'[d] = run'
          PROVE  Held(d)'
      <3>1. execution[d] = run'
        BY <1>3, <2>1
      <3>2. execution[d] \in Nat /\ execution[d] <= run
        BY <1>1 DEF TypeOK, RunIInv, RunsCameBefore
      <3>3. run' = run /\ mutex \in RunStates /\ UNCHANGED <<mutex, holder>>
        BY <1>1, <1>2, <3>1, <3>2
      <3>4. Held(d)
        BY <1>7, <2>1, <3>1, <3>3 DEF RunIInv, LockIsHeld
      <3>. QED  BY <3>3, <3>4 DEF Held
    <2>. QED  BY <1>6, <2>1 DEF LockIsHeld
  <1>13. OneLockOfRun'
    BY <1>3, <1>6, <1>7 DEF RunIInv, OneLockOfRun
  <1>. QED  BY <1>8, <1>9, <1>10, <1>11, <1>12, <1>13 DEF RunIInv

\* The client that is granted the lock asked this run.
LEMMA GrantKeepsRuns ==
    ASSUME RunIInv, TypeOK', DeliverGrant
    PROVE  RunIInv'
  <1>1. /\ TypeOK /\ mutex = "granting" /\ mutex' = "granted" /\ holder \in Clients
        /\ acquired' = [acquired EXCEPT ![holder] = @ + 1]
        /\ UNCHANGED <<client, attempts, execution, run, queue, holder, unlocks>>
    BY DEF DeliverGrant, clientVars, RunIInv, TypeOK
  <1>2. InHands(holder)
    BY DEF InHands
  <1>3. attempts[holder] # 0 /\ (Single(holder) => execution[holder] = run)
    BY <1>1, <1>2 DEF RunIInv, UnaskedIsFree, RequestIsOfRun
  <1>4. \A c \in Clients : c # holder => acquired'[c] = acquired[c]
    BY <1>1 DEF TypeOK
  <1>5. \A c \in Clients : (Single(c)' <=> Single(c)) /\ (InHands(c)' <=> InHands(c))
    BY <1>1 DEF Single, InHands
  <1>6. \A c \in Clients : c # holder => (HasLock(c)' <=> HasLock(c))
    BY <1>1, <1>4 DEF HasLock
  <1>7. \A c \in Clients : ~Held(c)
    BY <1>1 DEF Held
  <1>8. \A c \in Clients : Single(c) /\ HasLock(c) => execution[c] # run
    BY <1>1, <1>7 DEF RunIInv, LockIsHeld, RunStates
  <1>9. UnlocksAreReleased' /\ UnaskedIsFree' /\ RunsCameBefore' /\ RequestIsOfRun'
    BY <1>1, <1>3, <1>4, <1>5
       DEF RunIInv, UnlocksAreReleased, IsClosed, UnaskedIsFree, RunsCameBefore, RequestIsOfRun
  <1>10. LockIsHeld'
    BY <1>1, <1>5, <1>6, <1>8 DEF LockIsHeld, Held
  <1>11. OneLockOfRun'
    BY <1>1, <1>3, <1>5, <1>6, <1>8 DEF RunIInv, OneLockOfRun
  <1>. QED  BY <1>9, <1>10, <1>11 DEF RunIInv

LEMMA InitRunInv == Init => RunIInv
  <1> SUFFICES ASSUME Init PROVE RunIInv
    OBVIOUS
  <1>1. TypeOK
    BY InitType
  <1>2. \A c \in Clients : ~Single(c) /\ ~InHands(c)
    <2>1. \A c \in Clients : client[c] = "idle" /\ c # holder
      BY NoClientAssumption DEF Init
    <2>2. 1..Len(queue) = {}
      BY DEF Init
    <2>3. \A c \in Clients : client[c] \notin {"waiting", "critical"}
      BY <2>1
    <2>4. \A c \in Clients : ~InHands(c)
      BY <2>1, <2>2 DEF InHands
    <2>5. \A c \in Clients : ~Single(c)
      BY <2>1 DEF Single
    <2>. QED  BY <2>4, <2>5
  <1>. QED
    BY <1>1, <1>2 DEF Init, RunIInv, UnlocksAreReleased, UnaskedIsFree, RunsCameBefore,
       RequestIsOfRun, LockIsHeld, OneLockOfRun, NoUnlocks

LEMMA NextRunInv ==
    ASSUME LeaseCoversHolder
    PROVE  RunIInv /\ [Next]_vars => RunIInv'
  <1> SUFFICES ASSUME RunIInv, [Next]_vars PROVE RunIInv'
    OBVIOUS
  <1>0. TypeOK /\ TypeOK' /\ UnlocksAreReleased
    BY NextType DEF RunIInv
  \* A step of a client between its requests.
  <1>1. ASSUME NEW c \in Clients,
               \/ Start(c) \/ LockFails(c) \/ EnterCritical(c)
               \/ ExitCritical(c) \/ Complete(c) \/ ClientTimesOut(c)
        PROVE  RunIInv'
    <2>1. /\ UNCHANGED <<attempts, execution, run, mutex, queue, holder, unlocks>>
          /\ \A d \in Clients \ {c} : client'[d] = client[d] /\ acquired'[d] = acquired[d]
          /\ client[c] # "released" \/ client'[c] \in ClosedStates
          /\ ~IsClosed(c)
      BY <1>0, <1>1 DEF Start, LockFails, EnterCritical, ExitCritical, Complete, ClientTimesOut,
         mutexVars, TypeOK, IsClosed, IsOpen, ClosedStates, OpenStates
    <2>2. /\ Single(c)' => Single(c) /\ (HasLock(c)' => HasLock(c))
          /\ acquired[c] = 0 => acquired'[c] = 0
      BY <1>0, <1>1 DEF Start, LockFails, EnterCritical, ExitCritical, Complete, ClientTimesOut,
         TypeOK, IsOpen, ClosedStates, OpenStates, Single, HasLock
    <2>3. UnlocksAreReleased'
      BY <1>0, <2>1 DEF UnlocksAreReleased, IsClosed
    <2>4. \A d \in Clients :
              /\ InHands(d)' <=> InHands(d)
              /\ Held(d)' <=> Held(d)
              /\ Single(d)' => Single(d) /\ (HasLock(d)' => HasLock(d))
              /\ acquired[d] = 0 => acquired'[d] = 0
      BY <2>1, <2>2 DEF InHands, Held, Single, HasLock
    <2>. QED  BY <1>0, <2>1, <2>3, <2>4, RunKept
  <1>2. ASSUME NEW c \in Clients, SendRequest(c) PROVE RunIInv'
    BY <1>0, <1>2, SendKeepsRuns
  <1>3. ASSUME NEW c \in Clients, AttemptFails(c) PROVE RunIInv'
    <2>1. /\ client[c] = "locking" /\ attempts'[c] # 0
          /\ \A d \in Clients \ {c} : attempts'[d] = attempts[d]
          /\ UNCHANGED <<client, acquired, execution, run, mutex, queue, holder, unlocks>>
      BY <1>0, <1>3, ConstantsAssumption DEF AttemptFails, mutexVars, TypeOK
    <2>2. \A d \in Clients : /\ InHands(d)' <=> InHands(d)
                             /\ Held(d)' <=> Held(d)
                             /\ Single(d)' <=> Single(d)
                             /\ HasLock(d)' <=> HasLock(d)
      BY <2>1 DEF InHands, Held, Single, HasLock
    <2>. QED
      BY <1>0, <2>1, <2>2 DEF RunIInv, UnlocksAreReleased, IsClosed, UnaskedIsFree,
         RunsCameBefore, RequestIsOfRun, LockIsHeld, OneLockOfRun
  <1>4. ASSUME NEW c \in Clients, DeliverUnlock(c) PROVE RunIInv'
    <2>1. /\ client' = [client EXCEPT ![c] = "released"] /\ client[c] = "unlocking"
          /\ UNCHANGED <<attempts, acquired, execution, run, mutex, queue, holder>>
          /\ \A d \in Clients \ {c} : unlocks'[d] = unlocks[d]
      BY <1>0, <1>4 DEF DeliverUnlock, TypeOK
    <2>2. /\ client'[c] = "released"
          /\ \A d \in Clients \ {c} : client'[d] = client[d]
      BY <1>0, <2>1 DEF TypeOK
    <2>3. UnlocksAreReleased'
      BY <1>0, <2>1, <2>2 DEF UnlocksAreReleased, IsClosed
    <2>4. \A d \in Clients :
              /\ InHands(d)' <=> InHands(d)
              /\ Held(d)' <=> Held(d)
              /\ Single(d)' => Single(d)
              /\ HasLock(d)' => HasLock(d)
      BY <2>1, <2>2 DEF InHands, Held, Single, HasLock
    <2>. QED  BY <1>0, <2>1, <2>3, <2>4, RunKept
  \* A step of the mutex run that hands out no lock.
  <1>5. ASSUME UNCHANGED <<client, attempts, acquired, execution, run>>,
               \A c \in Clients : unlocks'[c] <= unlocks[c],
               \A c \in Clients : InHands(c)' => InHands(c),
               mutex' \in RunStates => mutex \in RunStates,
               \A c \in Clients : Single(c) /\ HasLock(c) /\ Held(c) => Held(c)'
        PROVE  RunIInv'
    <2>1. \A c \in Clients : (Single(c)' <=> Single(c)) /\ (HasLock(c)' <=> HasLock(c))
      BY <1>5 DEF Single, HasLock
    <2>2. UnlocksAreReleased'
      <3>1. \A c \in Clients : unlocks[c] \in Nat /\ unlocks'[c] \in Nat
        BY <1>0 DEF TypeOK
      <3>2. \A c \in Clients : unlocks'[c] > 0 => unlocks[c] > 0
        BY <1>5, <3>1
      <3>. QED  BY <1>0, <1>5, <3>2 DEF UnlocksAreReleased, IsClosed
    <2>. QED  BY <1>0, <1>5, <2>1, <2>2, RunKept
  <1>6. UNCHANGED unlocks => \A c \in Clients : unlocks'[c] <= unlocks[c]
    BY <1>0 DEF TypeOK
  <1>7. unlocks' = NoUnlocks => \A c \in Clients : unlocks'[c] <= unlocks[c]
    BY <1>0 DEF TypeOK, NoUnlocks
  <1>8. CASE ReceiveRequest
    <2>1. /\ queue \in Seq(Clients) /\ queue # <<>> /\ holder' = Head(queue)
          /\ queue' = Tail(queue) /\ mutex = "looping" /\ mutex' = "granting"
          /\ UNCHANGED <<client, attempts, acquired, execution, run, unlocks>>
      BY <1>0, <1>8 DEF ReceiveRequest, clientVars, TypeOK
    <2>2. \A c \in Clients : InHands(c)' => InHands(c)
      BY <2>1, TailTakes DEF InHands
    <2>3. \A c \in Clients : ~Held(c)
      BY <2>1 DEF Held
    <2>. QED  BY <1>5, <1>6, <2>1, <2>2, <2>3 DEF RunStates
  <1>9. CASE DeliverGrant
    BY <1>0, <1>9, GrantKeepsRuns
  <1>10. CASE GrantFails
    <2>1. \A c \in Clients : InHands(c)' => InHands(c)
      BY <1>10, NoClientAssumption DEF GrantFails, InHands
    <2>2. \A c \in Clients : ~Held(c)
      BY <1>10 DEF GrantFails, Held
    <2>. QED  BY <1>5, <1>6, <1>10, <2>1, <2>2 DEF GrantFails, clientVars, RunStates
  <1>11. CASE AwaitRelease
    <2>1. \A c \in Clients : (InHands(c)' => InHands(c)) /\ (Held(c) => Held(c)')
      BY <1>11 DEF AwaitRelease, InHands, Held
    <2>. QED  BY <1>5, <1>6, <1>11, <2>1 DEF AwaitRelease, clientVars, RunStates
  \* The run lets go of the holder, which has left its critical section.
  <1>12. ASSUME client[holder] = "released" \/ IsClosed(holder), mutex = "awaiting",
                mutex' = "looping", holder' = NoClient,
                \A c \in Clients : unlocks'[c] <= unlocks[c],
                UNCHANGED <<client, attempts, acquired, execution, run, queue>>
         PROVE  RunIInv'
    <2>1. \A c \in Clients : InHands(c)' => InHands(c)
      BY <1>12, NoClientAssumption DEF InHands
    <2>2. \A c \in Clients : Single(c) /\ Held(c) => FALSE
      BY <1>12 DEF Single, Held, IsClosed, ClosedStates
    <2>. QED  BY <1>5, <1>12, <2>1, <2>2 DEF RunStates
  <1>13. CASE ReceiveRelease
    <2>1. holder \in Clients /\ unlocks[holder] > 0
      BY <1>0, <1>13 DEF ReceiveRelease, TypeOK
    <2>2. client[holder] = "released" \/ IsClosed(holder)
      BY <1>0, <2>1 DEF UnlocksAreReleased
    <2>3. \A c \in Clients : unlocks'[c] <= unlocks[c]
      BY <1>0, <1>13 DEF ReceiveRelease, TypeOK
    <2>. QED  BY <1>12, <1>13, <2>2, <2>3 DEF ReceiveRelease, clientVars
  <1>14. CASE UnlockTimeout
    BY <1>6, <1>12, <1>14 DEF UnlockTimeout, clientVars
  <1>15. CASE Finish
    <2>1. \A c \in Clients : (InHands(c)' => InHands(c)) /\ ~Held(c)
      BY <1>15 DEF Finish, InHands, Held
    <2>. QED  BY <1>5, <1>7, <1>15, <2>1 DEF Finish, clientVars, RunStates
  <1>16. CASE RunTimesOut
    <2>1. /\ mutex' = "closed" /\ queue' = <<>> /\ holder' = NoClient /\ unlocks' = NoUnlocks
          /\ UNCHANGED <<client, attempts, acquired, execution, run>>
      BY <1>16 DEF RunTimesOut, clientVars
    <2>2. \A c \in Clients : ~InHands(c)'
      BY <2>1, NoClientAssumption DEF InHands
    <2>3. \A c \in Clients : (Single(c)' <=> Single(c)) /\ (HasLock(c)' <=> HasLock(c))
      BY <2>1 DEF Single, HasLock
    <2>4. UnlocksAreReleased'
      BY <2>1 DEF UnlocksAreReleased, NoUnlocks
    <2>. QED
      BY <1>0, <2>1, <2>2, <2>3, <2>4 DEF RunIInv, UnaskedIsFree, RunsCameBefore,
         RequestIsOfRun, LockIsHeld, OneLockOfRun, RunStates
  <1>17. CASE UNCHANGED vars
    <2>1. \A c \in Clients : (InHands(c)' => InHands(c)) /\ (Held(c) => Held(c)')
      BY <1>17 DEF vars, InHands, Held
    <2>. QED  BY <1>5, <1>6, <1>17, <2>1 DEF vars
  <1>. QED
    BY <1>1, <1>2, <1>3, <1>4, <1>8, <1>9, <1>10, <1>11, <1>13, <1>14, <1>15, <1>16, <1>17
    DEF Next, ClientStep, MutexStep, Terminated

\* Whatever mutex runs time out, and whoever repeats its requests meanwhile:
\* clients that sent one request, to the same run, exclude each other.
THEOREM ExclusionWithinRunHolds ==
    ASSUME LeaseCoversHolder
    PROVE  Spec => []ExclusionWithinRun
  <1>1. RunIInv => ExclusionWithinRun
    BY DEF RunIInv, OneLockOfRun, ExclusionWithinRun, Single, HasLock
  <1>2. RunIInv /\ [Next]_vars => RunIInv'
    BY NextRunInv
  <1>. QED  BY <1>1, <1>2, InitRunInv, PTL DEF Spec

-----------------------------------------------------------------------------
(* Refinement: the workflows implement Lock.                               *)

LEMMA InitRefines == Init => L!Init
  BY DEF Init, L!Init, LockStatus

LEMMA StepRefines ==
    IInv /\ IInv' /\ [Next]_vars => [L!Next]_LockStatus
  <1> SUFFICES ASSUME IInv, IInv', [Next]_vars
               PROVE  L!Next \/ UNCHANGED LockStatus
    OBVIOUS
  <1>0. client \in [Clients -> {"idle"} \union OpenStates \union ClosedStates]
    BY DEF IInv, TypeOK
  <1> USE <1>0 DEF LockStatus, OpenStates, ClosedStates, IsOpen
  <1>1. ASSUME NEW c \in Clients, EnterCritical(c) PROVE L!Acquire(c)
    <2>1. \A d \in Clients : client[d] # "critical"
      <3>1. client[c] # "critical" /\ client'[c] = "critical"
        BY <1>1 DEF EnterCritical
      <3>2. ASSUME NEW d \in Clients, client[d] = "critical" PROVE FALSE
        <4>1. d # c /\ client'[d] = "critical"
          BY <1>1, <3>1, <3>2 DEF EnterCritical
        <4>2. holder' = c /\ holder' = d
          BY <3>1, <4>1 DEF IInv, GrantIsHeld, HasLock, Held
        <4>. QED  BY <4>1, <4>2
      <3>. QED  BY <3>2
    <2>. QED  BY <1>1, <2>1 DEF EnterCritical, L!Acquire
  <1>2. ASSUME NEW c \in Clients, ExitCritical(c) PROVE L!Release(c)
    BY <1>2 DEF ExitCritical, L!Release
  <1>3. ASSUME NEW c \in Clients, LockFails(c) PROVE L!GiveUp(c)
    BY <1>3 DEF LockFails, L!GiveUp
  <1>4. ASSUME NEW c \in Clients, ClientTimesOut(c)
        PROVE  L!GiveUp(c) \/ L!Release(c) \/ UNCHANGED LockStatus
    BY <1>4 DEF ClientTimesOut, L!GiveUp, L!Release
  <1>5. ASSUME NEW c \in Clients,
               Start(c) \/ SendRequest(c) \/ DeliverUnlock(c) \/ Complete(c)
        PROVE  UNCHANGED LockStatus
    BY <1>5 DEF Start, SendRequest, DeliverUnlock, Complete
  <1>6. ASSUME UNCHANGED client PROVE UNCHANGED LockStatus
    BY <1>6
  <1>7. ASSUME NEW c \in Clients, AttemptFails(c) PROVE UNCHANGED client
    BY <1>7 DEF AttemptFails
  <1>8. ASSUME MutexStep \/ RunTimesOut \/ Terminated \/ UNCHANGED vars
        PROVE  UNCHANGED client
    BY <1>8 DEF MutexStep, RunTimesOut, Terminated, vars, clientVars,
                ReceiveRequest, DeliverGrant, GrantFails, AwaitRelease,
                ReceiveRelease, UnlockTimeout, Finish
  <1> HIDE <1>0 DEF LockStatus
  <1>. QED
    BY <1>1, <1>2, <1>3, <1>4, <1>5, <1>6, <1>7, <1>8
    DEF Next, ClientStep, L!Next

\* Seen through LockStatus, every behaviour of the workflows is a behaviour of
\* the abstract lock.
THEOREM Refinement ==
    ASSUME LeaseCoversHolder, ~RunMayTimeOut
    PROVE  Spec => ImplementsLock
  BY Invariance, InitRefines, StepRefines, PTL
  DEF Spec, ImplementsLock, L!Spec
=============================================================================
