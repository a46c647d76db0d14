-------------------------------- MODULE Lock --------------------------------
(***************************************************************************)
(* What the mutex of cmd/samples/recipes/mutex promises its clients: a     *)
(* lock that each client takes at most once, that one client holds at a    *)
(* time, and that a client may also give up waiting for.                   *)
(***************************************************************************)
CONSTANT Clients

VARIABLE status     \* "out" of the lock, "in" it or "done" with it

Init == status = [c \in Clients |-> "out"]

Acquire(c) ==
    /\ status[c] = "out"
    /\ \A d \in Clients : status[d] # "in"
    /\ status' = [status EXCEPT ![c] = "in"]

Release(c) ==
    /\ status[c] = "in"
    /\ status' = [status EXCEPT ![c] = "done"]

GiveUp(c) ==
    /\ status[c] = "out"
    /\ status' = [status EXCEPT ![c] = "done"]

Next == \E c \in Clients : Acquire(c) \/ Release(c) \/ GiveUp(c)

Spec == Init /\ [][Next]_status
=============================================================================
