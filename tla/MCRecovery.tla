----------------------------- MODULE MCRecovery -----------------------------
(***************************************************************************)
(* Instance of Recovery for TLC: the recovery of one trip that goes on     *)
(* receiving signals, and the recovery of all trips in several batches     *)
(* while no signal arrives.                                                *)
(***************************************************************************)
EXTENDS Recovery

CONSTANT Signaled   \* the trip that is sent signals

ASSUME SignaledAssumption == Signaled \in Trips

\* Signals change nothing between two trips, so they are bounded to lists of
\* one; of the abandoned attempts, one is under way at a time.
Bounded ==
    /\ \A t \in Trips \ {Signaled} : sent[t] = 0
    /\ sent[Signaled] > 0 => Count <= 1
    /\ Count = 1 => listed[1] = Signaled
    /\ Count \in {0, 1, Cardinality(Trips)}
    /\ \A b, c \in BatchIds :
          Working(b, "stale") /\ Working(c, "stale") => b = c

MCNext == Next /\ Bounded'

MCSpec == Init /\ [][MCNext]_vars /\ Fairness
=============================================================================
