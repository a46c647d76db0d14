------------------------------- MODULE Tally -------------------------------
(***************************************************************************)
(* What the signal counting workflow promises through all of its runs: a   *)
(* total that grows by everything that was accepted since it last grew,    *)
(* each signal once and none left behind.  It knows no runs, channels,     *)
(* decisions or workers.                                                   *)
(***************************************************************************)
EXTENDS Naturals

CONSTANT Signals

VARIABLES
    accepted,   \* the signals that the total does not have yet
    total       \* how often it has each signal

tallyVars == <<accepted, total>>

Init == accepted = {} /\ total = [s \in Signals |-> 0]

Accept(s) ==
    /\ s \notin accepted
    /\ total[s] = 0
    /\ accepted' = accepted \union {s}
    /\ UNCHANGED total

Carry ==
    /\ accepted' = {}
    /\ total' = [s \in Signals |-> IF s \in accepted THEN total[s] + 1 ELSE total[s]]

Next == (\E s \in Signals : Accept(s)) \/ Carry

Spec == Init /\ [][Next]_tallyVars
=============================================================================
