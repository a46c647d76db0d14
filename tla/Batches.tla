------------------------------ MODULE Batches ------------------------------
(***************************************************************************)
(* How recoverWorkflow of cmd/samples/recovery cuts the executions it has  *)
(* listed into batches, one per recoverExecutions activity.                *)
(***************************************************************************)
EXTENDS Integers

CONSTANT Concurrency    \* Params.Concurrency

ASSUME ConcurrencyAssumption == Concurrency \in Int

\* The number of activities; 0 when nothing was listed.
Workers(count) ==
    LET wanted == IF Concurrency > 0 THEN Concurrency ELSE 1
    IN  IF count < wanted THEN count ELSE wanted

BatchSize(count) ==
    LET n == Workers(count)
    IN  (count \div n) + (IF count % n # 0 THEN 1 ELSE 0)

StartIndex(count, b) == b * BatchSize(count)
EndIndex(count, b) == StartIndex(count, b) + BatchSize(count)

\* The indices that batch b recovers, counting batches and indices from 0.
BatchRange(count, b) ==
    {i \in 0..(count - 1) :
        StartIndex(count, b) <= i /\ i < EndIndex(count, b)}
=============================================================================
