--------------------------- MODULE SagaRefinement ---------------------------
(***************************************************************************)
(* The engine implements the sequential saga of SagaLifecycle.  The saga   *)
(* has turned round once the latest claim was of a COMPENSATING row.       *)
(***************************************************************************)
EXTENDS Saga

Turned == token > 0 /\ mode[token] = "COMPENSATING"

Lifecycle == INSTANCE SagaLifecycle WITH undone <- compensated, turned <- Turned

(* Whatever the workers do (crash, stall, lose leases, run as zombies),    *)
(* the row and its checkpoints change as if one executor ran the saga      *)
(* step by step and, once it has turned round, only undoes: no forward     *)
(* checkpoint, retry or SUCCESS after the first unwinding claim.           *)
ImplementsLifecycle == Lifecycle!Spec
=============================================================================
