---------------------------- MODULE SagaLifecycle ----------------------------
(***************************************************************************)
(* What the engine promises of one saga, as docs/architecture.md and       *)
(* docs/spec.md describe it: a single sequential executor.  It commits the *)
(* steps in order, then succeeds; or at some point it turns round, for     *)
(* good, and undoes the committed steps newest first.  Workers, leases,    *)
(* fencing tokens, crashes and zombies do not exist here; Saga is shown to *)
(* implement this.                                                         *)
(***************************************************************************)
EXTENDS Integers

CONSTANTS N, Compensable

VARIABLES status,     \* workflows.status
          forward,    \* steps with a FORWARD checkpoint
          undone,     \* steps with a COMPENSATION checkpoint
          turned      \* an unwind has been started

vars == <<status, forward, undone, turned>>

Steps == 1..N
Outstanding == (forward \cap Compensable) \ undone

Init == status = "PENDING" /\ forward = {} /\ undone = {} /\ turned = FALSE

Start ==
    /\ status = "PENDING" /\ status' = "RUNNING"
    /\ UNCHANGED <<forward, undone, turned>>

(* The next step in order.  A cancelled saga may still commit steps until  *)
(* its executor is replaced by one that unwinds.                           *)
Commit(s) ==
    /\ status \in {"RUNNING", "COMPENSATING"} /\ ~turned
    /\ s \in Steps \ forward /\ 1..(s - 1) \subseteq forward
    /\ forward' = forward \cup {s}
    /\ UNCHANGED <<status, undone, turned>>

(* A retry.  From COMPENSATING too: the retry of a failed step overwrites  *)
(* a cancel that arrived while the step ran.                               *)
Retry ==
    /\ status \in {"RUNNING", "COMPENSATING"} /\ ~turned
    /\ status' = "PENDING"
    /\ UNCHANGED <<forward, undone, turned>>

Succeed ==
    /\ status = "RUNNING" /\ forward = Steps
    /\ status' = "SUCCESS"
    /\ UNCHANGED <<forward, undone, turned>>

(* A failed step or a cancel.                                              *)
Compensate ==
    /\ status \in {"PENDING", "RUNNING"}
    /\ status' = "COMPENSATING"
    /\ UNCHANGED <<forward, undone, turned>>

Turn ==
    /\ status = "COMPENSATING" /\ ~turned
    /\ turned' = TRUE
    /\ UNCHANGED <<status, forward, undone>>

Undo(s) ==
    /\ status = "COMPENSATING" /\ turned
    /\ s \in Outstanding /\ \A r \in Outstanding : r <= s
    /\ undone' = undone \cup {s}
    /\ UNCHANGED <<status, forward, turned>>

Compensated ==
    /\ status = "COMPENSATING" /\ turned /\ Outstanding = {}
    /\ status' = "COMPENSATED"
    /\ UNCHANGED <<forward, undone, turned>>

(* An undo fails for good, or a step that was committed and not undone is  *)
(* unknown to the build that unwinds, read-only steps included.            *)
GiveUp ==
    /\ status = "COMPENSATING" /\ turned /\ forward \ undone # {}
    /\ status' = "FAILED_DIRTY"
    /\ UNCHANGED <<forward, undone, turned>>

Next ==
    \/ Start \/ Retry \/ Succeed \/ Compensate \/ Turn \/ Compensated \/ GiveUp
    \/ \E s \in Steps : Commit(s) \/ Undo(s)

Spec == Init /\ [][Next]_vars
=============================================================================
