-------------------------------- MODULE Saga --------------------------------
(***************************************************************************)
(* One workflow row, its step_outputs, and every execution of it.          *)
(*                                                                         *)
(* A worker claims the row (storage/queue.py), which gives it a lease and  *)
(* a fencing token; execute_workflow (engine/executor.py) then replays the *)
(* committed steps, runs the rest forward or unwinds them, and records     *)
(* each result with a guarded write (storage/workflows.py).  Executions    *)
(* are indexed by their fencing token.  One whose lease expired while it   *)
(* was stalled goes on running beside the execution that replaced it.      *)
(*                                                                         *)
(* Time is abstract: lease_expires_at is absent, in the future ("live") or *)
(* in the past ("expired"), and run_after is past ("due") or not yet.      *)
(* A step's external effect is the row it posts to ledger_entries, in a    *)
(* transaction of its own and at most once (workflows/transfer.py).        *)
(***************************************************************************)
EXTENDS Integers, FiniteSets

CONSTANTS
    N,               \* number of steps of the definition, seq 1..N
    Compensable,     \* the steps that declare a compensation
    Workers,
    Importers,       \* workers whose build imports the definition
    MaxAttempts,     \* workflows.max_attempts
    CompMaxAttempts, \* settings.compensation_max_attempts
    MaxClaims,       \* bound: claims of the row, hence fencing tokens
    MaxDisruptions,  \* bound: crashes, stolen leases, claims by ignorant workers
    None             \* SQL NULL

Steps == 1..N
Tokens == 1..MaxClaims

ASSUME StepsAssumption == N \in Nat \ {0} /\ Compensable \subseteq Steps
ASSUME WorkersAssumption == Importers \subseteq Workers /\ None \notin Workers
ASSUME LimitsAssumption ==
    /\ MaxAttempts \in Nat \ {0}
    /\ CompMaxAttempts \in Nat \ {0}
    /\ MaxClaims \in Nat \ {0}
    /\ MaxDisruptions \in Nat

VARIABLES
    \* the workflows row
    status, owner, token, lease, runAfter,
    \* step_outputs by kind, ledger_entries by kind, outbox rows per checkpoint
    forward, compensated, posted, reversed, outbox,
    \* executions by fencing token: where it is, who runs it, claimed.status,
    \* the steps it still has to run, and its other in-memory state
    pc, by, mode, todo, ctx,
    \* how much of the disruption budget is spent
    disruptions

row   == <<status, owner, token, lease, runAfter>>
store == <<forward, compensated, posted, reversed, outbox>>
run   == <<pc, by, mode, todo, ctx>>
vars  == <<row, store, run, disruptions>>

Statuses == {"PENDING", "RUNNING", "SUCCESS", "COMPENSATING", "COMPENSATED",
             "FAILED_DIRTY"}
Terminal == {"SUCCESS", "COMPENSATED", "FAILED_DIRTY"}
Unwound  == {"COMPENSATING", "COMPENSATED", "FAILED_DIRTY"}
Kinds    == {"FORWARD", "COMPENSATION"}

(* attempt starts at 0 like fencing_token, and the claim increments both;  *)
(* nothing else writes either, so claimed.attempt of execution t is t.     *)
attempt == token

(* "claimed": before the checkpoints are loaded; "loop": between steps;    *)
(* "invoking": a step or compensation runs; "acted": its effect is done,   *)
(* its checkpoint is not; "failing": in _handle_step_failure; "dirty": in  *)
(* _fail_dirty.                                                            *)
Places  == {"none", "claimed", "loop", "invoking", "acted", "failing", "dirty",
            "ended"}
Active  == Places \ {"none", "ended"}
Loaded  == {"loop", "invoking", "acted", "dirty"}

(* tries: attempts of the latest compensation, 0 before the first; buf:    *)
(* events emitted into the StepContext; lost: Lease.lost; retryable:       *)
(* is_retryable of the failure; ran: this execution invoked some step.     *)
Contexts == [tries : 0..CompMaxAttempts, buf : Nat, lost : BOOLEAN,
             retryable : BOOLEAN, ran : BOOLEAN]
FreshCtx == [tries |-> 0, buf |-> 0, lost |-> FALSE, retryable |-> FALSE,
             ran |-> FALSE]

TypeOK ==
    /\ status \in Statuses
    /\ owner \in Workers \cup {None}
    /\ token \in 0..MaxClaims
    /\ lease \in {"none", "live", "expired"}
    /\ runAfter \in {"due", "later"}
    /\ forward \subseteq Steps /\ compensated \subseteq Steps
    /\ posted \subseteq Steps /\ reversed \subseteq Steps
    /\ outbox \in [Steps \X Kinds -> Nat]
    /\ pc \in [Tokens -> Places]
    /\ by \in [Tokens -> Workers \cup {None}]
    /\ mode \in [Tokens -> {"RUNNING", "COMPENSATING"}]
    /\ todo \in [Tokens -> SUBSET Steps]
    /\ ctx \in [Tokens -> Contexts]
    /\ disruptions \in 0..MaxDisruptions

(* A row as submit_workflow inserts it.                                    *)
Init ==
    /\ status = "PENDING" /\ owner = None /\ token = 0
    /\ lease = "none" /\ runAfter = "due"
    /\ forward = {} /\ compensated = {} /\ posted = {} /\ reversed = {}
    /\ outbox = [e \in Steps \X Kinds |-> 0]
    /\ pc = [t \in Tokens |-> "none"]
    /\ by = [t \in Tokens |-> None]
    /\ mode = [t \in Tokens |-> "RUNNING"]
    /\ todo = [t \in Tokens |-> {}]
    /\ ctx = [t \in Tokens |-> FreshCtx]
    /\ disruptions = 0

-----------------------------------------------------------------------------
(* Helpers.                                                                *)

(* WHERE owner_id = .. AND fencing_token = ..                              *)
Owns(t) == t = token /\ owner = by[t]

(* Mutants: the fencing token is not compared; the status is not compared. *)
WriteGuardUnfenced(t) ==
    /\ owner = by[t]
    /\ mode[t] = "COMPENSATING" => status = "COMPENSATING"
    /\ mode[t] = "RUNNING" /\ pc[t] = "loop" /\ todo[t] = {} =>
           status = "RUNNING"
WriteGuardStatusBlind(t) == Owns(t)

(* The WHERE clause of the write that execution t issues next.  Every      *)
(* unwind write also demands COMPENSATING, and SUCCESS demands RUNNING;    *)
(* the forward checkpoint and the failure writes demand ownership only.    *)
WriteGuard(t) ==
    /\ Owns(t)
    /\ mode[t] = "COMPENSATING" => status = "COMPENSATING"
    /\ mode[t] = "RUNNING" /\ pc[t] = "loop" /\ todo[t] = {} =>
           status = "RUNNING"

(* Mutants: no ORDER BY; ORDER BY seq ASC in both directions.              *)
IsNextUnordered(t, s) == s \in todo[t]
IsNextAscending(t, s) == s \in todo[t] /\ \A r \in todo[t] : s <= r

(* The step the loop is at: lowest seq going forward, highest unwinding.   *)
IsNext(t, s) ==
    /\ s \in todo[t]
    /\ \A r \in todo[t] : IF mode[t] = "RUNNING" THEN s <= r ELSE r <= s

(* What load_forward_outputs leaves the forward loop to run.               *)
LoadForwardOutputs == Steps \ forward

(* Mutant: the unwind is driven by what happened, not by what committed.   *)
LoadUnwindPosted == (posted \ compensated) \cap Compensable

(* What load_unwind_state leaves the unwind to run: committed, not yet     *)
(* undone, and with a compensation to run.                                 *)
LoadUnwindState == (forward \ compensated) \cap Compensable

Goto(t, place) == pc' = [pc EXCEPT ![t] = place]

(* The execution returns or dies; what it held in memory is gone.          *)
End(t) ==
    /\ Goto(t, "ended")
    /\ todo' = [todo EXCEPT ![t] = {}]
    /\ ctx' = [ctx EXCEPT ![t] = FreshCtx]

(* The row is given up: owner_id and lease_expires_at become NULL.         *)
Release == owner' = None /\ lease' = "none"

Disrupt == disruptions < MaxDisruptions /\ disruptions' = disruptions + 1

-----------------------------------------------------------------------------
(* The queue, the API and time.                                            *)

(* Mutant: lease_expires_at < now(), without IS NULL.                      *)
ClaimableExpired ==
    /\ runAfter = "due"
    /\ \/ status = "PENDING"
       \/ status \in {"RUNNING", "COMPENSATING"} /\ lease = "expired"

Claimable ==
    /\ runAfter = "due"
    /\ \/ status = "PENDING"
       \/ status \in {"RUNNING", "COMPENSATING"} /\ lease # "live"

ClaimedStatus == IF status = "COMPENSATING" THEN "COMPENSATING" ELSE "RUNNING"

(* claim_workflows.  A claim by a worker that cannot resolve the type is   *)
(* charged to the disruption budget.                                       *)
Claim(w) ==
    /\ Claimable /\ token < MaxClaims
    /\ IF w \in Importers THEN UNCHANGED disruptions ELSE Disrupt
    /\ token' = token + 1
    /\ owner' = w /\ lease' = "live" /\ status' = ClaimedStatus
    /\ Goto(token + 1, "claimed")
    /\ by' = [by EXCEPT ![token + 1] = w]
    /\ mode' = [mode EXCEPT ![token + 1] = ClaimedStatus]
    /\ UNCHANGED <<runAfter, store, todo, ctx>>

(* Mutant: cancel does not look at the status.                             *)
CancelAnyWorkflow ==
    /\ status' = "COMPENSATING" /\ runAfter' = "due"
    /\ UNCHANGED <<owner, token, lease, store, run, disruptions>>

(* cancel_workflow: not the lease holder, so it leaves the lease alone.    *)
CancelWorkflow ==
    /\ status \in {"PENDING", "RUNNING"}
    /\ status' = "COMPENSATING" /\ runAfter' = "due"
    /\ UNCHANGED <<owner, token, lease, store, run, disruptions>>

(* The lease of an ended execution runs out.  So does the lease of one     *)
(* that is stalled, or cut off from the database, for longer than it.      *)
LeaseExpires ==
    /\ lease = "live" /\ lease' = "expired"
    /\ IF pc[token] = "ended" THEN UNCHANGED disruptions ELSE Disrupt
    /\ UNCHANGED <<status, owner, token, runAfter, store, run>>

RunAfterPasses ==
    /\ runAfter = "later" /\ runAfter' = "due"
    /\ UNCHANGED <<status, owner, token, lease, store, run, disruptions>>

-----------------------------------------------------------------------------
(* Lease renewal: the worker's background renewer, and a step's own call.  *)

RenewLease(t) ==
    /\ pc[t] \in Active /\ ~ctx[t].lost /\ Owns(t)
    /\ lease = "expired" /\ lease' = "live"
    /\ UNCHANGED <<status, owner, token, runAfter, store, run, disruptions>>

RenewLost(t) ==
    /\ pc[t] \in Active /\ ~ctx[t].lost /\ ~Owns(t)
    /\ ctx' = [ctx EXCEPT ![t].lost = TRUE]
    /\ UNCHANGED <<row, store, pc, by, mode, todo, disruptions>>

(* Lease.renew_if_needed returned True: either the local clock says there  *)
(* is time left, or the renewal found the row still ours.                  *)
RenewIfNeeded(t) ==
    /\ ~ctx[t].lost
    /\ \/ UNCHANGED lease
       \/ Owns(t) /\ lease' = "live"

-----------------------------------------------------------------------------
(* execute_workflow, forward.                                              *)

(* get_definition raises: the row keeps its claim until the lease is over. *)
UnknownType(t) ==
    /\ pc[t] = "claimed" /\ mode[t] = "RUNNING" /\ by[t] \notin Importers
    /\ End(t)
    /\ UNCHANGED <<row, store, by, mode, disruptions>>

LoadForward(t) ==
    /\ pc[t] = "claimed" /\ mode[t] = "RUNNING" /\ by[t] \in Importers
    /\ Goto(t, "loop")
    /\ todo' = [todo EXCEPT ![t] = LoadForwardOutputs]
    /\ UNCHANGED <<row, store, by, mode, ctx, disruptions>>

(* A fresh StepContext per step, so the event buffer starts empty.         *)
StartStep(t) ==
    /\ pc[t] = "loop" /\ mode[t] = "RUNNING" /\ todo[t] # {}
    /\ RenewIfNeeded(t)
    /\ Goto(t, "invoking")
    /\ ctx' = [ctx EXCEPT ![t].ran = TRUE, ![t].buf = 0]
    /\ UNCHANGED <<status, owner, token, runAfter, store, by, mode, todo,
                   disruptions>>

(* The step posts its ledger entry (ON CONFLICT DO NOTHING) and emits its  *)
(* event.  Nothing here looks at the workflows row.                        *)
StepEffect(t, s) ==
    /\ pc[t] = "invoking" /\ mode[t] = "RUNNING" /\ IsNext(t, s)
    /\ posted' = posted \cup {s}
    /\ ctx' = [ctx EXCEPT ![t].buf = @ + 1]
    /\ Goto(t, "acted")
    /\ UNCHANGED <<row, forward, compensated, reversed, outbox, by, mode, todo,
                   disruptions>>

(* The step raises, before or after its effect; or its output cannot be    *)
(* encoded; or its checkpoint raises and is rolled back.                   *)
FailStep(t, canRetry) ==
    /\ pc[t] \in {"invoking", "acted"} /\ mode[t] = "RUNNING"
    /\ Goto(t, "failing")
    /\ ctx' = [ctx EXCEPT ![t].retryable = canRetry]
    /\ UNCHANGED <<row, store, by, mode, todo, disruptions>>

(* commit_step_output: position, checkpoint and events in one transaction. *)
CheckpointStep(t, s) ==
    /\ pc[t] = "acted" /\ mode[t] = "RUNNING" /\ IsNext(t, s) /\ WriteGuard(t)
    /\ forward' = forward \cup {s}
    /\ outbox' = [outbox EXCEPT ![<<s, "FORWARD">>] = @ + ctx[t].buf]
    /\ UNCHANGED <<row, compensated, posted, reversed, by, mode, disruptions>>

CommitStep(t, s) ==
    /\ CheckpointStep(t, s)
    /\ Goto(t, "loop")
    /\ todo' = [todo EXCEPT ![t] = @ \ {s}]
    /\ ctx' = [ctx EXCEPT ![t].buf = 0]

(* The transaction committed but its reply was lost: the executor sees an  *)
(* error and handles it as a failure of the step.                          *)
CommitReplyLost(t, s, canRetry) ==
    /\ CheckpointStep(t, s)
    /\ Goto(t, "failing")
    /\ ctx' = [ctx EXCEPT ![t].buf = 0, ![t].retryable = canRetry]
    /\ UNCHANGED todo

AtFinish(t, m) == pc[t] = "loop" /\ mode[t] = m /\ todo[t] = {}

(* Mutant: SUCCESS leaves owner_id behind.                                 *)
MarkSuccessKeepsOwner(t) ==
    /\ AtFinish(t, "RUNNING") /\ WriteGuard(t)
    /\ status' = "SUCCESS" /\ lease' = "none"
    /\ UNCHANGED <<owner, token, runAfter, store, by, mode, disruptions>>

MarkSuccess(t) ==
    /\ AtFinish(t, "RUNNING") /\ WriteGuard(t)
    /\ status' = "SUCCESS" /\ Release
    /\ UNCHANGED <<token, runAfter, store, by, mode, disruptions>>

FinishSuccess(t) == MarkSuccess(t) /\ End(t)

(* finish_success raises; the failure belongs to the last step this        *)
(* execution ran, and has no retry policy if every step was replayed.      *)
FinishFailing(t, canRetry) ==
    /\ canRetry => ctx[t].ran
    /\ Goto(t, "failing")
    /\ ctx' = [ctx EXCEPT ![t].retryable = canRetry]
    /\ UNCHANGED todo

FinishReplyLost(t, canRetry) == MarkSuccess(t) /\ FinishFailing(t, canRetry)

FinishError(t, canRetry) ==
    /\ AtFinish(t, "RUNNING")
    /\ FinishFailing(t, canRetry)
    /\ UNCHANGED <<row, store, by, mode, disruptions>>

(* _handle_step_failure.                                                   *)
MayRetry(t) == ctx[t].retryable /\ t < MaxAttempts

ScheduleRetry(t) ==
    /\ pc[t] = "failing" /\ MayRetry(t) /\ WriteGuard(t)
    /\ status' = "PENDING" /\ runAfter' = "later" /\ Release
    /\ End(t)
    /\ UNCHANGED <<token, store, by, mode, disruptions>>

BeginCompensation(t) ==
    /\ pc[t] = "failing" /\ ~MayRetry(t) /\ WriteGuard(t)
    /\ status' = "COMPENSATING" /\ runAfter' = "due" /\ Release
    /\ End(t)
    /\ UNCHANGED <<token, store, by, mode, disruptions>>

-----------------------------------------------------------------------------
(* execute_workflow, unwinding.                                            *)

(* _defer_compensation: hand the row back for a worker that can read it.   *)
Defer(t) ==
    /\ pc[t] = "claimed" /\ mode[t] = "COMPENSATING" /\ by[t] \notin Importers
    /\ WriteGuard(t)
    /\ runAfter' = "later" /\ Release
    /\ End(t)
    /\ UNCHANGED <<status, token, store, by, mode, disruptions>>

LoadUnwind(t) ==
    /\ pc[t] = "claimed" /\ mode[t] = "COMPENSATING" /\ by[t] \in Importers
    /\ Goto(t, "loop")
    /\ todo' = [todo EXCEPT ![t] = LoadUnwindState]
    /\ UNCHANGED <<row, store, by, mode, ctx, disruptions>>

StartCompensation(t) ==
    /\ pc[t] = "loop" /\ mode[t] = "COMPENSATING" /\ todo[t] # {}
    /\ RenewIfNeeded(t)
    /\ Goto(t, "invoking")
    /\ ctx' = [ctx EXCEPT ![t].tries = 1, ![t].buf = 0]
    /\ UNCHANGED <<status, owner, token, runAfter, store, by, mode, todo,
                   disruptions>>

CompensationEffect(t, s) ==
    /\ pc[t] = "invoking" /\ mode[t] = "COMPENSATING" /\ IsNext(t, s)
    /\ reversed' = reversed \cup {s}
    /\ ctx' = [ctx EXCEPT ![t].buf = @ + 1]
    /\ Goto(t, "acted")
    /\ UNCHANGED <<row, forward, compensated, posted, outbox, by, mode, todo,
                   disruptions>>

(* Mutant: the event buffer is not cleared.                                *)
RetryCompensationKeepsEvents(t) ==
    /\ pc[t] \in {"invoking", "acted"} /\ mode[t] = "COMPENSATING"
    /\ ctx[t].tries < CompMaxAttempts
    /\ RenewIfNeeded(t)
    /\ Goto(t, "invoking")
    /\ ctx' = [ctx EXCEPT ![t].tries = @ + 1]
    /\ UNCHANGED <<status, owner, token, runAfter, store, by, mode, todo,
                   disruptions>>

(* The undo raised, with attempts left: back off, renew, clear the buffer  *)
(* and try again in place.                                                 *)
RetryCompensation(t) ==
    /\ pc[t] \in {"invoking", "acted"} /\ mode[t] = "COMPENSATING"
    /\ ctx[t].tries < CompMaxAttempts
    /\ RenewIfNeeded(t)
    /\ Goto(t, "invoking")
    /\ ctx' = [ctx EXCEPT ![t].tries = @ + 1, ![t].buf = 0]
    /\ UNCHANGED <<status, owner, token, runAfter, store, by, mode, todo,
                   disruptions>>

(* Mutant: an undo that cannot be done is skipped.                         *)
SkipCompensation(t) ==
    /\ pc[t] \in {"invoking", "acted"} /\ mode[t] = "COMPENSATING"
    /\ Goto(t, "loop")
    /\ todo' = [todo EXCEPT ![t] = {s \in @ : ~IsNext(t, s)}]
    /\ UNCHANGED <<row, store, by, mode, ctx, disruptions>>

(* The undo raised for the last time or raised TerminalError.              *)
GiveUpCompensation(t) ==
    /\ pc[t] \in {"invoking", "acted"} /\ mode[t] = "COMPENSATING"
    /\ Goto(t, "dirty")
    /\ UNCHANGED <<row, store, by, mode, todo, ctx, disruptions>>

(* This build has no step of the name of a committed record it comes to on *)
(* its way down, whether or not that step had a compensation.  With nothing*)
(* left to undo that is a read-only step: below the last undo, if this     *)
(* execution made one, and otherwise anywhere.                             *)
MissingStep(t) ==
    /\ pc[t] = "loop" /\ mode[t] = "COMPENSATING"
    /\ \/ todo[t] # {}
       \/ \E s \in forward \ Compensable :
             ctx[t].tries > 0 => \A r \in forward \cap Compensable : s < r
    /\ Goto(t, "dirty")
    /\ UNCHANGED <<row, store, by, mode, todo, ctx, disruptions>>

(* commit_compensation_output.                                             *)
CommitCompensation(t, s) ==
    /\ pc[t] = "acted" /\ mode[t] = "COMPENSATING" /\ IsNext(t, s)
    /\ WriteGuard(t)
    /\ compensated' = compensated \cup {s}
    /\ outbox' = [outbox EXCEPT ![<<s, "COMPENSATION">>] = @ + ctx[t].buf]
    /\ Goto(t, "loop")
    /\ todo' = [todo EXCEPT ![t] = @ \ {s}]
    /\ ctx' = [ctx EXCEPT ![t].buf = 0]
    /\ UNCHANGED <<row, forward, posted, reversed, by, mode, disruptions>>

FinishCompensated(t) ==
    /\ AtFinish(t, "COMPENSATING") /\ WriteGuard(t)
    /\ status' = "COMPENSATED" /\ Release
    /\ End(t)
    /\ UNCHANGED <<token, runAfter, store, by, mode, disruptions>>

FailDirty(t) ==
    /\ pc[t] = "dirty" /\ WriteGuard(t)
    /\ status' = "FAILED_DIRTY" /\ Release
    /\ End(t)
    /\ UNCHANGED <<token, runAfter, store, by, mode, disruptions>>

-----------------------------------------------------------------------------
(* Both directions.                                                        *)

(* A guarded write matched no row, or a renewal did not: the execution     *)
(* writes nothing and returns PREEMPTED.  A loading execution has nothing  *)
(* to write, so it does not notice, unless it is there to defer.           *)
Preempted(t) ==
    /\ \/ pc[t] \in Active \ {"claimed"}
       \/ pc[t] = "claimed" /\ mode[t] = "COMPENSATING" /\ by[t] \notin Importers
    /\ ~WriteGuard(t)
    /\ End(t)
    /\ UNCHANGED <<row, store, by, mode, disruptions>>

(* The worker crashes or is shut down, or an error escapes the executor    *)
(* (a load, a failure write, anything in the unwind): the row is left to   *)
(* its lease.                                                              *)
Abandon(t) ==
    /\ pc[t] \in Active
    /\ Disrupt
    /\ End(t)
    /\ UNCHANGED <<row, store, by, mode>>

(* Nothing is left to do and nobody is left to do it.                      *)
Finished ==
    /\ status \in Terminal
    /\ \A t \in Tokens : pc[t] \notin Active
    /\ UNCHANGED vars

(* The steps an execution takes by itself once it has the processor.       *)
Forward(t) ==
    \/ UnknownType(t) \/ LoadForward(t) \/ StartStep(t)
    \/ \E s \in Steps : StepEffect(t, s) \/ CommitStep(t, s)
    \/ \E s \in Steps, canRetry \in BOOLEAN : CommitReplyLost(t, s, canRetry)
    \/ \E canRetry \in BOOLEAN :
          FailStep(t, canRetry) \/ FinishReplyLost(t, canRetry)
            \/ FinishError(t, canRetry)
    \/ FinishSuccess(t) \/ ScheduleRetry(t) \/ BeginCompensation(t)

Unwind(t) ==
    \/ Defer(t) \/ LoadUnwind(t) \/ StartCompensation(t)
    \/ \E s \in Steps : CompensationEffect(t, s) \/ CommitCompensation(t, s)
    \/ RetryCompensation(t) \/ GiveUpCompensation(t) \/ MissingStep(t)
    \/ FinishCompensated(t) \/ FailDirty(t)

Execute(t) == Forward(t) \/ Unwind(t) \/ Preempted(t)

Next ==
    \/ \E w \in Workers : Claim(w)
    \/ CancelWorkflow \/ LeaseExpires \/ RunAfterPasses
    \/ \E t \in Tokens :
          Execute(t) \/ RenewLease(t) \/ RenewLost(t) \/ Abandon(t)
    \/ Finished

Spec == Init /\ [][Next]_vars

(* Workers poll and their executions are scheduled; clocks advance.        *)
Fairness ==
    /\ \A w \in Importers : WF_vars(Claim(w))
    /\ \A t \in Tokens : WF_vars(Execute(t))
    /\ WF_vars(LeaseExpires /\ pc[token] = "ended")
    /\ WF_vars(RunAfterPasses)

FairSpec == Spec /\ Fairness
-----------------------------------------------------------------------------
(* Properties.                                                             *)

(* The owner's memory agrees with step_outputs: what it still has to run   *)
(* is exactly what is not committed.  load_forward_outputs and             *)
(* load_unwind_state read once, at the start of an execution; that stays   *)
(* right only because no other execution can checkpoint while this one     *)
(* owns the row.  So a checkpoint INSERT never meets the primary key of    *)
(* step_outputs, and no committed step is run again by the owner.          *)
OwnerSeesCheckpoints ==
    \A t \in Tokens :
        Owns(t) /\ pc[t] \in Loaded =>
            todo[t] = IF mode[t] = "RUNNING" THEN LoadForwardOutputs
                                            ELSE LoadUnwindState

(* Committed FORWARD rows are a prefix of the definition, whatever mix of  *)
(* crashes, takeovers, retries and zombies produced them: resuming at the  *)
(* first missing step skips nothing (execute_workflow's loop).             *)
ForwardPrefix == \A s \in forward : 1..s \subseteq forward

(* Compensations are committed newest first: when the undo of a step is    *)
(* committed, so are those of all later committed steps (_compensate's     *)
(* ORDER BY seq DESC), and only committed, compensable steps are undone.   *)
UnwindOrder ==
    /\ compensated \subseteq forward \cap Compensable
    /\ \A s \in compensated : \A r \in forward \cap Compensable :
           s < r => r \in compensated

(* Nothing is undone, not even by a zombie and not even in the ledger,     *)
(* while the saga can still run forward or has succeeded: an undo exists   *)
(* only once an unwinding execution was claimed, and after that the row    *)
(* is never PENDING, RUNNING or SUCCESS again.                             *)
NoUndoWhileForward ==
    status \notin Unwound => compensated = {} /\ reversed = {}

(* A terminal status tells the truth about the checkpoints: SUCCESS means  *)
(* every step committed and its entry posted, COMPENSATED that every       *)
(* committed step with a compensation is undone and its entry reversed.    *)
OutcomeIsTrue ==
    /\ status = "SUCCESS" => forward = Steps /\ posted = Steps
    /\ status = "COMPENSATED" =>
           /\ compensated = forward \cap Compensable
           /\ compensated \subseteq reversed

(* The ledger is at most one step away from the checkpoints in either      *)
(* direction, however many executions ran at once: an entry without a      *)
(* checkpoint belongs to the first uncommitted step, and a reversal        *)
(* without one to the last step not yet undone.                            *)
LedgerOneStepAhead ==
    /\ forward \subseteq posted /\ compensated \subseteq reversed
    /\ \A s \in posted \ forward : 1..(s - 1) \subseteq forward
    /\ \A s \in reversed \ compensated :
          /\ s \in forward
          /\ \A r \in forward \cap Compensable : s < r => r \in compensated

(* Each checkpoint has exactly the one event its step emitted, and no      *)
(* event exists without its checkpoint: failed attempts, in-place retries  *)
(* of an undo, rolled back commits and zombies add none to the outbox.     *)
EventsMatchCheckpoints ==
    \A s \in Steps :
        /\ outbox[<<s, "FORWARD">>] = IF s \in forward THEN 1 ELSE 0
        /\ outbox[<<s, "COMPENSATION">>] = IF s \in compensated THEN 1 ELSE 0

(* A terminal row is final: no late execution, cancel or claim changes its *)
(* status, takes it, or adds a checkpoint or an event to it.               *)
TerminalIsFinal ==
    [][(status \in Terminal) =>
          UNCHANGED <<status, owner, token, forward, compensated, outbox>>]_vars

(* Every saga ends, whatever is cancelled, stalled or crashes, as long as  *)
(* disruptions are finite: some worker that imports the definition keeps   *)
(* polling, executions make progress and clocks advance.                   *)
EventuallyTerminal == <>(status \in Terminal)

(* A saga that was COMPENSATING never ends in SUCCESS: after a cancel the  *)
(* owner "cannot reach SUCCESS afterward" (cancel_workflow).               *)
NoFalseSuccess == [](status = "COMPENSATING" => [](status # "SUCCESS"))

(* A finished transfer nets to zero (RECONCILE of tests/chaos): odd steps  *)
(* post a DEBIT, even ones a CREDIT, and a reversal the opposite.  An      *)
(* entry posted before a failed checkpoint is the case to look at: the     *)
(* unwind knows only of committed steps.                                   *)
NetsToZero(entries) ==
    LET debits == {s \in entries : s % 2 = 1}
    IN  Cardinality(debits) = Cardinality(entries \ debits)
Reconciled ==
    status \in {"SUCCESS", "COMPENSATED"} => NetsToZero(posted \ reversed)

(* A cancelled saga waits for the running steps or for a lease, never for  *)
(* both: once the execution that owned it is over, and it did not crash,   *)
(* the unwind has no lease to wait for.  TLC refutes it (README).          *)
CancelNeedsNoLease ==
    \A t \in Tokens :
        /\ t = token /\ pc[t] = "ended"
        /\ status = "COMPENSATING" /\ disruptions = 0
        => lease # "live"

-----------------------------------------------------------------------------
(* The inductive invariant behind the safety properties.                   *)

Current == IF token > 0 THEN mode[token] ELSE "RUNNING"

(* Fencing: tokens are issued in order, each to a worker, and an owned row *)
(* is owned by the execution with the latest token and is not at rest.     *)
Fencing ==
    /\ \A t \in Tokens : pc[t] = "none" <=> token < t
    /\ \A t \in Tokens : t <= token => by[t] \in Workers
    /\ owner # None =>
          /\ token > 0 /\ owner = by[token]
          /\ status \in {"RUNNING", "COMPENSATING"}

(* Turning round is final: once one execution was claimed to unwind, so    *)
(* was every later one, and the status says so.                            *)
TurnsOnce ==
    /\ \A t \in Tokens : mode[t] = "COMPENSATING" => Current = "COMPENSATING"
    /\ Current = "COMPENSATING" => status \in Unwound
    /\ Current = "RUNNING" => compensated = {} /\ reversed = {}

(* What any execution, zombies included, believes to be behind it is       *)
(* committed; and it has acted exactly when it is in place "acted".        *)
ZombiesLagBehind ==
    \A t \in Tokens :
        /\ pc[t] \in Loaded /\ mode[t] = "RUNNING" =>
              Steps \ todo[t] \subseteq forward
        /\ pc[t] \in Loaded /\ mode[t] = "COMPENSATING" =>
              /\ todo[t] \subseteq forward \cap Compensable
              /\ (forward \cap Compensable) \ todo[t] \subseteq compensated
        /\ pc[t] = "acted" => \A s \in Steps : IsNext(t, s) =>
              s \in (IF mode[t] = "RUNNING" THEN posted ELSE reversed)

(* Only forward executions get to _handle_step_failure and only unwinding  *)
(* ones to _fail_dirty, and both get there from some step: to _fail_dirty  *)
(* from one to undo, or from a read-only one that the build lacks.         *)
Directions ==
    \A t \in Tokens :
        /\ pc[t] = "failing" => mode[t] = "RUNNING"
        /\ pc[t] = "dirty" => mode[t] = "COMPENSATING"
        /\ pc[t] \in {"invoking", "acted"} => todo[t] # {}
        /\ pc[t] = "dirty" => todo[t] # {} \/ forward \ Compensable # {}

EventBuffers ==
    \A t \in Tokens :
        /\ pc[t] = "invoking" => ctx[t].buf = 0
        /\ pc[t] = "acted" => ctx[t].buf = 1

(* The strengthening: with the safety properties it is preserved by every  *)
(* action, from every state that satisfies it.                             *)
IInv ==
    /\ TypeOK /\ Fencing /\ TurnsOnce
    /\ OwnerSeesCheckpoints /\ ZombiesLagBehind
    /\ Directions /\ EventBuffers
    /\ ForwardPrefix /\ UnwindOrder /\ OutcomeIsTrue
    /\ LedgerOneStepAhead /\ EventsMatchCheckpoints
=============================================================================
