----------------------------- MODULE SagaProofs -----------------------------
(***************************************************************************)
(* Proofs of the safety properties of Saga, for every number of steps,     *)
(* workers, claims and disruptions, and that Saga implements SagaLifecycle.*)
(***************************************************************************)
EXTENDS SagaRefinement, TLAPS

USE DEF Places, Active, Loaded

(* A submitted row is well typed.                                          *)
LEMMA InitType == Init => TypeOK
  BY StepsAssumption, WorkersAssumption, LimitsAssumption
  DEF Init, TypeOK, Statuses, Contexts, FreshCtx, Tokens

(* Setting two fields of an execution's context keeps it well typed.       *)
LEMMA ContextUpdate ==
  ASSUME ctx \in [Tokens -> Contexts], NEW t \in Tokens,
         NEW n \in 0..CompMaxAttempts, NEW b \in Nat, NEW r \in BOOLEAN
  PROVE  /\ [ctx EXCEPT ![t].tries = n, ![t].buf = b] \in [Tokens -> Contexts]
         /\ [ctx EXCEPT ![t].buf = b, ![t].retryable = r] \in [Tokens -> Contexts]
         /\ [ctx EXCEPT ![t].buf = b] \in [Tokens -> Contexts]
         /\ [ctx EXCEPT ![t].ran = r, ![t].buf = b] \in [Tokens -> Contexts]
         /\ [ctx EXCEPT ![t].lost = r] \in [Tokens -> Contexts]
<1>1. [ctx[t] EXCEPT !.tries = n, !.buf = b] \in Contexts
  BY DEF Contexts
<1>2. [ctx[t] EXCEPT !.buf = b, !.retryable = r] \in Contexts
  BY DEF Contexts
<1>3. [ctx[t] EXCEPT !.buf = b] \in Contexts
  BY DEF Contexts
<1>4. [ctx[t] EXCEPT !.ran = r, !.buf = b] \in Contexts
  BY DEF Contexts
<1>5. [ctx[t] EXCEPT !.lost = r] \in Contexts
  BY DEF Contexts
<1> QED
  BY <1>1, <1>2, <1>3, <1>4, <1>5

(* Adding an execution's buffered events to the outbox keeps it well typed.*)
LEMMA OutboxUpdate ==
  ASSUME ctx \in [Tokens -> Contexts], outbox \in [Steps \X Kinds -> Nat],
         NEW t \in Tokens, NEW s \in Steps, NEW k \in Kinds
  PROVE  [outbox EXCEPT ![<<s, k>>] = @ + ctx[t].buf] \in [Steps \X Kinds -> Nat]
<1>1. ctx[t].buf \in Nat
  BY DEF Contexts
<1> QED
  BY <1>1

(* Every action preserves the types, one step per action.                  *)
LEMMA NextType == TypeOK /\ [Next]_vars => TypeOK'
<1> SUFFICES ASSUME TypeOK, [Next]_vars PROVE TypeOK'
  OBVIOUS
<1> USE StepsAssumption, WorkersAssumption, LimitsAssumption DEF TypeOK
<1>1. ASSUME NEW w \in Workers, Claim(w) PROVE TypeOK'
  BY <1>1 DEF Claim, ClaimedStatus, Goto, Disrupt, store, Statuses, Tokens
<1>2. CASE CancelWorkflow
  BY <1>2 DEF CancelWorkflow, store, run, Statuses
<1>3. CASE LeaseExpires
  BY <1>3 DEF LeaseExpires, store, run, Disrupt
<1>4. CASE RunAfterPasses
  BY <1>4 DEF RunAfterPasses, store, run
<1>5. ASSUME NEW t \in Tokens, RenewLease(t) \/ RenewLost(t) \/ Abandon(t) PROVE TypeOK'
  <2>1. CASE RenewLease(t)
    BY <2>1 DEF RenewLease, store, run
  <2>2. CASE RenewLost(t)
    <3>1. 0 \in Nat /\ 0 \in 0..CompMaxAttempts /\ TRUE \in BOOLEAN
      OBVIOUS
    <3>2. ctx' \in [Tokens -> Contexts]
      BY <2>2, <3>1, ContextUpdate DEF RenewLost
    <3> QED
      BY <2>2, <3>2 DEF RenewLost, row, store
  <2>3. CASE Abandon(t)
    BY <2>3 DEF Abandon, End, Goto, Disrupt, row, store, FreshCtx, Contexts
  <2> QED
    BY <1>5, <2>1, <2>2, <2>3
<1>6. ASSUME NEW t \in Tokens, Preempted(t) PROVE TypeOK'
  BY <1>6 DEF Preempted, End, Goto, row, store, FreshCtx, Contexts
<1>7. ASSUME NEW t \in Tokens, Forward(t) PROVE TypeOK'
  <2>1. CASE UnknownType(t)
    BY <2>1 DEF UnknownType, End, Goto, row, store, FreshCtx, Contexts
  <2>2. CASE LoadForward(t)
    BY <2>2 DEF LoadForward, LoadForwardOutputs, Goto, row, store
  <2>3. CASE StartStep(t)
    <3>1. 0 \in Nat /\ 0 \in 0..CompMaxAttempts /\ TRUE \in BOOLEAN
      OBVIOUS
    <3>2. ctx' \in [Tokens -> Contexts]
      BY <2>3, <3>1, ContextUpdate DEF StartStep
    <3> QED
      BY <2>3, <3>2 DEF StartStep, RenewIfNeeded, Goto, store
  <2>4. ASSUME NEW s \in Steps, StepEffect(t, s) PROVE TypeOK'
    BY <2>4 DEF StepEffect, Goto, row, Contexts
  <2>5. ASSUME NEW s \in Steps, CommitStep(t, s) PROVE TypeOK'
    BY <2>5 DEF CommitStep, CheckpointStep, Goto, row, Contexts, Kinds
  <2>6. ASSUME NEW s \in Steps, NEW c \in BOOLEAN, CommitReplyLost(t, s, c) PROVE TypeOK'
    <3>1. ctx' \in [Tokens -> Contexts]
      <4>1. 0 \in Nat /\ 0 \in 0..CompMaxAttempts
        OBVIOUS
      <4> QED
        BY <2>6, <4>1, ContextUpdate DEF CommitReplyLost
    <3>2. outbox' \in [Steps \X Kinds -> Nat]
      BY <2>6, OutboxUpdate DEF CommitReplyLost, CheckpointStep, Kinds
    <3> QED
      BY <2>6, <3>1, <3>2 DEF CommitReplyLost, CheckpointStep, Goto, row
  <2>7. ASSUME NEW c \in BOOLEAN, FailStep(t, c) PROVE TypeOK'
    BY <2>7 DEF FailStep, Goto, row, store, Contexts
  <2>8. ASSUME NEW c \in BOOLEAN, FinishReplyLost(t, c) PROVE TypeOK'
    BY <2>8 DEF FinishReplyLost, MarkSuccess, FinishFailing, Release, Goto, store, Contexts, Statuses
  <2>9. ASSUME NEW c \in BOOLEAN, FinishError(t, c) PROVE TypeOK'
    BY <2>9 DEF FinishError, FinishFailing, Goto, row, store, Contexts
  <2>10. CASE FinishSuccess(t)
    BY <2>10 DEF FinishSuccess, MarkSuccess, Release, End, Goto, store, Contexts, FreshCtx, Statuses
  <2>11. CASE ScheduleRetry(t)
    BY <2>11 DEF ScheduleRetry, Release, End, Goto, store, Contexts, FreshCtx, Statuses
  <2>12. CASE BeginCompensation(t)
    BY <2>12 DEF BeginCompensation, Release, End, Goto, store, Contexts, FreshCtx, Statuses
  <2> QED
    BY <1>7, <2>1, <2>2, <2>3, <2>4, <2>5, <2>6, <2>7, <2>8, <2>9, <2>10, <2>11, <2>12 DEF Forward
<1>8. ASSUME NEW t \in Tokens, Unwind(t) PROVE TypeOK'
  <2>1. CASE Defer(t)
    BY <2>1 DEF Defer, Release, End, Goto, store, FreshCtx, Contexts
  <2>2. CASE LoadUnwind(t)
    BY <2>2 DEF LoadUnwind, LoadUnwindState, Goto, row, store
  <2>3. CASE StartCompensation(t)
    <3>1. ctx' \in [Tokens -> Contexts]
      <4>1. 0 \in Nat /\ 1 \in 0..CompMaxAttempts /\ TRUE \in BOOLEAN
        OBVIOUS
      <4> QED
        BY <2>3, <4>1, ContextUpdate DEF StartCompensation
    <3> QED
      BY <2>3, <3>1 DEF StartCompensation, RenewIfNeeded, Goto, store
  <2>4. ASSUME NEW s \in Steps, CompensationEffect(t, s) PROVE TypeOK'
    BY <2>4 DEF CompensationEffect, Goto, row, Contexts
  <2>5. ASSUME NEW s \in Steps, CommitCompensation(t, s) PROVE TypeOK'
    <3>1. ctx' \in [Tokens -> Contexts]
      <4>1. 0 \in Nat /\ 0 \in 0..CompMaxAttempts /\ TRUE \in BOOLEAN
        OBVIOUS
      <4> QED
        BY <2>5, <4>1, ContextUpdate DEF CommitCompensation
    <3>2. outbox' \in [Steps \X Kinds -> Nat]
      BY <2>5, OutboxUpdate DEF CommitCompensation, Kinds
    <3> QED
      BY <2>5, <3>1, <3>2 DEF CommitCompensation, Goto, row
  <2>6. CASE RetryCompensation(t)
    <3>1. ctx' \in [Tokens -> Contexts]
      <4>1. ctx[t].tries + 1 \in 0..CompMaxAttempts
        BY <2>6 DEF RetryCompensation, Contexts
      <4> QED
        BY <2>6, <4>1, ContextUpdate DEF RetryCompensation
    <3> QED
      BY <2>6, <3>1 DEF RetryCompensation, RenewIfNeeded, Goto, store
  <2>7. CASE GiveUpCompensation(t) \/ MissingStep(t)
    BY <2>7 DEF GiveUpCompensation, MissingStep, Goto, row, store
  <2>8. CASE FinishCompensated(t)
    BY <2>8 DEF FinishCompensated, Release, End, Goto, store, Contexts, FreshCtx, Statuses
  <2>9. CASE FailDirty(t)
    BY <2>9 DEF FailDirty, Release, End, Goto, store, Contexts, FreshCtx, Statuses
  <2> QED
    BY <1>8, <2>1, <2>2, <2>3, <2>4, <2>5, <2>6, <2>7, <2>8, <2>9 DEF Unwind
<1>9. CASE Finished
  BY <1>9 DEF Finished, vars, row, store, run
<1>10. CASE UNCHANGED vars
  BY <1>10 DEF vars, row, store, run
<1> QED
  BY <1>1, <1>2, <1>3, <1>4, <1>5, <1>6, <1>7, <1>8, <1>9, <1>10 DEF Next, Execute

(* Type correctness.                                                       *)
THEOREM TypeCorrect == Spec => []TypeOK
  BY InitType, NextType, PTL DEF Spec

(* The properties of the store are kept by an action that leaves           *)
(* step_outputs, the ledger and the outbox alone.                          *)
LEMMA StoreFrame ==
  ASSUME IInv, UNCHANGED store
  PROVE  /\ ForwardPrefix' /\ UnwindOrder'
         /\ LedgerOneStepAhead' /\ EventsMatchCheckpoints'
<1>1. ForwardPrefix' /\ UnwindOrder'
  BY DEF IInv, store, ForwardPrefix, UnwindOrder
<1>2. LedgerOneStepAhead'
  BY DEF IInv, store, LedgerOneStepAhead
<1>3. EventsMatchCheckpoints'
  BY DEF IInv, store, EventsMatchCheckpoints
<1> QED
  BY <1>1, <1>2, <1>3

(* An execution that ends, giving the row up or not, disturbs only what    *)
(* relates the row's owner and status to the rest.                         *)
LEMMA EndFrame ==
  ASSUME IInv, NEW t \in Tokens, pc[t] \in Active, End(t),
         UNCHANGED <<token, store, by, mode>>, owner' \in {owner, None}
  PROVE  /\ \A u \in Tokens : pc'[u] = "none" <=> token' < u
         /\ OwnerSeesCheckpoints' /\ ZombiesLagBehind' /\ EventBuffers'
         /\ Directions' /\ ForwardPrefix' /\ UnwindOrder'
         /\ LedgerOneStepAhead' /\ EventsMatchCheckpoints'
<1> USE DEF IInv, TypeOK, End, Goto
<1>1. \A u \in Tokens \ {t} : pc'[u] = pc[u] /\ todo'[u] = todo[u] /\ ctx'[u] = ctx[u]
  OBVIOUS
<1>2. pc'[t] = "ended"
  OBVIOUS
<1>3. \A u \in Tokens : pc'[u] = "none" <=> token' < u
  BY <1>1, <1>2 DEF Fencing
<1>4. OwnerSeesCheckpoints'
  <2> SUFFICES ASSUME NEW u \in Tokens, Owns(u)', pc'[u] \in Loaded
               PROVE  todo'[u] = IF mode'[u] = "RUNNING" THEN LoadForwardOutputs'
                                                         ELSE LoadUnwindState'
    BY DEF OwnerSeesCheckpoints
  <2>1. u # t
    BY <1>2
  <2>2. Owns(u)
    BY WorkersAssumption DEF Owns, Fencing, Tokens
  <2>3. todo[u] = IF mode[u] = "RUNNING" THEN LoadForwardOutputs ELSE LoadUnwindState
    BY <1>1, <2>1, <2>2 DEF OwnerSeesCheckpoints
  <2> QED
    BY <1>1, <2>1, <2>3 DEF store, LoadForwardOutputs, LoadUnwindState
<1>5. ZombiesLagBehind'
  BY <1>1, <1>2 DEF ZombiesLagBehind, IsNext, store
<1>6. EventBuffers' /\ Directions'
  BY <1>1, <1>2 DEF EventBuffers, Directions, store
<1> QED
  BY <1>3, <1>4, <1>5, <1>6, StoreFrame

(* An execution that moves from one place to another, leaving the row and  *)
(* the store alone, disturbs only what is said about its own memory.       *)
LEMMA LocalFrame ==
  ASSUME IInv, NEW t \in Tokens, NEW p \in Active, pc[t] \in Active, Goto(t, p),
         UNCHANGED <<status, owner, token, store, by, mode>>
  PROVE  /\ Fencing' /\ TurnsOnce' /\ OutcomeIsTrue'
         /\ ForwardPrefix' /\ UnwindOrder'
         /\ LedgerOneStepAhead' /\ EventsMatchCheckpoints'
<1> USE DEF IInv, TypeOK, Goto
<1>1. Fencing'
  BY DEF Fencing
<1>2. TurnsOnce'
  BY DEF TurnsOnce, Current, store
<1>3. OutcomeIsTrue'
  BY DEF OutcomeIsTrue, store
<1> QED
  BY <1>1, <1>2, <1>3, StoreFrame

(* The loop of an execution is at one step only.                           *)
LEMMA IsNextUnique ==
  ASSUME NEW t \in Tokens, NEW s \in Steps, NEW r \in Steps,
         IsNext(t, s), IsNext(t, r)
  PROVE  r = s
<1>1. s \in Int /\ r \in Int
  BY StepsAssumption DEF Steps
<1>2. (s <= r /\ r <= s) \/ (r <= s /\ s <= r)
  BY DEF IsNext
<1> QED
  BY <1>1, <1>2

(* The next step of a forward execution, zombie or owner, has all steps    *)
(* before it committed.                                                    *)
LEMMA IsNextForward ==
  ASSUME IInv, NEW t \in Tokens, NEW s \in Steps, IsNext(t, s),
         mode[t] = "RUNNING", pc[t] \in Loaded
  PROVE  1..(s - 1) \subseteq forward
<1>1. \A r \in 1..(s - 1) : r \in Steps \ todo[t]
  BY StepsAssumption DEF Steps, IsNext
<1> QED
  BY <1>1 DEF IInv, ZombiesLagBehind

(* The next step of an unwinding execution is committed, and all those     *)
(* after it are undone.                                                    *)
LEMMA IsNextUnwind ==
  ASSUME IInv, NEW t \in Tokens, NEW s \in Steps, IsNext(t, s),
         mode[t] = "COMPENSATING", pc[t] \in Loaded
  PROVE  /\ s \in forward \cap Compensable
         /\ \A r \in forward \cap Compensable : s < r => r \in compensated
<1>1. s \in todo[t] /\ \A r \in todo[t] : r <= s
  BY DEF IsNext
<1>2. todo[t] \subseteq forward \cap Compensable
  BY DEF IInv, ZombiesLagBehind
<1>3. \A r \in forward \cap Compensable : s < r => r \notin todo[t]
  BY <1>1, StepsAssumption DEF IInv, TypeOK, Steps
<1> QED
  BY <1>1, <1>2, <1>3 DEF IInv, ZombiesLagBehind

(* A claim: the new execution has loaded nothing, and the old owner stops  *)
(* owning the row.                                                         *)
LEMMA ClaimInductive ==
  ASSUME IInv, TypeOK', NEW w \in Workers, Claim(w)
  PROVE  IInv'
<1> USE WorkersAssumption, LimitsAssumption DEF IInv, TypeOK, Claim, Goto
<1>1. \A t \in Tokens : t <= token => t # token + 1
  BY DEF Tokens
<1>2. pc[token + 1] = "none" /\ token + 1 \in Tokens
  BY DEF Fencing, Tokens
<1>3. Fencing'
  BY <1>2 DEF Fencing, ClaimedStatus, Claimable, Tokens
<1>4. TurnsOnce'
  BY <1>2 DEF TurnsOnce, Current, ClaimedStatus, Claimable, Unwound, store, Tokens
<1>5. OwnerSeesCheckpoints'
  BY <1>2 DEF OwnerSeesCheckpoints, Owns
<1>6. ZombiesLagBehind'
  BY <1>2 DEF ZombiesLagBehind, IsNext, store
<1>7. EventBuffers' /\ Directions'
  BY <1>2 DEF EventBuffers, Directions, store
<1>8. OutcomeIsTrue'
  BY DEF OutcomeIsTrue, ClaimedStatus
<1> QED
  BY <1>3, <1>4, <1>5, <1>6, <1>7, <1>8, StoreFrame

(* A cancel, and the passing of time.                                      *)
LEMMA EnvironmentInductive ==
  ASSUME IInv, TypeOK', CancelWorkflow \/ LeaseExpires \/ RunAfterPasses
  PROVE  IInv'
<1> USE DEF IInv, CancelWorkflow, LeaseExpires, RunAfterPasses, run, store
<1>1. Fencing'
  BY DEF Fencing
<1>2. TurnsOnce'
  BY DEF TurnsOnce, Current, Unwound
<1>3. OwnerSeesCheckpoints'
  BY DEF OwnerSeesCheckpoints, Owns, LoadForwardOutputs, LoadUnwindState
<1>4. ZombiesLagBehind'
  BY DEF ZombiesLagBehind, IsNext
<1>5. EventBuffers' /\ Directions'
  BY DEF EventBuffers, Directions
<1>6. OutcomeIsTrue'
  BY DEF OutcomeIsTrue
<1> QED
  BY <1>1, <1>2, <1>3, <1>4, <1>5, <1>6, StoreFrame

(* Renewals touch the lease and the local lost flag only.                  *)
LEMMA RenewalInductive ==
  ASSUME IInv, TypeOK', NEW t \in Tokens, RenewLease(t) \/ RenewLost(t)
  PROVE  IInv'
<1> USE DEF IInv, TypeOK, RenewLease, RenewLost, row, run, store
<1>1. Fencing' /\ TurnsOnce' /\ OutcomeIsTrue'
  BY DEF Fencing, TurnsOnce, Current, OutcomeIsTrue
<1>2. OwnerSeesCheckpoints'
  BY DEF OwnerSeesCheckpoints, Owns, LoadForwardOutputs, LoadUnwindState
<1>3. ZombiesLagBehind'
  BY DEF ZombiesLagBehind, IsNext
<1>4. EventBuffers' /\ Directions'
  <2>1. UNCHANGED <<pc, mode, todo>>
    OBVIOUS
  <2>2. \A u \in Tokens : ctx'[u].buf = ctx[u].buf
    BY DEF Contexts
  <2> QED
    BY <2>1, <2>2 DEF EventBuffers, Directions
<1> QED
  BY <1>1, <1>2, <1>3, <1>4, StoreFrame

(* The ways an execution ends without writing to the row.                  *)
LEMMA EndInductive ==
  ASSUME IInv, TypeOK', NEW t \in Tokens,
         Preempted(t) \/ Abandon(t) \/ UnknownType(t)
  PROVE  IInv'
<1>1. /\ End(t) /\ pc[t] \in Active
      /\ UNCHANGED <<row, store, by, mode>>
  BY DEF Preempted, Abandon, UnknownType
<1>2. Fencing' /\ TurnsOnce' /\ OutcomeIsTrue'
  BY <1>1, EndFrame DEF IInv, Fencing, TurnsOnce, Current, OutcomeIsTrue, row, store
<1> QED
  BY <1>1, <1>2, EndFrame DEF IInv, row

(* The forward half of the executor.  <1>5 is the heart of it: only the    *)
(* owner checkpoints, so the step it commits is the first one missing.     *)
LEMMA ForwardInductive ==
  ASSUME IInv, TypeOK', NEW t \in Tokens, Forward(t)
  PROVE  IInv'
<1> USE StepsAssumption, WorkersAssumption DEF IInv, TypeOK, Goto
<1>1. CASE UnknownType(t)
  BY <1>1, EndInductive
<1>2. CASE LoadForward(t)
  <2> USE <1>2 DEF LoadForward, row, store
  <2>1. OwnerSeesCheckpoints'
    BY DEF OwnerSeesCheckpoints, Owns, LoadForwardOutputs, LoadUnwindState
  <2>2. ZombiesLagBehind'
    BY DEF ZombiesLagBehind, IsNext, LoadForwardOutputs
  <2>3. EventBuffers' /\ Directions'
    BY DEF EventBuffers, Directions
  <2> QED
    BY <2>1, <2>2, <2>3, LocalFrame
<1>3. CASE StartStep(t)
  <2> USE <1>3 DEF StartStep, store
  <2>1. OwnerSeesCheckpoints'
    BY DEF OwnerSeesCheckpoints, Owns, LoadForwardOutputs, LoadUnwindState
  <2>2. ZombiesLagBehind'
    BY DEF ZombiesLagBehind, IsNext
  <2>3. EventBuffers' /\ Directions'
    BY DEF EventBuffers, Directions, Contexts
  <2> QED
    BY <2>1, <2>2, <2>3, LocalFrame
<1>4. ASSUME NEW s \in Steps, StepEffect(t, s) PROVE IInv'
  <2> USE <1>4 DEF StepEffect, row
  <2>1. Fencing' /\ TurnsOnce' /\ OutcomeIsTrue'
    BY DEF Fencing, TurnsOnce, Current, OutcomeIsTrue
  <2>2. OwnerSeesCheckpoints'
    BY DEF OwnerSeesCheckpoints, Owns, LoadForwardOutputs, LoadUnwindState
  <2>3. ZombiesLagBehind'
    <3>1. \A r \in Steps : IsNext(t, r) => r = s
      BY IsNextUnique
    <3>2. \A u \in Tokens, r \in Steps : IsNext(u, r)' <=> IsNext(u, r)
      BY DEF IsNext
    <3> QED
      BY <3>1, <3>2 DEF ZombiesLagBehind
  <2>4. EventBuffers' /\ Directions'
    BY DEF EventBuffers, Directions, Contexts
  <2>5. LedgerOneStepAhead'
    BY IsNextForward DEF LedgerOneStepAhead
  <2>6. ForwardPrefix' /\ UnwindOrder' /\ EventsMatchCheckpoints'
    BY DEF ForwardPrefix, UnwindOrder, EventsMatchCheckpoints
  <2> QED
    BY <2>1, <2>2, <2>3, <2>4, <2>5, <2>6
<1>5. ASSUME NEW s \in Steps, CheckpointStep(t, s)
      PROVE  /\ TurnsOnce' /\ ForwardPrefix' /\ UnwindOrder' /\ OutcomeIsTrue'
             /\ LedgerOneStepAhead' /\ EventsMatchCheckpoints'
             /\ owner # None /\ Current = "RUNNING" /\ LoadForwardOutputs = todo[t]
  <2> USE <1>5 DEF CheckpointStep, row
  <2>1. owner # None /\ Current = "RUNNING" /\ t = token
    BY DEF WriteGuard, Owns, Fencing, Current, Tokens
  <2>2. LoadForwardOutputs = todo[t] /\ s \notin forward
    BY DEF WriteGuard, OwnerSeesCheckpoints, IsNext, LoadForwardOutputs
  <2>3. TurnsOnce' /\ OutcomeIsTrue'
    BY <2>1 DEF TurnsOnce, Current, OutcomeIsTrue, Fencing
  <2>4. ForwardPrefix'
    BY IsNextForward DEF ForwardPrefix, Steps
  <2>5. compensated = {} /\ reversed = {}
    BY <2>1 DEF TurnsOnce
  <2>6. UnwindOrder'
    BY <2>5 DEF UnwindOrder
  <2>7. LedgerOneStepAhead'
    BY <2>5 DEF LedgerOneStepAhead, ZombiesLagBehind
  <2>8. EventsMatchCheckpoints'
    <3>1. ctx[t].buf = 1
      BY DEF EventBuffers
    <3>2. outbox[<<s, "FORWARD">>] = 0
      BY <2>2 DEF EventsMatchCheckpoints
    <3>3. \A r \in Steps, k \in Kinds :
            outbox'[<<r, k>>] = IF r = s /\ k = "FORWARD" THEN 1 ELSE outbox[<<r, k>>]
      BY <3>1, <3>2 DEF Kinds
    <3> QED
      BY <3>3 DEF EventsMatchCheckpoints, Kinds
  <2> QED
    BY <2>1, <2>2, <2>3, <2>4, <2>6, <2>7, <2>8
<1>6. ASSUME NEW s \in Steps, CommitStep(t, s) PROVE IInv'
  <2> USE <1>6 DEF CommitStep, CheckpointStep, row
  <2>1. Fencing'
    BY DEF Fencing
  <2>2. OwnerSeesCheckpoints'
    BY <1>5 DEF OwnerSeesCheckpoints, WriteGuard, Owns, LoadForwardOutputs
  <2>3. ZombiesLagBehind'
    BY <1>5 DEF ZombiesLagBehind, IsNext, LoadForwardOutputs, TurnsOnce
  <2>4. EventBuffers' /\ Directions'
    BY DEF EventBuffers, Directions, Contexts
  <2> QED
    BY <1>5, <2>1, <2>2, <2>3, <2>4
<1>7. ASSUME NEW s \in Steps, NEW c \in BOOLEAN, CommitReplyLost(t, s, c) PROVE IInv'
  <2> USE <1>7 DEF CommitReplyLost, CheckpointStep, row
  <2>1. Fencing'
    BY DEF Fencing
  <2>2. OwnerSeesCheckpoints'
    BY DEF OwnerSeesCheckpoints, WriteGuard, Owns
  <2>3. ZombiesLagBehind'
    BY <1>5 DEF ZombiesLagBehind, IsNext, TurnsOnce
  <2>4. EventBuffers' /\ Directions'
    BY DEF EventBuffers, Directions, Contexts
  <2> QED
    BY <1>5, <2>1, <2>2, <2>3, <2>4
<1>8. ASSUME NEW c \in BOOLEAN, FailStep(t, c) PROVE IInv'
  <2> USE <1>8 DEF FailStep, row, store
  <2>1. OwnerSeesCheckpoints'
    BY DEF OwnerSeesCheckpoints, Owns, LoadForwardOutputs, LoadUnwindState
  <2>2. ZombiesLagBehind'
    BY DEF ZombiesLagBehind, IsNext
  <2>3. EventBuffers' /\ Directions'
    BY DEF EventBuffers, Directions, Contexts
  <2> QED
    BY <2>1, <2>2, <2>3, LocalFrame
<1>9. ASSUME MarkSuccess(t)
      PROVE  /\ owner # None /\ owner' = None /\ status' = "SUCCESS"
             /\ TurnsOnce' /\ OutcomeIsTrue'
  <2> USE <1>9 DEF MarkSuccess, AtFinish, Release
  <2>1. owner # None /\ status = "RUNNING"
    BY DEF WriteGuard, Owns, Fencing, Tokens
  <2>2. forward = Steps
    BY DEF WriteGuard, OwnerSeesCheckpoints, LoadForwardOutputs
  <2>3. OutcomeIsTrue'
    BY <2>2 DEF OutcomeIsTrue, LedgerOneStepAhead, store
  <2>4. TurnsOnce'
    BY <2>1 DEF TurnsOnce, Current, Unwound, store
  <2> QED
    BY <2>1, <2>3, <2>4
<1>10. ASSUME NEW c \in BOOLEAN, FinishReplyLost(t, c) PROVE IInv'
  <2> USE <1>10 DEF FinishReplyLost, FinishFailing, MarkSuccess
  <2>1. Fencing'
    BY <1>9 DEF Fencing, AtFinish
  <2>2. OwnerSeesCheckpoints'
    BY <1>9 DEF OwnerSeesCheckpoints, Owns, Fencing, Tokens
  <2>3. ZombiesLagBehind'
    BY DEF ZombiesLagBehind, IsNext, store
  <2>4. EventBuffers' /\ Directions'
    BY DEF EventBuffers, Directions, Contexts, AtFinish, store
  <2> QED
    BY <1>9, <2>1, <2>2, <2>3, <2>4, StoreFrame
<1>11. ASSUME NEW c \in BOOLEAN, FinishError(t, c) PROVE IInv'
  <2> USE <1>11 DEF FinishError, FinishFailing, AtFinish, row, store
  <2>1. OwnerSeesCheckpoints'
    BY DEF OwnerSeesCheckpoints, Owns, LoadForwardOutputs, LoadUnwindState
  <2>2. ZombiesLagBehind'
    BY DEF ZombiesLagBehind, IsNext
  <2>3. EventBuffers' /\ Directions'
    BY DEF EventBuffers, Directions, Contexts
  <2> QED
    BY <2>1, <2>2, <2>3, LocalFrame
<1>12. CASE FinishSuccess(t)
  <2> USE <1>12 DEF FinishSuccess, MarkSuccess, AtFinish
  <2>1. Fencing'
    BY <1>9, EndFrame DEF Fencing
  <2> QED
    BY <1>9, <2>1, EndFrame
<1>13. CASE ScheduleRetry(t) \/ BeginCompensation(t)
  <2> USE <1>13 DEF ScheduleRetry, BeginCompensation, Release
  <2>1. owner # None /\ t = token /\ status \in {"RUNNING", "COMPENSATING"}
    BY DEF WriteGuard, Owns, Fencing, Tokens
  <2>2. status' \in {"PENDING", "COMPENSATING"} /\ owner' = None
    OBVIOUS
  <2>3. Fencing'
    BY <2>2, EndFrame DEF Fencing
  <2>4. Current = "RUNNING"
    BY <2>1 DEF Directions, Current, Tokens
  <2>5. TurnsOnce' /\ OutcomeIsTrue'
    BY <2>2, <2>4 DEF TurnsOnce, Current, OutcomeIsTrue, store
  <2> QED
    BY <2>2, <2>3, <2>5, EndFrame
<1> QED
  BY <1>1, <1>2, <1>3, <1>4, <1>6, <1>7, <1>8, <1>10, <1>11, <1>12, <1>13 DEF Forward

(* The unwinding half: <1>1 says what passing the write guard implies, and *)
(* <1>7 that the undo committed is the last one outstanding.               *)
LEMMA UnwindInductive ==
  ASSUME IInv, TypeOK', NEW t \in Tokens, Unwind(t)
  PROVE  IInv'
<1> USE StepsAssumption, WorkersAssumption, LimitsAssumption DEF IInv, TypeOK, Goto
<1>1. ASSUME WriteGuard(t), mode[t] = "COMPENSATING"
      PROVE  owner # None /\ t = token /\ Current = "COMPENSATING" /\ status = "COMPENSATING"
  BY <1>1 DEF WriteGuard, Owns, Fencing, Current, Tokens
<1>2. CASE Defer(t)
  <2> USE <1>2 DEF Defer, Release
  <2>1. Fencing' /\ TurnsOnce' /\ OutcomeIsTrue'
    BY EndFrame DEF Fencing, TurnsOnce, Current, OutcomeIsTrue, store
  <2> QED
    BY <2>1, EndFrame
<1>3. CASE LoadUnwind(t)
  <2> USE <1>3 DEF LoadUnwind, row, store
  <2>1. OwnerSeesCheckpoints'
    BY DEF OwnerSeesCheckpoints, Owns, LoadForwardOutputs, LoadUnwindState
  <2>2. ZombiesLagBehind'
    BY DEF ZombiesLagBehind, IsNext, LoadUnwindState
  <2>3. EventBuffers' /\ Directions'
    BY DEF EventBuffers, Directions
  <2> QED
    BY <2>1, <2>2, <2>3, LocalFrame
<1>4. ASSUME NEW n \in 0..CompMaxAttempts,
             pc[t] \in Loaded, todo[t] # {}, Goto(t, "invoking"),
             ctx' = [ctx EXCEPT ![t].tries = n, ![t].buf = 0],
             UNCHANGED <<status, owner, token, store, by, mode, todo>>
      PROVE  IInv'
  <2> USE <1>4 DEF store
  <2>1. OwnerSeesCheckpoints'
    BY DEF OwnerSeesCheckpoints, Owns, LoadForwardOutputs, LoadUnwindState
  <2>2. ZombiesLagBehind'
    BY DEF ZombiesLagBehind, IsNext
  <2>3. EventBuffers' /\ Directions'
    BY DEF EventBuffers, Directions, Contexts
  <2> QED
    BY <2>1, <2>2, <2>3, LocalFrame
<1>5. CASE StartCompensation(t) \/ RetryCompensation(t)
  <2>1. ctx[t].tries \in 0..CompMaxAttempts /\ 1 \in 0..CompMaxAttempts
    BY DEF Contexts
  <2>2. CASE StartCompensation(t)
    BY <1>4, <2>1, <2>2 DEF StartCompensation
  <2>3. CASE RetryCompensation(t)
    <3>1. ctx[t].tries + 1 \in 0..CompMaxAttempts
      BY <2>1, <2>3 DEF RetryCompensation
    <3>2. todo[t] # {}
      BY <2>3 DEF RetryCompensation, Directions
    <3> QED
      BY <1>4, <3>1, <3>2, <2>3 DEF RetryCompensation
  <2> QED
    BY <1>5, <2>2, <2>3
<1>6. ASSUME NEW s \in Steps, CompensationEffect(t, s) PROVE IInv'
  <2> USE <1>6 DEF CompensationEffect, row
  <2>1. Fencing' /\ TurnsOnce' /\ OutcomeIsTrue'
    BY DEF Fencing, TurnsOnce, Current, OutcomeIsTrue
  <2>2. OwnerSeesCheckpoints'
    BY DEF OwnerSeesCheckpoints, Owns, LoadForwardOutputs, LoadUnwindState
  <2>3. ZombiesLagBehind'
    <3>1. \A r \in Steps : IsNext(t, r) => r = s
      BY IsNextUnique
    <3>2. \A u \in Tokens, r \in Steps : IsNext(u, r)' <=> IsNext(u, r)
      BY DEF IsNext
    <3> QED
      BY <3>1, <3>2 DEF ZombiesLagBehind
  <2>4. EventBuffers' /\ Directions'
    BY DEF EventBuffers, Directions, Contexts
  <2>5. LedgerOneStepAhead'
    BY IsNextUnwind DEF LedgerOneStepAhead
  <2>6. ForwardPrefix' /\ UnwindOrder' /\ EventsMatchCheckpoints'
    BY DEF ForwardPrefix, UnwindOrder, EventsMatchCheckpoints
  <2> QED
    BY <2>1, <2>2, <2>3, <2>4, <2>5, <2>6
<1>7. ASSUME NEW s \in Steps, CommitCompensation(t, s) PROVE IInv'
  <2> USE <1>7 DEF CommitCompensation, row
  <2>1. t = token /\ todo[t] = LoadUnwindState /\ s \in LoadUnwindState
    BY DEF WriteGuard, Owns, OwnerSeesCheckpoints, IsNext
  <2>2. Fencing'
    BY DEF Fencing
  <2>3. TurnsOnce' /\ OutcomeIsTrue'
    BY <1>1 DEF TurnsOnce, Current, OutcomeIsTrue
  <2>4. OwnerSeesCheckpoints'
    BY <2>1 DEF OwnerSeesCheckpoints, Owns, LoadForwardOutputs, LoadUnwindState
  <2>5. ZombiesLagBehind'
    BY <2>1 DEF ZombiesLagBehind, IsNext, LoadUnwindState
  <2>6. EventBuffers' /\ Directions'
    BY DEF EventBuffers, Directions, Contexts
  <2>7. ForwardPrefix'
    BY DEF ForwardPrefix
  <2>8. UnwindOrder'
    BY <2>1, IsNextUnwind DEF UnwindOrder, LoadUnwindState
  <2>9. LedgerOneStepAhead'
    BY DEF LedgerOneStepAhead, ZombiesLagBehind
  <2>10. EventsMatchCheckpoints'
    <3>1. ctx[t].buf = 1
      BY DEF EventBuffers
    <3>2. outbox[<<s, "COMPENSATION">>] = 0
      BY <2>1 DEF EventsMatchCheckpoints, LoadUnwindState
    <3>3. \A r \in Steps, k \in Kinds :
            outbox'[<<r, k>>] = IF r = s /\ k = "COMPENSATION" THEN 1
                                                             ELSE outbox[<<r, k>>]
      BY <3>1, <3>2 DEF Kinds
    <3> QED
      BY <3>3 DEF EventsMatchCheckpoints, Kinds
  <2> QED
    BY <2>2, <2>3, <2>4, <2>5, <2>6, <2>7, <2>8, <2>9, <2>10
<1>8. CASE GiveUpCompensation(t) \/ MissingStep(t)
  <2> USE <1>8 DEF GiveUpCompensation, MissingStep, row, store
  <2>1. OwnerSeesCheckpoints'
    BY DEF OwnerSeesCheckpoints, Owns, LoadForwardOutputs, LoadUnwindState
  <2>2. ZombiesLagBehind'
    BY DEF ZombiesLagBehind, IsNext
  <2>3. EventBuffers' /\ Directions'
    BY DEF EventBuffers, Directions
  <2> QED
    BY <2>1, <2>2, <2>3, LocalFrame
<1>9. CASE FinishCompensated(t)
  <2> USE <1>9 DEF FinishCompensated, AtFinish, Release
  <2>1. compensated = forward \cap Compensable
    BY DEF WriteGuard, OwnerSeesCheckpoints, LoadUnwindState, UnwindOrder
  <2>2. OutcomeIsTrue'
    BY <2>1 DEF OutcomeIsTrue, LedgerOneStepAhead, store
  <2>3. Fencing' /\ TurnsOnce'
    BY <1>1, EndFrame DEF Fencing, TurnsOnce, Current, Unwound, store
  <2> QED
    BY <2>2, <2>3, EndFrame
<1>10. CASE FailDirty(t)
  <2> USE <1>10 DEF FailDirty, Release
  <2>1. mode[t] = "COMPENSATING"
    BY DEF Directions
  <2>2. Fencing' /\ TurnsOnce' /\ OutcomeIsTrue'
    BY <1>1, <2>1, EndFrame DEF Fencing, TurnsOnce, Current, Unwound, OutcomeIsTrue, store
  <2> QED
    BY <2>2, EndFrame
<1> QED
  BY <1>2, <1>3, <1>5, <1>6, <1>7, <1>8, <1>9, <1>10 DEF Unwind

(* The invariant holds of a submitted row.                                 *)
LEMMA InitInductive == Init => IInv
<1> SUFFICES ASSUME Init PROVE IInv
  OBVIOUS
<1>1. TypeOK
  BY InitType
<1>2. Fencing /\ TurnsOnce
  BY WorkersAssumption, LimitsAssumption DEF Init, Fencing, TurnsOnce, Current, Tokens
<1>3. OwnerSeesCheckpoints /\ ZombiesLagBehind /\ Directions /\ EventBuffers
  BY DEF Init, OwnerSeesCheckpoints, ZombiesLagBehind, Directions, EventBuffers
<1>4. ForwardPrefix /\ UnwindOrder /\ OutcomeIsTrue /\ LedgerOneStepAhead
  BY DEF Init, ForwardPrefix, UnwindOrder, OutcomeIsTrue, LedgerOneStepAhead
<1>5. EventsMatchCheckpoints
  BY DEF Init, EventsMatchCheckpoints, Kinds
<1> QED
  BY <1>1, <1>2, <1>3, <1>4, <1>5 DEF IInv

(* Steps that change nothing.                                              *)
LEMMA StutterInductive == IInv /\ UNCHANGED vars => IInv'
<1> SUFFICES ASSUME IInv, UNCHANGED vars PROVE IInv'
  OBVIOUS
<1> USE DEF IInv, vars, row, store, run
<1>1. TypeOK' /\ Fencing' /\ TurnsOnce' /\ OutcomeIsTrue'
  BY DEF TypeOK, Fencing, TurnsOnce, Current, OutcomeIsTrue
<1>2. OwnerSeesCheckpoints'
  BY DEF OwnerSeesCheckpoints, Owns, LoadForwardOutputs, LoadUnwindState
<1>3. ZombiesLagBehind' /\ Directions' /\ EventBuffers'
  BY DEF ZombiesLagBehind, IsNext, Directions, EventBuffers
<1> QED
  BY <1>1, <1>2, <1>3, StoreFrame

(* Every step of the system preserves the invariant.                       *)
LEMMA NextInductive == IInv /\ [Next]_vars => IInv'
<1> SUFFICES ASSUME IInv, [Next]_vars PROVE IInv'
  OBVIOUS
<1>1. TypeOK'
  BY NextType DEF IInv
<1>2. CASE \E w \in Workers : Claim(w)
  BY <1>1, <1>2, ClaimInductive
<1>3. CASE CancelWorkflow \/ LeaseExpires \/ RunAfterPasses
  BY <1>1, <1>3, EnvironmentInductive
<1>4. ASSUME NEW t \in Tokens, Execute(t) PROVE IInv'
  BY <1>1, <1>4, ForwardInductive, UnwindInductive, EndInductive DEF Execute
<1>5. ASSUME NEW t \in Tokens, RenewLease(t) \/ RenewLost(t) \/ Abandon(t) PROVE IInv'
  BY <1>1, <1>5, RenewalInductive, EndInductive
<1>6. CASE Finished \/ UNCHANGED vars
  BY <1>6, StutterInductive DEF Finished
<1> QED
  BY <1>2, <1>3, <1>4, <1>5, <1>6 DEF Next

(* IInv, the conjunction behind all the safety properties, is inductive:   *)
(* it holds of a submitted row and is kept by every claim, cancel, expiry, *)
(* renewal, crash and executor step, for any number of each.               *)
THEOREM Inductive == Spec => []IInv
  BY InitInductive, NextInductive, PTL DEF Spec

(* The outputs execute_workflow loads at its start stay exact for as long  *)
(* as the execution owns the row, in spite of every zombie.                *)
THEOREM OwnerMemoryExact == Spec => []OwnerSeesCheckpoints
<1>1. IInv => OwnerSeesCheckpoints
  BY DEF IInv
<1> QED
  BY <1>1, Inductive, PTL

(* The FORWARD checkpoints are a prefix of the definition's steps.         *)
THEOREM PrefixCommitted == Spec => []ForwardPrefix
<1>1. IInv => ForwardPrefix
  BY DEF IInv
<1> QED
  BY <1>1, Inductive, PTL

(* Steps are undone newest first and only if committed, across crashes and *)
(* takeovers in the middle of an unwind.                                   *)
THEOREM UndoneNewestFirst == Spec => []UnwindOrder
<1>1. IInv => UnwindOrder
  BY DEF IInv
<1> QED
  BY <1>1, Inductive, PTL

(* No undo is ever recorded or posted while the row is PENDING, RUNNING or *)
(* SUCCESS, even with zombie unwinds about.                                *)
THEOREM NoUndoWhileRunningForward == Spec => []NoUndoWhileForward
<1>1. IInv => NoUndoWhileForward
  <2> SUFFICES ASSUME IInv, status \notin Unwound PROVE compensated = {} /\ reversed = {}
    BY DEF NoUndoWhileForward
  <2>1. Current \in {"RUNNING", "COMPENSATING"}
    BY DEF Current, IInv, TypeOK, Tokens
  <2> QED
    BY <2>1 DEF IInv, TurnsOnce
<1> QED
  BY <1>1, Inductive, PTL

(* SUCCESS and COMPENSATED tell the truth about step_outputs.              *)
THEOREM TruthfulOutcome == Spec => []OutcomeIsTrue
<1>1. IInv => OutcomeIsTrue
  BY DEF IInv
<1> QED
  BY <1>1, Inductive, PTL

(* The ledger is never more than one step ahead of the checkpoints, in     *)
(* either direction, however many executions post to it.                   *)
THEOREM LedgerBounded == Spec => []LedgerOneStepAhead
<1>1. IInv => LedgerOneStepAhead
  BY DEF IInv
<1> QED
  BY <1>1, Inductive, PTL

(* commit_step_output and commit_compensation_output leave one event per   *)
(* checkpoint and none without one.                                        *)
THEOREM ExactlyOneEvent == Spec => []EventsMatchCheckpoints
<1>1. IInv => EventsMatchCheckpoints
  BY DEF IInv
<1> QED
  BY <1>1, Inductive, PTL

(* Nobody owns a terminal row, so every guarded write to it is rejected.   *)
LEMMA TerminalUnowned ==
  ASSUME IInv, status \in Terminal, NEW t \in Tokens
  PROVE  ~Owns(t)
  BY WorkersAssumption DEF IInv, Fencing, Owns, Terminal, Tokens, TypeOK

(* Once the row is SUCCESS, COMPENSATED or FAILED_DIRTY no step of any     *)
(* worker, zombie or API call changes it or its checkpoints.               *)
THEOREM TerminalStaysTerminal == Spec => TerminalIsFinal
<1>1. IInv /\ [Next]_vars =>
        [(status \in Terminal) =>
            UNCHANGED <<status, owner, token, forward, compensated, outbox>>]_vars
  <2> SUFFICES ASSUME IInv, Next, status \in Terminal
               PROVE  UNCHANGED <<status, owner, token, forward, compensated, outbox>>
    OBVIOUS
  <2>1. \A t \in Tokens : ~WriteGuard(t)
    BY TerminalUnowned DEF WriteGuard
  <2>2. CASE \E w \in Workers : Claim(w)
    BY <2>2 DEF Claim, Claimable, Terminal
  <2>3. CASE CancelWorkflow \/ LeaseExpires \/ RunAfterPasses
    BY <2>3 DEF CancelWorkflow, LeaseExpires, RunAfterPasses, Terminal, store
  <2>4. ASSUME NEW t \in Tokens, Forward(t)
        PROVE  UNCHANGED <<status, owner, token, forward, compensated, outbox>>
    BY <2>1, <2>4 DEF Forward, UnknownType, LoadForward, StartStep, StepEffect, CommitStep,
       CommitReplyLost, CheckpointStep, FailStep, FinishReplyLost, FinishError, FinishSuccess,
       MarkSuccess, ScheduleRetry, BeginCompensation, row, store
  <2>5. ASSUME NEW t \in Tokens, Unwind(t)
        PROVE  UNCHANGED <<status, owner, token, forward, compensated, outbox>>
    BY <2>1, <2>5 DEF Unwind, Defer, LoadUnwind, StartCompensation, CompensationEffect,
       CommitCompensation, RetryCompensation, GiveUpCompensation, MissingStep,
       FinishCompensated, FailDirty, row, store
  <2>6. ASSUME NEW t \in Tokens, Preempted(t) \/ RenewLease(t) \/ RenewLost(t) \/ Abandon(t)
        PROVE  UNCHANGED <<status, owner, token, forward, compensated, outbox>>
    BY <2>6 DEF Preempted, RenewLease, RenewLost, Abandon, row, store
  <2>7. CASE Finished
    BY <2>7 DEF Finished, vars, row, store
  <2> QED
    BY <2>2, <2>3, <2>4, <2>5, <2>6, <2>7 DEF Next, Execute
<1> QED
  BY <1>1, Inductive, PTL DEF Spec, TerminalIsFinal

-----------------------------------------------------------------------------
(* The refinement: the row and its checkpoints follow SagaLifecycle.       *)

(* A submitted row is an initial state of the sequential saga.             *)
LEMMA LifecycleInit == Init => Lifecycle!Init
  BY LimitsAssumption DEF Init, Lifecycle!Init, Turned

(* Every step maps to one step of the sequential saga or to none: a claim  *)
(* starts or turns it, the guarded writes are its other steps, and the     *)
(* rest (loading, effects, renewals, failures, crashes) is invisible.      *)
LEMMA LifecycleStep == IInv /\ [Next]_vars => [Lifecycle!Next]_(Lifecycle!vars)
<1> SUFFICES ASSUME IInv, [Next]_vars
             PROVE  Lifecycle!Next \/ UNCHANGED Lifecycle!vars
  OBVIOUS
<1> DEFINE Same == UNCHANGED <<status, forward, compensated, token, mode>>
<1> USE WorkersAssumption, LimitsAssumption DEF IInv, TypeOK
<1>1. Same => UNCHANGED Lifecycle!vars
  BY DEF Lifecycle!vars, Turned
<1>2. Turned \in BOOLEAN /\ (Turned <=> Current = "COMPENSATING")
  BY DEF Turned, Current
<1>3. ASSUME NEW w \in Workers, Claim(w)
      PROVE  Lifecycle!Next \/ UNCHANGED Lifecycle!vars
  <2> USE <1>3 DEF Claim, Goto
  <2>1. token + 1 \in Tokens /\ token' > 0 /\ mode'[token'] = ClaimedStatus
    BY DEF Tokens
  <2>2. CASE status = "PENDING"
    <3>1. ~Turned /\ ~Turned'
      BY <1>2, <2>1, <2>2 DEF Turned, TurnsOnce, ClaimedStatus, Unwound
    <3>2. UNCHANGED Turned
      BY <3>1 DEF Turned
    <3> QED
      BY <2>2, <3>2 DEF Lifecycle!Next, Lifecycle!Start, ClaimedStatus, store
  <2>3. CASE status = "RUNNING"
    <3>1. ~Turned /\ ~Turned'
      BY <1>2, <2>1, <2>3 DEF Turned, TurnsOnce, ClaimedStatus, Unwound
    <3>2. UNCHANGED Turned
      BY <3>1 DEF Turned
    <3> QED
      BY <2>3, <3>2 DEF Lifecycle!vars, ClaimedStatus, store
  <2>4. CASE status = "COMPENSATING"
    <3>1. Turned'
      BY <2>1, <2>4 DEF Turned, ClaimedStatus
    <3> QED
      BY <1>2, <2>4, <3>1 DEF Lifecycle!Next, Lifecycle!Turn, Lifecycle!vars, ClaimedStatus, store
  <2> QED
    BY <2>2, <2>3, <2>4 DEF Claimable
<1>4. CASE CancelWorkflow
  BY <1>4 DEF CancelWorkflow, Lifecycle!Next, Lifecycle!Compensate, Turned, store, run
<1>5. CASE LeaseExpires \/ RunAfterPasses
  BY <1>1, <1>5 DEF LeaseExpires, RunAfterPasses, store, run
<1>6. ASSUME NEW t \in Tokens, Forward(t)
      PROVE  Lifecycle!Next \/ UNCHANGED Lifecycle!vars
  <2>1. ASSUME NEW s \in Steps, CheckpointStep(t, s)
        PROVE  Lifecycle!Commit(s)
    <3> USE <2>1 DEF CheckpointStep, row
    <3>1. ~Turned /\ status \in {"RUNNING", "COMPENSATING"}
      BY <1>2 DEF WriteGuard, Owns, Fencing, Current, Tokens
    <3>2. s \in Steps \ forward
      BY DEF WriteGuard, OwnerSeesCheckpoints, LoadForwardOutputs, IsNext
    <3>3. 1..(s - 1) \subseteq forward
      BY IsNextForward
    <3>4. UNCHANGED Turned
      BY DEF Turned
    <3> QED
      BY <3>1, <3>2, <3>3, <3>4 DEF Lifecycle!Commit, Lifecycle!Steps, Steps
  <2>2. ASSUME MarkSuccess(t) PROVE Lifecycle!Succeed
    <3> USE <2>2 DEF MarkSuccess, AtFinish
    <3>1. status = "RUNNING"
      BY DEF WriteGuard
    <3>2. forward = Steps
      BY DEF WriteGuard, OwnerSeesCheckpoints, LoadForwardOutputs
    <3> QED
      BY <3>1, <3>2 DEF Lifecycle!Succeed, Lifecycle!Steps, Steps, Turned, store
  <2>3. CASE ScheduleRetry(t) \/ BeginCompensation(t)
    <3> USE <2>3 DEF ScheduleRetry, BeginCompensation
    <3>1. ~Turned /\ status \in {"RUNNING", "COMPENSATING"}
      BY <1>2 DEF WriteGuard, Owns, Fencing, Current, Directions, Tokens
    <3>2. UNCHANGED <<forward, compensated, Turned>>
      BY DEF store, Turned
    <3> QED
      BY <3>1, <3>2 DEF Lifecycle!Next, Lifecycle!Retry, Lifecycle!Compensate, Lifecycle!vars
  <2>4. CASE UnknownType(t) \/ LoadForward(t) \/ StartStep(t)
    BY <1>1, <2>4 DEF UnknownType, LoadForward, StartStep, row, store
  <2>5. ASSUME NEW s \in Steps, StepEffect(t, s) PROVE UNCHANGED Lifecycle!vars
    BY <1>1, <2>5 DEF StepEffect, row
  <2>6. ASSUME NEW c \in BOOLEAN, FailStep(t, c) \/ FinishError(t, c)
        PROVE  UNCHANGED Lifecycle!vars
    BY <1>1, <2>6 DEF FailStep, FinishError, row, store
  <2> QED
    BY <1>6, <2>1, <2>2, <2>3, <2>4, <2>5, <2>6 DEF Forward, CommitStep, CommitReplyLost,
       FinishReplyLost, FinishSuccess, Lifecycle!Next, Lifecycle!Steps, Steps
<1>7. ASSUME NEW t \in Tokens, Unwind(t)
      PROVE  Lifecycle!Next \/ UNCHANGED Lifecycle!vars
  <2>1. ASSUME WriteGuard(t), mode[t] = "COMPENSATING"
        PROVE  Turned /\ status = "COMPENSATING"
    BY <1>2, <2>1 DEF WriteGuard, Owns, Current, Tokens
  <2>2. ASSUME WriteGuard(t), mode[t] = "COMPENSATING", pc[t] \in Loaded
        PROVE  todo[t] = Lifecycle!Outstanding
    BY <2>2 DEF WriteGuard, OwnerSeesCheckpoints, LoadUnwindState, Lifecycle!Outstanding
  <2>3. ASSUME NEW s \in Steps, CommitCompensation(t, s) PROVE Lifecycle!Undo(s)
    <3> USE <2>3 DEF CommitCompensation, row
    <3>1. Turned /\ status = "COMPENSATING" /\ UNCHANGED Turned
      BY <2>1 DEF Turned
    <3>2. s \in Lifecycle!Outstanding /\ \A r \in Lifecycle!Outstanding : r <= s
      BY <2>2 DEF IsNext
    <3> QED
      BY <3>1, <3>2 DEF Lifecycle!Undo
  <2>4. CASE FinishCompensated(t)
    <3> USE <2>4 DEF FinishCompensated, AtFinish
    <3>1. Turned /\ status = "COMPENSATING" /\ UNCHANGED Turned
      BY <2>1 DEF Turned
    <3>2. Lifecycle!Outstanding = {}
      BY <2>2
    <3> QED
      BY <3>1, <3>2 DEF Lifecycle!Next, Lifecycle!Compensated, store
  <2>5. CASE FailDirty(t)
    <3> USE <2>5 DEF FailDirty
    <3>1. mode[t] = "COMPENSATING" /\ (todo[t] # {} \/ forward \ Compensable # {})
      BY DEF Directions
    <3>2. Turned /\ status = "COMPENSATING" /\ UNCHANGED Turned
      BY <2>1, <3>1 DEF Turned
    <3>3. forward \ compensated # {}
      BY <2>2, <3>1 DEF UnwindOrder, Lifecycle!Outstanding
    <3> QED
      BY <3>2, <3>3 DEF Lifecycle!Next, Lifecycle!GiveUp, store
  <2>6. CASE Defer(t) \/ LoadUnwind(t) \/ StartCompensation(t)
    BY <1>1, <2>6 DEF Defer, LoadUnwind, StartCompensation, row, store
  <2>7. CASE RetryCompensation(t) \/ GiveUpCompensation(t) \/ MissingStep(t)
    BY <1>1, <2>7 DEF RetryCompensation, GiveUpCompensation, MissingStep, row, store
  <2>8. ASSUME NEW s \in Steps, CompensationEffect(t, s) PROVE UNCHANGED Lifecycle!vars
    BY <1>1, <2>8 DEF CompensationEffect, row
  <2> QED
    BY <1>7, <2>3, <2>4, <2>5, <2>6, <2>7, <2>8 DEF Unwind, Lifecycle!Next, Lifecycle!Steps, Steps
<1>8. ASSUME NEW t \in Tokens, Preempted(t) \/ RenewLease(t) \/ RenewLost(t) \/ Abandon(t)
      PROVE  UNCHANGED Lifecycle!vars
  BY <1>1, <1>8 DEF Preempted, RenewLease, RenewLost, Abandon, row, store, run
<1>9. CASE Finished \/ UNCHANGED vars
  BY <1>1, <1>9 DEF Finished, vars, row, store, run
<1> QED
  BY <1>3, <1>4, <1>5, <1>6, <1>7, <1>8, <1>9 DEF Next, Execute

(* The engine, with any number of workers, leases, crashes and zombies,    *)
(* implements the single sequential executor of SagaLifecycle.             *)
THEOREM RefinesLifecycle == Spec => ImplementsLifecycle
  BY LifecycleInit, LifecycleStep, Inductive, PTL DEF Spec, ImplementsLifecycle, Lifecycle!Spec
=============================================================================
