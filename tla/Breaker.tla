------------------------------- MODULE Breaker -------------------------------
(***************************************************************************)
(* The circuit breaker of one API process (resilience/circuit.py) and the  *)
(* rate limiter's calls through it (resilience/ratelimit.py).              *)
(*                                                                         *)
(* allow, record_success and record_failure run without an await, so each  *)
(* is one step; the Redis call between them is where requests interleave.  *)
(* A call is cut off after budget_seconds, which is far shorter than the   *)
(* cooldown: when a cooldown is over, no call from before it is in flight. *)
(* The size of the cooldown is abstracted to consecutive_opens.            *)
(***************************************************************************)
EXTENDS Integers, FiniteSets

CONSTANTS
    Requests,          \* requests that may be checked at the same time
    FailureThreshold,  \* settings: consecutive failures that open the circuit
    Conditions,        \* what Redis may be: "up", "down" or "erroring"
    MaxOpens,          \* bound: consecutive_opens saturates (growth cap)
    MaxChanges         \* bound: changes of Redis's condition

ASSUME RequestsAssumption == Requests # {}
ASSUME ThresholdAssumption == FailureThreshold \in Nat \ {0}
ASSUME ConditionsAssumption ==
    "up" \in Conditions /\ Conditions \subseteq {"up", "down", "erroring"}
ASSUME BoundsAssumption == MaxOpens \in Nat \ {0} /\ MaxChanges \in Nat

VARIABLES
    state,     \* CircuitBreaker._state
    failures,  \* _consecutive_failures
    opens,     \* _consecutive_opens
    cooled,    \* the cooldown since _opened_at is over
    call,      \* per request: no call in flight, an ordinary one, the probe
    redis,     \* Redis's condition
    changes

vars == <<state, failures, opens, cooled, call, redis, changes>>
breaker == <<state, failures, opens, cooled>>

TypeOK ==
    /\ state \in {"CLOSED", "OPEN", "HALF_OPEN"}
    /\ failures \in 0..(FailureThreshold - 1)
    /\ opens \in 0..MaxOpens
    /\ cooled \in BOOLEAN
    /\ call \in [Requests -> {"none", "ordinary", "probe"}]
    /\ redis \in Conditions
    /\ changes \in 0..MaxChanges

Init ==
    /\ state = "CLOSED" /\ failures = 0 /\ opens = 0 /\ cooled = FALSE
    /\ call = [r \in Requests |-> "none"]
    /\ redis = "up" /\ changes = 0

-----------------------------------------------------------------------------
(* allow                                                                   *)

AllowClosed(r) ==
    /\ call[r] = "none" /\ state = "CLOSED"
    /\ call' = [call EXCEPT ![r] = "ordinary"]
    /\ UNCHANGED <<breaker, redis, changes>>

(* Mutant: the state is left for the probe's result to change.             *)
AllowProbeOpen(r) ==
    /\ call[r] = "none" /\ state = "OPEN" /\ cooled
    /\ call' = [call EXCEPT ![r] = "probe"]
    /\ UNCHANGED <<breaker, redis, changes>>

AllowProbe(r) ==
    /\ call[r] = "none" /\ state = "OPEN" /\ cooled
    /\ state' = "HALF_OPEN"
    /\ call' = [call EXCEPT ![r] = "probe"]
    /\ UNCHANGED <<failures, opens, cooled, redis, changes>>

(* allow returns False: the request is admitted without a check.           *)
Refuse(r) ==
    /\ call[r] = "none"
    /\ state = "HALF_OPEN" \/ (state = "OPEN" /\ ~cooled)
    /\ UNCHANGED vars

-----------------------------------------------------------------------------
(* How the call ends.                                                      *)

Return(r) == call[r] # "none" /\ call' = [call EXCEPT ![r] = "none"]

(* Mutant: a success only clears the counters.                             *)
AnsweredKeepsState(r) ==
    /\ redis = "up" /\ Return(r)
    /\ failures' = 0 /\ opens' = 0
    /\ UNCHANGED <<state, cooled, redis, changes>>

(* A reply, after an EVAL if the script was not cached: record_success.    *)
Answered(r) ==
    /\ redis = "up" /\ Return(r)
    /\ state' = "CLOSED" /\ failures' = 0 /\ opens' = 0
    /\ UNCHANGED <<cooled, redis, changes>>

(* _open                                                                   *)
Trip ==
    /\ state' = "OPEN" /\ failures' = 0 /\ cooled' = FALSE
    /\ opens' = IF opens < MaxOpens THEN opens + 1 ELSE opens

(* Mutants: > for >=; only a probe's failure counts.                       *)
UnansweredOneMore(r) ==
    /\ redis = "down" /\ Return(r)
    /\ IF state = "HALF_OPEN" \/ failures + 1 > FailureThreshold
       THEN Trip
       ELSE failures' = failures + 1 /\ UNCHANGED <<state, opens, cooled>>
    /\ UNCHANGED <<redis, changes>>
UnansweredUncounted(r) ==
    /\ redis = "down" /\ Return(r)
    /\ IF state = "HALF_OPEN" THEN Trip ELSE UNCHANGED breaker
    /\ UNCHANGED <<redis, changes>>

(* A timeout or a transport error: record_failure.                         *)
Unanswered(r) ==
    /\ redis = "down" /\ Return(r)
    /\ IF state = "HALF_OPEN" \/ failures + 1 >= FailureThreshold
       THEN Trip
       ELSE failures' = failures + 1 /\ UNCHANGED <<state, opens, cooled>>
    /\ UNCHANGED <<redis, changes>>

(* Redis replies with an error (ResponseError): nothing is recorded.       *)
ErrorReply(r) ==
    /\ redis = "erroring" /\ Return(r)
    /\ UNCHANGED <<breaker, redis, changes>>

-----------------------------------------------------------------------------
CooldownEnds ==
    /\ state = "OPEN" /\ ~cooled /\ cooled' = TRUE
    /\ \A r \in Requests : call[r] = "none"
    /\ UNCHANGED <<state, failures, opens, call, redis, changes>>

RedisChanges ==
    /\ changes < MaxChanges /\ changes' = changes + 1
    /\ redis' \in Conditions \ {redis}
    /\ UNCHANGED <<breaker, call>>

Finish(r) == Answered(r) \/ Unanswered(r) \/ ErrorReply(r)
Allow(r) == AllowClosed(r) \/ AllowProbe(r)

Next ==
    \/ \E r \in Requests : Allow(r) \/ Refuse(r) \/ Finish(r)
    \/ CooldownEnds \/ RedisChanges

Spec == Init /\ [][Next]_vars

(* Requests keep coming, every call is cut off, and clocks advance.        *)
Fairness ==
    /\ \A r \in Requests : WF_vars(Finish(r)) /\ WF_vars(Allow(r))
    /\ WF_vars(CooldownEnds)

FairSpec == Spec /\ Fairness

-----------------------------------------------------------------------------
(* Properties.                                                             *)

(* One probe, alone: while the circuit is HALF_OPEN one call at most is in *)
(* flight and it is the probe, so the result that moves the circuit on is  *)
(* the probe's and not a late one of an earlier call.                      *)
ProbeIsAlone ==
    /\ Cardinality({r \in Requests : call[r] = "probe"}) <= 1
    /\ state = "HALF_OPEN" => \A r \in Requests : call[r] # "ordinary"
    /\ state # "HALF_OPEN" => \A r \in Requests : call[r] # "probe"

(* Once a Redis that was only ever unreachable is back for good, so is     *)
(* rate limiting, however many late timeouts restart the cooldown.  (After *)
(* an error reply it may not be: see ProbeDecides.)                        *)
RecoversWithRedis ==
    [](redis # "erroring") /\ <>[](redis = "up") => <>[](state = "CLOSED")

(* Once Redis is gone for good, the API stops paying its timeout on every  *)
(* request: the circuit stays out of CLOSED.                               *)
StopsPayingTimeouts == <>[](redis = "down") => <>[](state # "CLOSED")

(* "It succeeds -> CLOSED. It fails -> OPEN": a probe decides.             *)
ProbeDecides == (state = "HALF_OPEN") ~> (state # "HALF_OPEN")

(* "OPEN -- calls are rejected immediately, no socket touched. After a     *)
(* cooldown -> HALF_OPEN": only a probe closes an open circuit.  TLC       *)
(* refutes it (README).                                                    *)
OnlyProbesClose == [][state = "OPEN" => state' # "CLOSED"]_vars

(* A HALF_OPEN circuit is moved on by the probe's return and by nothing    *)
(* else: no late reply, no refusal, no clock.                              *)
OnlyTheProbeMovesOn ==
    [][state = "HALF_OPEN" /\ state' # "HALF_OPEN" =>
          \E r \in Requests : call[r] = "probe" /\ call'[r] = "none"]_vars

(* So a probe that got an error reply was the process's last check: it     *)
(* left the circuit HALF_OPEN with nothing in flight, and nothing that     *)
(* Redis, the clock or a request can do gets it out of there.              *)
Wedged == state = "HALF_OPEN" /\ \A r \in Requests : call[r] = "none"
WedgeIsForever == [][Wedged => Wedged']_vars

-----------------------------------------------------------------------------
(* The inductive invariant.                                                *)

(* A circuit that is ready to probe has no call in flight, since a call's  *)
(* budget is shorter than any cooldown.                                    *)
ReadyIsQuiet == state = "OPEN" /\ cooled => \A r \in Requests : call[r] = "none"

(* No two probes.                                                          *)
OneProbe == \A q, r \in Requests : call[q] = "probe" /\ call[r] = "probe" => q = r

IInv == TypeOK /\ ReadyIsQuiet /\ OneProbe /\ ProbeIsAlone
=============================================================================
