---------------------------- MODULE BreakerProofs ----------------------------
(***************************************************************************)
(* Safety of the circuit breaker, for any number of concurrent requests,   *)
(* any threshold and whatever becomes of Redis.                            *)
(***************************************************************************)
EXTENDS Breaker, TLAPS, FiniteSetTheorems

USE RequestsAssumption, ThresholdAssumption, ConditionsAssumption, BoundsAssumption

LEMMA InitInductive == Init => IInv
<1> SUFFICES ASSUME Init PROVE IInv
  OBVIOUS
<1>1. TypeOK
  <2>1. cooled \in BOOLEAN
    BY DEF Init
  <2> QED
    BY <2>1 DEF Init, TypeOK
<1>2. {r \in Requests : call[r] = "probe"} = {}
  BY DEF Init
<1>3. ProbeIsAlone
  BY <1>2, FS_EmptySet DEF Init, ProbeIsAlone
<1> QED
  BY <1>1, <1>3 DEF Init, IInv, ReadyIsQuiet, OneProbe

(* Every action preserves the types: the failure counter is reset before   *)
(* it reaches the threshold.                                               *)
LEMMA NextType == TypeOK /\ [Next]_vars => TypeOK'
<1> SUFFICES ASSUME TypeOK, [Next]_vars PROVE TypeOK'
  OBVIOUS
<1> USE DEF TypeOK, breaker, Return
<1>1. ASSUME NEW r \in Requests, Allow(r) \/ Refuse(r) PROVE TypeOK'
  BY <1>1 DEF Allow, AllowClosed, AllowProbe, Refuse, vars
<1>2. ASSUME NEW r \in Requests, Answered(r) \/ ErrorReply(r) PROVE TypeOK'
  BY <1>2 DEF Answered, ErrorReply
<1>3. ASSUME NEW r \in Requests, Unanswered(r) PROVE TypeOK'
  <2>1. CASE Trip
    <3>1. cooled' \in BOOLEAN
      BY <2>1 DEF Trip
    <3>2. /\ state' = "OPEN" /\ failures' = 0 /\ opens' \in {opens, opens + 1}
          /\ opens' <= MaxOpens
      BY <2>1 DEF Trip
    <3> QED
      BY <1>3, <3>1, <3>2 DEF Unanswered
  <2>2. CASE /\ failures + 1 < FailureThreshold /\ failures' = failures + 1
             /\ UNCHANGED <<state, opens, cooled>>
    BY <1>3, <2>2 DEF Unanswered
  <2> QED
    BY <1>3, <2>1, <2>2 DEF Unanswered
<1>4. CASE CooldownEnds \/ RedisChanges
  <2>1. cooled' \in BOOLEAN
    BY <1>4 DEF CooldownEnds, RedisChanges
  <2> QED
    BY <1>4, <2>1 DEF CooldownEnds, RedisChanges
<1>5. CASE UNCHANGED vars
  BY <1>5 DEF vars
<1> QED
  BY <1>1, <1>2, <1>3, <1>4, <1>5 DEF Next, Finish

(* A call that ends leaves the others as they were; if it was the probe,   *)
(* there is none left.                                                     *)
LEMMA ReturnFacts ==
    ASSUME IInv, NEW r \in Requests, Return(r)
    PROVE  /\ \A q \in Requests : call'[q] = IF q = r THEN "none" ELSE call[q]
           /\ state = "HALF_OPEN" => \A q \in Requests : call'[q] = "none"
           /\ \A q \in Requests : call'[q] # "probe"
<1>1. \A q \in Requests : call'[q] = IF q = r THEN "none" ELSE call[q]
  BY DEF IInv, TypeOK, Return
<1>2. state = "HALF_OPEN" => \A q \in Requests : call'[q] = "none"
  BY <1>1 DEF IInv, TypeOK, OneProbe, ProbeIsAlone, Return
<1>3. \A q \in Requests : call'[q] # "probe"
  BY <1>1, <1>2 DEF IInv, ProbeIsAlone
<1> QED
  BY <1>1, <1>2, <1>3

(* The three facts about the calls in flight, apart from the count.        *)
LEMMA NextCalls ==
    ASSUME IInv, TypeOK', [Next]_vars
    PROVE  /\ ReadyIsQuiet' /\ OneProbe'
           /\ state' = "HALF_OPEN" => \A r \in Requests : call'[r] # "ordinary"
           /\ state' # "HALF_OPEN" => \A r \in Requests : call'[r] # "probe"
<1> DEFINE Calls ==
        /\ ReadyIsQuiet /\ OneProbe
        /\ state = "HALF_OPEN" => \A r \in Requests : call[r] # "ordinary"
        /\ state # "HALF_OPEN" => \A r \in Requests : call[r] # "probe"
<1> SUFFICES Calls'
  OBVIOUS
<1>0. Calls
  BY DEF IInv, ProbeIsAlone
<1> USE DEF ReadyIsQuiet, OneProbe, breaker
<1>1. ASSUME NEW r \in Requests, AllowClosed(r) PROVE Calls'
  BY <1>0, <1>1 DEF AllowClosed, IInv, TypeOK
<1>2. ASSUME NEW r \in Requests, AllowProbe(r) PROVE Calls'
  BY <1>0, <1>2 DEF AllowProbe, IInv, TypeOK
<1>3. ASSUME NEW r \in Requests, Answered(r) PROVE Calls'
  BY <1>3, ReturnFacts DEF Answered
<1>4. ASSUME NEW r \in Requests, Unanswered(r) PROVE Calls'
  <2>1. CASE Trip
    BY <1>4, <2>1, ReturnFacts DEF Unanswered, Trip
  <2>2. CASE state # "HALF_OPEN" /\ UNCHANGED <<state, cooled>>
    BY <1>0, <1>4, <2>2, ReturnFacts DEF Unanswered
  <2> QED
    BY <1>4, <2>1, <2>2 DEF Unanswered
<1>5. ASSUME NEW r \in Requests, ErrorReply(r) PROVE Calls'
  BY <1>0, <1>5, ReturnFacts DEF ErrorReply
<1>6. CASE CooldownEnds
  BY <1>0, <1>6 DEF CooldownEnds
<1>7. CASE RedisChanges \/ UNCHANGED vars \/ \E r \in Requests : Refuse(r)
  BY <1>0, <1>7 DEF RedisChanges, Refuse, vars
<1> QED
  BY <1>1, <1>2, <1>3, <1>4, <1>5, <1>6, <1>7 DEF Next, Allow, Finish

LEMMA NextInductive == IInv /\ [Next]_vars => IInv'
<1> SUFFICES ASSUME IInv, [Next]_vars PROVE IInv'
  OBVIOUS
<1>1. TypeOK'
  BY NextType DEF IInv
<1> DEFINE probes == {r \in Requests : call'[r] = "probe"}
<1>2. /\ ReadyIsQuiet' /\ OneProbe'
      /\ state' = "HALF_OPEN" => \A r \in Requests : call'[r] # "ordinary"
      /\ state' # "HALF_OPEN" => \A r \in Requests : call'[r] # "probe"
  BY <1>1, NextCalls
<1>3. probes = {} \/ \E r \in Requests : probes = {r}
  BY <1>2 DEF OneProbe
<1> HIDE DEF probes
<1>4. Cardinality(probes) <= 1
  <2>1. Cardinality(probes) = 0 \/ Cardinality(probes) = 1
    BY <1>3, FS_EmptySet, FS_Singleton
  <2> QED
    BY <2>1
<1>5. ProbeIsAlone'
  BY <1>2, <1>4 DEF ProbeIsAlone, probes
<1> QED
  BY <1>1, <1>2, <1>5 DEF IInv

(* The invariant holds of every behaviour of the breaker.                  *)
THEOREM Inductive == Spec => []IInv
  BY InitInductive, NextInductive, PTL DEF Spec

(* Types, for any number of requests and any threshold; in particular the  *)
(* failure counter stays below the threshold.                              *)
THEOREM TypeCorrect == Spec => []TypeOK
<1>1. IInv => TypeOK
  BY DEF IInv
<1> QED
  BY <1>1, Inductive, PTL

(* A HALF_OPEN circuit has one call in flight at most, and it is the probe.*)
THEOREM OneProbeAlone == Spec => []ProbeIsAlone
<1>1. IInv => ProbeIsAlone
  BY DEF IInv
<1> QED
  BY <1>1, Inductive, PTL

(* A step out of HALF_OPEN is the return of the one call in flight.        *)
LEMMA LeavesByReturn ==
    ASSUME IInv, [Next]_vars, state = "HALF_OPEN"
    PROVE  \/ UNCHANGED <<state, call>>
           \/ \E r \in Requests : call[r] = "probe" /\ call'[r] = "none"
<1>1. ASSUME NEW r \in Requests, Allow(r) \/ Refuse(r) PROVE UNCHANGED <<state, call>>
  BY <1>1 DEF Allow, AllowClosed, AllowProbe, Refuse, vars
<1>2. ASSUME NEW r \in Requests, Finish(r) PROVE call[r] = "probe" /\ call'[r] = "none"
  <2>1. Return(r)
    BY <1>2 DEF Finish, Answered, Unanswered, ErrorReply
  <2> QED
    BY <2>1 DEF Return, IInv, TypeOK, ProbeIsAlone
<1>3. CASE CooldownEnds \/ RedisChanges \/ UNCHANGED vars
  BY <1>3 DEF CooldownEnds, RedisChanges, breaker, vars
<1> QED
  BY <1>1, <1>2, <1>3 DEF Next

(* Only the probe's own return takes the circuit out of HALF_OPEN.         *)
THEOREM ProbeAloneMovesOn == Spec => OnlyTheProbeMovesOn
<1>1. IInv /\ [Next]_vars =>
        [state = "HALF_OPEN" /\ state' # "HALF_OPEN" =>
            \E r \in Requests : call[r] = "probe" /\ call'[r] = "none"]_vars
  BY LeavesByReturn
<1> QED
  BY <1>1, Inductive, PTL DEF Spec, OnlyTheProbeMovesOn

(* A circuit left HALF_OPEN by an error reply stays so until the process   *)
(* is restarted: the finding of the run breaker_wedge is permanent.        *)
THEOREM WedgePermanent == Spec => WedgeIsForever
<1>1. IInv /\ [Next]_vars => [Wedged => Wedged']_vars
  BY LeavesByReturn DEF Wedged
<1> QED
  BY <1>1, Inductive, PTL DEF Spec, WedgeIsForever
=============================================================================
