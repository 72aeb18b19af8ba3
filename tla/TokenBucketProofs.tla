-------------------------- MODULE TokenBucketProofs --------------------------
(***************************************************************************)
(* Proofs of the safety properties of TokenBucket, for every capacity,     *)
(* cost and number of callers, and for any skew and latency that the       *)
(* expiry of the key allows for.                                           *)
(***************************************************************************)
EXTENDS TokenBucket, TLAPS

USE BucketAssumption, TimeAssumption, BoundsAssumption

(* Rounding the wait up to whole seconds never shortens it.                *)
LEMMA RetryAfterCovers ==
  ASSUME NEW tokens \in Nat, tokens < Cost
  PROVE  RetryAfter(tokens) \in Nat /\ tokens + RetryAfter(tokens) >= Cost
<1> DEFINE x == Cost - tokens + Second - 1
           q == x \div Second
<1>1. x \in Nat
  OBVIOUS
<1>2. q \in Nat
  BY <1>1
<1>3. x < Second * (q + 1)
  BY <1>1, Z3
<1>4. Second * (q + 1) = Second * q + Second /\ Second * q \in Nat
  BY <1>2
<1>5. Cost - tokens <= Second * q
  BY <1>3, <1>4
<1>6. q >= 1
  BY <1>2, <1>5
<1>7. RetryAfter(tokens) = Second * q
  BY <1>2, <1>6 DEF RetryAfter, AtLeast
<1> QED
  BY <1>4, <1>5, <1>7

(* An untouched bucket satisfies the invariant.                            *)
LEMMA InitInductive == Init => IInv
  BY DEF Init, IInv, TypeOK, Calls, NoCall, CallsInTime, TimeStored, Budget, RetryAfterSuffices

(* When the key is gone, refilling what it held would have filled it.      *)
LEMMA ExpiredIsFull ==
  ASSUME IInv, NEW c \in Callers, calls[c].state = "sent", now >= bucket.expires
  PROVE  Refilled(calls[c].stamp) = Capacity
<1>1. /\ calls[c].stamp \in Int /\ calls[c].due \in Int /\ now \in Nat
      /\ bucket.tokens \in 0..Capacity /\ bucket.ts \in Int /\ bucket.expires \in Int
  BY DEF IInv, TypeOK, Calls
<1>2. now - MaxLatency - MaxSkew <= calls[c].stamp
  BY <1>1 DEF IInv, CallsInTime
<1>3. CASE bucket.tokens = Capacity
  BY <1>1, <1>3 DEF Refilled, AtMost, AtLeast
<1>4. CASE bucket.ts <= bucket.expires - 2 * Capacity + MaxSkew
  <2>1. calls[c].stamp - bucket.ts >= Capacity
    BY <1>1, <1>2, <1>4
  <2> QED
    BY <1>1, <2>1 DEF Refilled, AtMost, AtLeast
<1> QED
  BY <1>3, <1>4 DEF IInv, TimeStored

(* What the script finds: never more than the bucket can hold, never less  *)
(* than it held, and what it adds is paid for by the way ts goes.          *)
LEMMA FoundBounds ==
  ASSUME IInv, NEW c \in Callers, calls[c].state = "sent"
  PROVE  LET s == calls[c].stamp IN
         /\ s \in Int
         /\ Found(s) \in 0..Capacity
         /\ Found(s) = Refilled(s)
         /\ Found(s) - bucket.tokens <= AtLeast(0, s - bucket.ts)
         /\ AtLeast(0, s - bucket.ts) = s - bucket.ts + AtLeast(0, bucket.ts - s)
         /\ AtLeast(0, bucket.ts - s) \in Nat
<1> DEFINE s == calls[c].stamp
<1>1. s \in Int /\ bucket.tokens \in 0..Capacity /\ bucket.ts \in Int
  BY DEF IInv, TypeOK, Calls
<1>2. Found(s) = Refilled(s)
  BY ExpiredIsFull DEF Found
<1>3. Refilled(s) \in 0..Capacity /\ Refilled(s) - bucket.tokens <= AtLeast(0, s - bucket.ts)
  BY <1>1 DEF Refilled, AtMost, AtLeast
<1>4. /\ AtLeast(0, s - bucket.ts) = s - bucket.ts + AtLeast(0, bucket.ts - s)
      /\ AtLeast(0, bucket.ts - s) \in Nat
  BY <1>1 DEF AtLeast
<1> QED
  BY <1>1, <1>2, <1>3, <1>4

(* Running the script keeps the budget and the times.                      *)
LEMMA RunKeeps ==
  ASSUME IInv, NEW c \in Callers, calls[c].state = "sent", Run(calls[c].stamp)
  PROVE  /\ bucket' \in [tokens : 0..Capacity, ts : Int, expires : Int]
         /\ runs' \in Nat /\ spent' \in Nat /\ rewound' \in Nat /\ promises' \subseteq Int
         /\ TimeStored' /\ Budget'
<1> DEFINE s == calls[c].stamp
           f == Found(s)
<1>1. /\ bucket.tokens \in 0..Capacity /\ bucket.ts \in Int /\ bucket.expires \in Int
      /\ now \in Nat /\ spent \in Nat /\ rewound \in Nat /\ issued \in Nat /\ runs \in Nat
      /\ promises \subseteq Int
  BY DEF IInv, TypeOK
<1>2. /\ s \in Int /\ f \in 0..Capacity
      /\ f - bucket.tokens <= s - bucket.ts + AtLeast(0, bucket.ts - s)
      /\ AtLeast(0, bucket.ts - s) \in Nat
  BY FoundBounds
<1>3. PICK k \in {0, Cost} : /\ k <= f
                             /\ bucket' = [tokens |-> f - k, ts |-> s, expires |-> now + 2 * Capacity]
                             /\ spent' = spent + k
  <2>1. CASE Allowed(s)
    BY <2>1, <1>2 DEF Run, Stored, Allowed
  <2>2. CASE ~Allowed(s)
    BY <2>2, <1>2 DEF Run, Stored
  <2> QED
    BY <2>1, <2>2
<1>4. rewound' = rewound + AtLeast(0, bucket.ts - s) /\ issued' = issued /\ now' = now /\ runs' = runs + 1
  BY DEF Run
<1>5. /\ bucket' \in [tokens : 0..Capacity, ts : Int, expires : Int]
      /\ runs' \in Nat /\ spent' \in Nat /\ rewound' \in Nat
  BY <1>1, <1>2, <1>3, <1>4
<1>6. promises' \subseteq Int
  <2>1. CASE Allowed(s)
    BY <2>1 DEF Run
  <2>2. CASE ~Allowed(s)
    <3>1. f < Cost
      BY <2>2, <1>2 DEF Allowed
    <3>2. s + RetryAfter(f) \in Int
      BY <3>1, <1>2, RetryAfterCovers
    <3> QED
      BY <2>2, <3>2, <1>1 DEF Run
  <2> QED
    BY <2>1, <2>2
<1>7. Budget'
  BY <1>1, <1>2, <1>3, <1>4 DEF IInv, Budget
<1>8. TimeStored'
  <2>1. s <= now + MaxSkew
    BY DEF IInv, CallsInTime
  <2> QED
    BY <1>1, <1>2, <1>3, <1>4, <2>1 DEF TimeStored
<1> QED
  BY <1>5, <1>6, <1>7, <1>8

(* A denial keeps every promise made before it and the one it makes.       *)
LEMMA RunKeepsPromises ==
  ASSUME IInv, NEW c \in Callers, calls[c].state = "sent", Run(calls[c].stamp)
  PROVE  RetryAfterSuffices'
<1> DEFINE s == calls[c].stamp
           f == Found(s)
<1>1. CASE Allowed(s)
  BY <1>1 DEF Run, RetryAfterSuffices
<1>2. CASE ~Allowed(s)
  <2>1. /\ bucket.tokens \in 0..Capacity /\ bucket.ts \in Int /\ now \in Nat
        /\ promises \subseteq Int /\ bucket.expires \in Int
    BY DEF IInv, TypeOK
  <2>2. /\ s \in Int /\ f \in 0..Capacity /\ f = Refilled(s) /\ f < Cost
    BY <1>2, FoundBounds DEF Allowed
  <2>3. now < bucket.expires
    BY <2>1, <2>2 DEF Found
  <2>4. f = bucket.tokens + AtLeast(0, s - bucket.ts)
    BY <2>1, <2>2 DEF Refilled, AtMost, AtLeast
  <2>5. /\ bucket' = [tokens |-> f, ts |-> s, expires |-> now + 2 * Capacity] /\ now' = now
        /\ promises' = promises \cup {s + RetryAfter(f)}
    BY <1>2, <2>2 DEF Run, Stored
  <2>6. ASSUME NEW p \in promises' PROVE f + AtLeast(0, p - s) >= Cost
    <3>1. CASE p \in promises
      <4>1. p \in Int /\ bucket.tokens + AtLeast(0, p - bucket.ts) >= Cost
        BY <3>1, <2>1, <2>3 DEF IInv, RetryAfterSuffices, Found, Refilled, AtMost, AtLeast
      <4> QED
        BY <4>1, <2>1, <2>2, <2>4 DEF AtLeast
    <3>2. CASE p = s + RetryAfter(f)
      <4>1. RetryAfter(f) \in Nat /\ f + RetryAfter(f) >= Cost
        BY <2>2, RetryAfterCovers
      <4> QED
        BY <3>2, <4>1, <2>2 DEF AtLeast
    <3> QED
      BY <2>5, <2>6, <3>1, <3>2
  <2>7. ASSUME NEW p \in promises' PROVE (Found(p) >= Cost)'
    <3>1. p \in Int
      BY <2>7, RunKeeps
    <3>2. f + AtLeast(0, p - s) >= Cost
      BY <2>6, <2>7
    <3>3. bucket'.tokens = f /\ bucket'.ts = s
      BY <2>5
    <3>4. (Refilled(p) >= Cost)'
      BY <3>1, <3>2, <3>3, <2>2 DEF Refilled, AtMost, AtLeast
    <3> QED
      BY <3>4 DEF Found
  <2> QED
    BY <2>7 DEF RetryAfterSuffices
<1> QED
  BY <1>1, <1>2

(* Every action preserves the invariant.                                   *)
LEMMA NextInductive == IInv /\ [Next]_vars => IInv'
<1> SUFFICES ASSUME IInv, [Next]_vars PROVE IInv'
  OBVIOUS
<1>a. /\ TypeOK /\ CallsInTime /\ TimeStored /\ Budget /\ RetryAfterSuffices
      /\ now \in Nat /\ bucket.tokens \in 0..Capacity /\ bucket.ts \in Int /\ bucket.expires \in Int
      /\ promises \subseteq Int
  BY DEF IInv, TypeOK
<1>1. CASE Tick
  <2>1. TypeOK' /\ Budget'
    BY <1>1, <1>a DEF Tick, TypeOK, Budget
  <2>2. CallsInTime'
    BY <1>1, <1>a DEF Tick, CallsInTime, TypeOK, Calls
  <2>3. TimeStored'
    BY <1>1, <1>a DEF Tick, TimeStored
  <2>4. RetryAfterSuffices'
    BY <1>1, <1>a DEF Tick, RetryAfterSuffices, Found, Refilled
  <2> QED
    BY <2>1, <2>2, <2>3, <2>4 DEF IInv
<1>2. CASE Restart
  <2>1. /\ bucket' = [tokens |-> Capacity, ts |-> bucket.ts, expires |-> now]
        /\ issued' = issued + Capacity /\ UNCHANGED <<now, calls, spent, rewound, promises, runs>>
    BY <1>2 DEF Restart
  <2>2. bucket' \in [tokens : 0..Capacity, ts : Int, expires : Int]
    BY <2>1, <1>a DEF TypeOK
  <2>3. bucket'.tokens = Capacity /\ bucket'.ts = bucket.ts /\ bucket'.expires = now
    BY <2>1, <1>a DEF TypeOK
  <2>4. TypeOK'
    BY <2>1, <2>2, <1>a DEF TypeOK
  <2>5. CallsInTime'
    BY <2>1, <1>a DEF CallsInTime
  <2>6. TimeStored' /\ Budget'
    BY <2>1, <2>3, <1>a DEF TimeStored, Budget, TypeOK
  <2>7. RetryAfterSuffices'
    BY <2>1, <2>3, <1>a DEF RetryAfterSuffices, Found
  <2> QED
    BY <2>4, <2>5, <2>6, <2>7 DEF IInv
<1>3. ASSUME NEW c \in Callers, NEW stamp \in (now - MaxSkew)..(now + MaxSkew), Send(c, stamp)
      PROVE  IInv'
  <2>1. UNCHANGED <<now, bucket, spent, rewound, issued, promises, runs>>
    BY <1>3 DEF Send
  <2>2. /\ calls' = [calls EXCEPT ![c] = [state |-> "sent", stamp |-> stamp, due |-> now + MaxLatency]]
        /\ calls \in [Callers -> Calls] /\ calls' \in [Callers -> Calls]
    BY <1>3, <1>a DEF Send, TypeOK, Calls
  <2>3. CallsInTime'
    <3>1. ASSUME NEW d \in Callers, d # c, calls'[d].state = "sent"
          PROVE  /\ now <= calls'[d].due
                 /\ calls'[d].due - MaxLatency - MaxSkew <= calls'[d].stamp
                 /\ calls'[d].stamp <= now + MaxSkew
      BY <3>1, <2>2, <1>a DEF CallsInTime
    <3>2. calls'[c] = [state |-> "sent", stamp |-> stamp, due |-> now + MaxLatency]
      BY <2>2
    <3>3. /\ now <= calls'[c].due
          /\ calls'[c].due - MaxLatency - MaxSkew <= calls'[c].stamp
          /\ calls'[c].stamp <= now + MaxSkew
      BY <3>2, <1>a
    <3> QED
      BY <2>1, <3>1, <3>3 DEF CallsInTime
  <2>4. TypeOK' /\ TimeStored' /\ Budget'
    BY <2>1, <2>2, <1>a DEF TypeOK, TimeStored, Budget
  <2>5. RetryAfterSuffices'
    BY <2>1, <1>a DEF RetryAfterSuffices, Found, Refilled
  <2> QED
    BY <2>3, <2>4, <2>5 DEF IInv
<1>4. ASSUME NEW c \in Callers, RunCall(c) \/ RunAndResend(c) PROVE IInv'
  <2>1. calls[c].state = "sent" /\ Run(calls[c].stamp)
    BY <1>4 DEF RunCall, RunAndResend
  <2>2. now' = now /\ issued' = issued
    BY <2>1 DEF Run
  <2>3. /\ calls' \in [Callers -> Calls]
        /\ \A d \in Callers : calls'[d].state = "sent" => calls'[d] = calls[d]
    BY <1>4, <1>a DEF RunCall, RunAndResend, TypeOK, Calls, NoCall
  <2>4. CallsInTime'
    BY <2>2, <2>3, <1>a DEF CallsInTime
  <2>5. TypeOK' /\ TimeStored' /\ Budget'
    BY <2>1, <2>2, <2>3, <1>a, RunKeeps DEF TypeOK
  <2> QED
    BY <2>1, <2>4, <2>5, RunKeepsPromises DEF IInv
<1>5. ASSUME NEW c \in Callers, LoseCall(c) PROVE IInv'
  <2>1. UNCHANGED <<now, bucket, spent, rewound, issued, promises, runs>>
    BY <1>5 DEF LoseCall
  <2>2. /\ calls' \in [Callers -> Calls]
        /\ \A d \in Callers : calls'[d].state = "sent" => calls'[d] = calls[d]
    BY <1>5, <1>a DEF LoseCall, TypeOK, Calls, NoCall
  <2>3. TypeOK' /\ TimeStored' /\ Budget'
    BY <2>1, <2>2, <1>a DEF TypeOK, TimeStored, Budget
  <2>4. CallsInTime'
    BY <2>1, <2>2, <1>a DEF CallsInTime
  <2>5. RetryAfterSuffices'
    BY <2>1, <1>a DEF RetryAfterSuffices, Found, Refilled
  <2> QED
    BY <2>3, <2>4, <2>5 DEF IInv
<1>6. CASE UNCHANGED vars
  BY <1>6, <1>a DEF vars, IInv, TypeOK, CallsInTime, TimeStored, Budget, RetryAfterSuffices,
     Found, Refilled
<1> QED
  BY <1>1, <1>2, <1>3, <1>4, <1>5, <1>6 DEF Next

(* The invariant behind the safety results holds of every behaviour.       *)
THEOREM Inductive == Spec => []IInv
  BY InitInductive, NextInductive, PTL DEF Spec

(* The stored count stays between nothing and the capacity, whatever       *)
(* clocks the callers have.                                                *)
THEOREM TypeCorrect == Spec => []TypeOK
<1>1. IInv => TypeOK
  BY DEF IInv
<1> QED
  BY <1>1, Inductive, PTL

(* What the bucket admits is bounded by new buckets, time and rewinds.     *)
THEOREM BoundedAdmission == Spec => []AdmissionBounded
<1>1. IInv => AdmissionBounded
  BY DEF IInv, TypeOK, Budget, TimeStored, AdmissionBounded
<1> QED
  BY <1>1, Inductive, PTL

(* The expiry of the key hands out nothing that a refill would not.        *)
THEOREM ExpiryHarmless == Spec => []ExpiryUnobservable
<1>1. IInv => ExpiryUnobservable
  BY ExpiredIsFull DEF ExpiryUnobservable
<1> QED
  BY <1>1, Inductive, PTL

(* Waiting as long as Retry-After says, by the clock of the process that   *)
(* said it, is enough.                                                     *)
THEOREM RetryAfterHonest == Spec => []RetryAfterSuffices
<1>1. IInv => RetryAfterSuffices
  BY DEF IInv
<1> QED
  BY <1>1, Inductive, PTL
=============================================================================
