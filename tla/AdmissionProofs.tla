--------------------------- MODULE AdmissionProofs ---------------------------
(***************************************************************************)
(* Safety of adaptive admission, for any requests and any limits.          *)
(***************************************************************************)
EXTENDS Admission, TLAPS, FiniteSetTheorems, SequenceTheorems

USE RequestsAssumption, LimitsAssumption

-----------------------------------------------------------------------------
(* The semaphore.                                                          *)

LEMMA LeastFacts ==
    ASSUME NEW a \in Nat, NEW b \in Nat
    PROVE  Least(a, b) \in Nat /\ Least(a, b) <= a /\ Least(a, b) <= b
           /\ (Least(a, b) = a \/ Least(a, b) = b)
  BY DEF Least

(* Sets of requests are finite, and so can be counted.                     *)
LEMMA RequestsCount ==
    ASSUME NEW S \in SUBSET Requests
    PROVE  IsFiniteSet(S) /\ Cardinality(S) \in Nat
  BY FS_Subset, FS_CardinalityType

(* The first n elements of a queue without repetitions are n.              *)
LEMMA PrefixCount ==
    ASSUME NEW S, NEW s \in Seq(S), NEW n \in 0..Len(s),
           \A i, j \in DOMAIN s : s[i] = s[j] => i = j
    PROVE  Cardinality({s[i] : i \in 1..n}) = n
<1> DEFINE T == {s[i] : i \in 1..n}
           f == [i \in 1..n |-> s[i]]
<1>1. DOMAIN s = 1..Len(s) /\ 1..n \subseteq 1..Len(s)
  BY LenProperties
<1>2. f \in [1..n -> T] /\ \A i, j \in 1..n : f[i] = f[j] => i = j
  BY <1>1
<1>3. \A t \in T : \E i \in 1..n : f[i] = t
  OBVIOUS
<1>4. f \in Bijection(1..n, T)
  BY <1>2, <1>3 DEF Bijection, Injection, Surjection, IsInjective
<1>5. ExistsBijection(1..n, T)
  BY <1>4 DEF ExistsBijection
<1> QED
  BY <1>5, FS_CountingElements

(* Releasing k permits adds k permits: each goes to the oldest waiter or   *)
(* becomes free, and none becomes free while someone waits.                *)
LEMMA SemReleaseFacts ==
    ASSUME NEW p \in Pools, NEW busy \in SUBSET Requests, Separate(p, busy), NEW k \in Nat
    PROVE  /\ SemRelease(p, k) \in Pools
           /\ Separate(SemRelease(p, k), busy)
           /\ SemRelease(p, k).target = p.target /\ SemRelease(p, k).debt = p.debt
           /\ Permits(SemRelease(p, k), busy) = Permits(p, busy) + k
           /\ p.granted \subseteq SemRelease(p, k).granted
           /\ SemRelease(p, k).waiting # <<>> =>
                 p.waiting # <<>> /\ SemRelease(p, k).free = p.free
<1> DEFINE n == Least(k, Len(p.waiting))
           woken == {p.waiting[i] : i \in 1..n}
           rest == SubSeq(p.waiting, n + 1, Len(p.waiting))
           q == SemRelease(p, k)
<1>1. p.waiting \in Seq(High) /\ Len(p.waiting) \in Nat /\ DOMAIN p.waiting = 1..Len(p.waiting)
  BY LenProperties DEF Pools
<1>2. n \in Nat /\ n <= k /\ n <= Len(p.waiting) /\ (n = k \/ n = Len(p.waiting))
  BY <1>1, LeastFacts
<1>3. p.free \in Nat /\ p.granted \in SUBSET High /\ p.target \in Nat /\ p.debt \in Nat
  BY DEF Pools
<1> HIDE DEF n
<1>4. \A i \in 1..Len(p.waiting) : p.waiting[i] \in High
  BY <1>1, ElementOfSeq
<1>5. /\ rest \in Seq(High) /\ Len(rest) = Len(p.waiting) - n
      /\ \A i \in 1..Len(rest) : rest[i] = p.waiting[n + i]
  <2>1. \A i \in (n + 1)..Len(p.waiting) : p.waiting[i] \in High
    BY <1>1, <1>2, <1>4
  <2>2. n + 1 \in Int /\ Len(p.waiting) \in Int
    BY <1>1, <1>2
  <2>3. /\ rest \in Seq(High)
        /\ Len(rest) = IF n + 1 <= Len(p.waiting) THEN Len(p.waiting) - (n + 1) + 1 ELSE 0
        /\ \A i \in 1..(Len(p.waiting) - (n + 1) + 1) : rest[i] = p.waiting[(n + 1) + i - 1]
    BY <2>1, <2>2, SubSeqProperties
  <2> HIDE DEF rest
  <2> QED
    BY <1>1, <1>2, <2>3
<1>6. woken \in SUBSET High /\ Cardinality(woken) = n
  BY <1>1, <1>2, <1>4, PrefixCount DEF Separate
<1>7. woken \cap (busy \cup p.granted) = {}
  BY <1>1, <1>2 DEF Separate
<1>8. DOMAIN rest = 1..Len(rest)
  BY <1>5, LenProperties
<1>9. q = [free |-> p.free + k - n, target |-> p.target, debt |-> p.debt,
           waiting |-> rest, granted |-> p.granted \cup woken]
  <2>1. q = [p EXCEPT !.free = p.free + k - n, !.waiting = rest, !.granted = p.granted \cup woken]
    BY DEF SemRelease, n
  <2> HIDE DEF rest, woken, q
  <2> QED
    BY <2>1 DEF Pools
<1>10. Separate(q, busy)
  <2>1. \A i \in 1..Len(rest) : n + i \in 1..Len(p.waiting) /\ n + i > n
    BY <1>1, <1>2, <1>5
  <2> HIDE DEF rest
  <2>2. \A i, j \in 1..Len(rest) : rest[i] = rest[j] => i = j
    <3> SUFFICES ASSUME NEW i \in 1..Len(rest), NEW j \in 1..Len(rest), rest[i] = rest[j]
                 PROVE  i = j
      OBVIOUS
    <3>1. p.waiting[n + i] = p.waiting[n + j]
      BY <1>5
    <3>2. n + i = n + j
      BY <1>1, <2>1, <3>1 DEF Separate
    <3> QED
      BY <1>2, <3>2
  <2>3. \A i \in 1..Len(rest) : rest[i] \notin woken
    <3> SUFFICES ASSUME NEW i \in 1..Len(rest), NEW j \in 1..n, rest[i] = p.waiting[j]
                 PROVE  FALSE
      OBVIOUS
    <3>1. p.waiting[n + i] = p.waiting[j] /\ j \in 1..Len(p.waiting)
      BY <1>1, <1>2, <1>5
    <3>2. n + i = j
      BY <1>1, <2>1, <3>1 DEF Separate
    <3> QED
      BY <1>2, <2>1, <3>2
  <2>4. \A i \in 1..Len(rest) : rest[i] \notin p.granted \cup busy
    BY <1>1, <1>5, <2>1 DEF Separate
  <2>5. (p.granted \cup woken) \cap busy = {}
    BY <1>7 DEF Separate
  <2> HIDE DEF woken, q
  <2> QED
    BY <1>8, <1>9, <2>2, <2>3, <2>4, <2>5 DEF Separate
<1> HIDE DEF woken, rest, q
<1>11. Permits(q, busy) = Permits(p, busy) + k
  <2>1. /\ busy \cup p.granted \in SUBSET Requests /\ woken \in SUBSET Requests
        /\ woken \cap (busy \cup p.granted) = {}
    BY <1>3, <1>6, <1>7 DEF Requests
  <2>2. /\ IsFiniteSet(busy \cup p.granted) /\ IsFiniteSet(woken)
        /\ Cardinality(busy \cup p.granted) \in Nat
    BY <2>1, RequestsCount
  <2>3. Cardinality((busy \cup p.granted) \cup woken) = Cardinality(busy \cup p.granted) + n
    <3>1. Cardinality((busy \cup p.granted) \cup woken) =
            Cardinality(busy \cup p.granted) + Cardinality(woken)
              - Cardinality((busy \cup p.granted) \cap woken)
      BY <2>2, FS_Union
    <3>2. (busy \cup p.granted) \cap woken = {}
      BY <2>1
    <3>3. Cardinality((busy \cup p.granted) \cap woken) = 0
      BY <3>2, FS_EmptySet
    <3> QED
      BY <1>2, <1>6, <2>2, <3>1, <3>3
  <2>4. busy \cup q.granted = (busy \cup p.granted) \cup woken
    BY <1>9
  <2>5. q.free = p.free + k - n
    BY <1>9
  <2>6. /\ Permits(q, busy) = q.free + Cardinality(busy \cup q.granted)
        /\ Permits(p, busy) = p.free + Cardinality(busy \cup p.granted)
    BY DEF Permits
  <2>7. Cardinality(busy \cup q.granted) = Cardinality(busy \cup p.granted) + n
    BY <2>3, <2>4
  <2> QED
    BY <1>2, <1>3, <2>2, <2>5, <2>6, <2>7
<1>12. q \in Pools
  <2>1. p.free + k - n \in Nat
    BY <1>2, <1>3
  <2> QED
    BY <1>3, <1>5, <1>6, <1>9, <2>1 DEF Pools
<1>13. q.waiting # <<>> => p.waiting # <<>> /\ q.free = p.free
  <2> SUFFICES ASSUME rest # <<>> PROVE p.waiting # <<>> /\ p.free + k - n = p.free
    BY <1>9
  <2>1. Len(rest) > 0
    BY <1>5, EmptySeq
  <2> QED
    BY <1>1, <1>2, <1>3, <1>5, <2>1, EmptySeq
<1> QED
  BY <1>9, <1>10, <1>11, <1>12, <1>13 DEF q

(* A pool that differs from another in what is free, and nothing else, has *)
(* that many more permits.                                                 *)
LEMMA FreeFacts ==
    ASSUME NEW p \in Pools, NEW busy \in SUBSET Requests, Separate(p, busy), NEW f \in Nat
    PROVE  /\ [p EXCEPT !.free = f] \in Pools /\ Separate([p EXCEPT !.free = f], busy)
           /\ Permits([p EXCEPT !.free = f], busy) = Permits(p, busy) + f - p.free
           /\ Permits(p, busy) \in Nat
<1>1. [p EXCEPT !.free = f] =
        [free |-> f, target |-> p.target, debt |-> p.debt, waiting |-> p.waiting,
         granted |-> p.granted]
  BY DEF Pools
<1>2. busy \cup p.granted \in SUBSET Requests /\ p.free \in Nat
  BY DEF Pools, Requests
<1>3. Cardinality(busy \cup p.granted) \in Nat
  BY <1>2, RequestsCount
<1>4. Permits([p EXCEPT !.free = f], busy) = f + Cardinality(busy \cup p.granted)
  BY <1>1 DEF Permits
<1>5. Permits(p, busy) = p.free + Cardinality(busy \cup p.granted)
  BY DEF Permits
<1>6. [p EXCEPT !.free = f] \in Pools
  BY DEF Pools
<1>7. Separate([p EXCEPT !.free = f], busy)
  BY <1>1 DEF Separate
<1> QED
  BY <1>2, <1>3, <1>4, <1>5, <1>6, <1>7

(* Waking waiters moves permits and makes none; nothing stays free while   *)
(* someone waits.                                                          *)
LEMMA WakeWaitersFacts ==
    ASSUME NEW p \in Pools, NEW busy \in SUBSET Requests, Separate(p, busy)
    PROVE  /\ WakeWaiters(p) \in Pools /\ Separate(WakeWaiters(p), busy)
           /\ WakeWaiters(p).target = p.target /\ WakeWaiters(p).debt = p.debt
           /\ Permits(WakeWaiters(p), busy) = Permits(p, busy)
           /\ WakeWaiters(p).waiting # <<>> => WakeWaiters(p).free = 0
<1> DEFINE z == [p EXCEPT !.free = 0]
<1>1. p.free \in Nat /\ z.target = p.target /\ z.debt = p.debt /\ z.free = 0
  BY DEF Pools
<1>2. /\ z \in Pools /\ Separate(z, busy)
      /\ Permits(z, busy) = Permits(p, busy) + 0 - p.free /\ Permits(p, busy) \in Nat
  BY FreeFacts
<1> HIDE DEF z
<1>3. /\ SemRelease(z, p.free) \in Pools /\ Separate(SemRelease(z, p.free), busy)
      /\ SemRelease(z, p.free).target = z.target /\ SemRelease(z, p.free).debt = z.debt
      /\ Permits(SemRelease(z, p.free), busy) = Permits(z, busy) + p.free
      /\ SemRelease(z, p.free).waiting # <<>> => SemRelease(z, p.free).free = z.free
  BY <1>1, <1>2, SemReleaseFacts
<1>4. WakeWaiters(p) = SemRelease(z, p.free)
  BY DEF WakeWaiters, z
<1> QED
  BY <1>1, <1>2, <1>3, <1>4

-----------------------------------------------------------------------------
(* The resizable pool and the limiter.                                     *)

(* What a pool is worth: it embodies target + debt permits, no more than   *)
(* the maximum.                                                            *)
Worth(p, busy) == Permits(p, busy) = p.target + p.debt /\ p.target + p.debt <= MaxLimit

(* From p to q nobody was forgotten: whoever was granted a permit still is,*)
(* and permits became free only if nobody waits.                           *)
Wakes(p, q) ==
    /\ p.granted \subseteq q.granted
    /\ q.waiting # <<>> => p.waiting # <<>> /\ q.free = p.free

(* Shrinking keeps the sum and records debt; growing cancels debt before   *)
(* it makes permits, so that the sum never exceeds the larger target.      *)
LEMMA ResizeFacts ==
    ASSUME NEW p \in Pools, NEW busy \in SUBSET Requests, Separate(p, busy), Worth(p, busy),
           NEW t \in Nat, t <= MaxLimit
    PROVE  /\ Resize(p, t) \in Pools /\ Separate(Resize(p, t), busy)
           /\ Worth(Resize(p, t), busy) /\ Resize(p, t).target = t
           /\ Wakes(p, Resize(p, t))
<1>1. p.free \in Nat /\ p.target \in Nat /\ p.debt \in Nat
  BY DEF Pools
<1>2. ASSUME NEW d \in Nat
      PROVE  LET q == [p EXCEPT !.target = t, !.debt = d]
             IN  /\ q \in Pools /\ Separate(q, busy) /\ Permits(q, busy) = Permits(p, busy)
                 /\ q.target = t /\ q.debt = d
                 /\ q.free = p.free /\ q.waiting = p.waiting /\ q.granted = p.granted
  <2> DEFINE q == [p EXCEPT !.target = t, !.debt = d]
  <2>1. /\ q \in Pools /\ q.target = t /\ q.debt = d
        /\ q.free = p.free /\ q.waiting = p.waiting /\ q.granted = p.granted
    BY DEF Pools
  <2> HIDE DEF q
  <2>2. Separate(q, busy) /\ Permits(q, busy) = Permits(p, busy)
    BY <2>1 DEF Separate, Permits
  <2> QED
    BY <2>1, <2>2 DEF q
<1>3. CASE t > p.target
  <2> DEFINE cancel == Least(t - p.target, p.debt)
             fresh == (t - p.target) - cancel
             q == [p EXCEPT !.target = t, !.debt = p.debt - cancel]
  <2>1. t - p.target \in Nat
    BY <1>1, <1>3
  <2>2. /\ cancel \in Nat /\ cancel <= t - p.target /\ cancel <= p.debt
        /\ (cancel = t - p.target \/ cancel = p.debt)
    BY <1>1, <2>1, LeastFacts
  <2> HIDE DEF cancel
  <2>3. p.debt - cancel \in Nat /\ fresh \in Nat
    BY <1>1, <2>1, <2>2
  <2>4. /\ q \in Pools /\ Separate(q, busy) /\ Permits(q, busy) = Permits(p, busy)
        /\ q.target = t /\ q.debt = p.debt - cancel
        /\ q.free = p.free /\ q.waiting = p.waiting /\ q.granted = p.granted
    BY <1>2, <2>3
  <2>5. Resize(p, t) = SemRelease(q, fresh)
    BY <1>3 DEF Resize, cancel
  <2> HIDE DEF q, fresh
  <2> DEFINE s == SemRelease(q, fresh)
  <2>6. /\ s \in Pools /\ Separate(s, busy) /\ s.target = q.target /\ s.debt = q.debt
        /\ Permits(s, busy) = Permits(q, busy) + fresh
        /\ q.granted \subseteq s.granted
        /\ s.waiting # <<>> => q.waiting # <<>> /\ s.free = q.free
    BY <2>3, <2>4, SemReleaseFacts
  <2> HIDE DEF s
  <2>7. /\ Permits(p, busy) + fresh = t + (p.debt - cancel)
        /\ t + (p.debt - cancel) <= MaxLimit
    BY <1>1, <2>1, <2>2 DEF Worth, fresh
  <2>8. Worth(s, busy) /\ s.target = t
    BY <2>4, <2>6, <2>7 DEF Worth
  <2>9. Wakes(p, s)
    BY <2>4, <2>6 DEF Wakes
  <2> QED
    BY <2>5, <2>6, <2>8, <2>9 DEF s
<1>4. CASE ~(t > p.target)
  <2> DEFINE d == p.debt + p.target - t
             q == [p EXCEPT !.target = t, !.debt = d]
  <2>1. d \in Nat /\ t + d = p.target + p.debt
    BY <1>1, <1>4
  <2>2. Resize(p, t) = q
    BY <1>4 DEF Resize
  <2> HIDE DEF d
  <2>3. /\ q \in Pools /\ Separate(q, busy) /\ Permits(q, busy) = Permits(p, busy)
        /\ q.target = t /\ q.debt = d
        /\ q.free = p.free /\ q.waiting = p.waiting /\ q.granted = p.granted
    BY <1>2, <2>1
  <2> HIDE DEF q
  <2>4. Worth(q, busy) /\ Wakes(p, q)
    BY <2>1, <2>3 DEF Worth, Wakes
  <2> QED
    BY <2>2, <2>3, <2>4
<1> QED
  BY <1>3, <1>4

(* A returned permit pays debt or goes back.                               *)
LEMMA ReleaseFacts ==
    ASSUME NEW p \in Pools, NEW busy \in SUBSET Requests, Separate(p, busy), Worth(p, busy),
           NEW r \in busy
    PROVE  /\ Release(p) \in Pools /\ Separate(Release(p), busy \ {r})
           /\ Worth(Release(p), busy \ {r}) /\ Release(p).target = p.target
           /\ Wakes(p, Release(p))
<1>1. p.free \in Nat /\ p.target \in Nat /\ p.debt \in Nat
  BY DEF Pools
<1>2. Separate(p, busy \ {r})
  BY DEF Separate
<1>3. Permits(p, busy \ {r}) = p.target + p.debt - 1
  <2>1. busy \cup p.granted \in SUBSET Requests
    BY DEF Pools, Requests
  <2>2. (busy \ {r}) \cup p.granted = (busy \cup p.granted) \ {r} /\ r \in busy \cup p.granted
    BY DEF Separate
  <2>3. /\ IsFiniteSet(busy \cup p.granted) /\ Cardinality(busy \cup p.granted) \in Nat
    BY <2>1, RequestsCount
  <2>4. Cardinality((busy \ {r}) \cup p.granted) = Cardinality(busy \cup p.granted) - 1
    <3> DEFINE all == busy \cup p.granted
    <3>1. IsFiniteSet(all) /\ r \in all
      BY <2>2, <2>3
    <3> HIDE DEF all
    <3>2. Cardinality(all \ {r}) = Cardinality(all) - 1
      BY <3>1, FS_RemoveElement
    <3> QED
      BY <2>2, <3>2 DEF all
  <2>5. /\ Permits(p, busy) = p.free + Cardinality(busy \cup p.granted)
        /\ Permits(p, busy \ {r}) = p.free + Cardinality((busy \ {r}) \cup p.granted)
    BY DEF Permits
  <2> QED
    BY <1>1, <2>3, <2>4, <2>5 DEF Worth
<1>4. CASE p.debt > 0
  <2> DEFINE q == [p EXCEPT !.debt = p.debt - 1]
  <2>1. p.debt - 1 \in Nat
    BY <1>1, <1>4
  <2>2. /\ q \in Pools /\ q.target = p.target /\ q.debt = p.debt - 1
        /\ q.free = p.free /\ q.waiting = p.waiting /\ q.granted = p.granted
    BY <2>1 DEF Pools
  <2>3. Release(p) = q
    BY <1>4 DEF Release
  <2> HIDE DEF q
  <2>4. Separate(q, busy \ {r}) /\ Permits(q, busy \ {r}) = Permits(p, busy \ {r})
    BY <1>2, <2>2 DEF Separate, Permits
  <2>5. p.target + (p.debt - 1) = p.target + p.debt - 1 /\ p.target + (p.debt - 1) <= MaxLimit
    BY <1>1 DEF Worth
  <2> QED
    BY <1>3, <2>2, <2>3, <2>4, <2>5 DEF Worth, Wakes
<1>5. CASE ~(p.debt > 0)
  <2>1. Release(p) = SemRelease(p, 1)
    BY <1>5 DEF Release
  <2>2. busy \ {r} \in SUBSET Requests
    OBVIOUS
  <2>3. /\ SemRelease(p, 1) \in Pools /\ Separate(SemRelease(p, 1), busy \ {r})
        /\ SemRelease(p, 1).target = p.target /\ SemRelease(p, 1).debt = p.debt
        /\ Permits(SemRelease(p, 1), busy \ {r}) = Permits(p, busy \ {r}) + 1
        /\ p.granted \subseteq SemRelease(p, 1).granted
        /\ SemRelease(p, 1).waiting # <<>> =>
              p.waiting # <<>> /\ SemRelease(p, 1).free = p.free
    BY <1>2, <2>2, SemReleaseFacts
  <2>4. Permits(p, busy \ {r}) + 1 = p.target + p.debt
    BY <1>1, <1>3
  <2> QED
    BY <2>1, <2>3, <2>4 DEF Worth, Wakes
<1> QED
  BY <1>4, <1>5

(* limit / 2 + sqrt(limit) is not below 4 if limit is not, nor below a     *)
(* smaller starting point.                                                 *)
LEMMA GradientFloor ==
    ASSUME NEW floor \in 0..4, NEW limit \in Nat, floor <= limit, NEW n \in Nat,
           2 * (n + 1) > limit,
           (2 * (n + 1) - limit) * (2 * (n + 1) - limit) > 4 * limit
    PROVE  floor <= n
<1> DEFINE x == 2 * (n + 1) - limit
<1> SUFFICES ASSUME n < floor PROVE FALSE
  OBVIOUS
<1>1. x \in 1..4 /\ x <= limit
  OBVIOUS
<1>2. x * x > 4 * limit
  OBVIOUS
<1> HIDE DEF x
<1>3. x * x <= 4 * x
  <2>1. x = 1 \/ x = 2 \/ x = 3 \/ x = 4
    BY <1>1
  <2> QED
    BY <2>1
<1> QED
  BY <1>1, <1>2, <1>3

(* Whatever gradient a window yields, the new limit is within the bounds   *)
(* and not below the fixed point.                                          *)
LEMMA NewLimitsFacts ==
    ASSUME NEW limit \in Nat, Least(4, InitialLimit) <= limit, NEW t \in NewLimits(limit)
    PROVE  t \in MinLimit..MaxLimit /\ Least(4, InitialLimit) <= t
<1>1. PICK n \in 0..(2 * limit) :
         /\ t = Clamp(n, MinLimit, MaxLimit)
         /\ 2 * (n + 1) > limit
         /\ (2 * (n + 1) - limit) * (2 * (n + 1) - limit) > 4 * limit
  BY DEF NewLimits
<1>2. Least(4, InitialLimit) \in 0..4 /\ Least(4, InitialLimit) <= MaxLimit
  BY DEF Least
<1>3. Least(4, InitialLimit) <= n
  BY <1>1, <1>2, GradientFloor
<1> QED
  BY <1>1, <1>2, <1>3 DEF Clamp

-----------------------------------------------------------------------------
(* The requests.                                                           *)

LEMMA InitInductive == Init => IInv
<1> SUFFICES ASSUME Init PROVE IInv
  OBVIOUS
<1>1. /\ pool.free = InitialLimit /\ pool.target = InitialLimit /\ pool.debt = 0
      /\ pool.waiting = <<>> /\ pool.granted = {} /\ running = {}
  BY DEF Init
<1>2. pool \in Pools
  <2>1. <<>> \in Seq(High)
    BY EmptySeq
  <2> QED
    BY <2>1 DEF Init, Pools
<1>3. DOMAIN pool.waiting = {}
  BY <1>1
<1>4. TypeOK /\ Separate(pool, running) /\ NoLostWakeup
  BY <1>1, <1>2, <1>3 DEF TypeOK, Separate, NoLostWakeup
<1>5. Permits(pool, running) = InitialLimit
  <2>1. running \cup pool.granted = {}
    BY <1>1
  <2> QED
    BY <1>1, <2>1, FS_EmptySet DEF Permits
<1>6. LimitFloor
  BY <1>1 DEF LimitFloor, Least
<1> QED
  BY <1>1, <1>4, <1>5, <1>6 DEF IInv

(* A step that keeps the target establishes the invariant if it keeps the  *)
(* account and wakes whom it must.                                         *)
LEMMA SameTarget ==
    ASSUME IInv, pool' \in Pools, running' \in SUBSET Requests,
           pool'.target = pool.target, pool'.debt = pool.debt,
           Separate(pool', running'), Permits(pool', running') = Permits(pool, running),
           pool'.waiting # <<>> /\ pool'.free > 0 => pool'.granted # {}
    PROVE  IInv'
<1>1. TypeOK' /\ NoLostWakeup' /\ LimitFloor'
  BY DEF IInv, TypeOK, NoLostWakeup, LimitFloor
<1>2. Separate(pool, running)'
  BY DEF Separate
<1>3. (Permits(pool, running) = pool.target + pool.debt)'
  BY DEF IInv, Permits
<1> QED
  BY <1>1, <1>2, <1>3 DEF IInv

(* Admission without a wait takes a free permit.                           *)
LEMMA AdmitStep == ASSUME IInv, NEW r \in Requests, Admit(r) PROVE IInv'
<1>1. pool \in Pools /\ running \in SUBSET Requests /\ pool.free \in Nat /\ r \notin running
  BY DEF IInv, TypeOK, Pools, Admit, Idle
<1>2. pool.free # 0 /\ pool.waiting = <<>> /\ pool.granted = {}
  BY DEF Admit, Locked
<1>3. /\ pool' \in Pools /\ pool'.free = pool.free - 1
      /\ pool'.target = pool.target /\ pool'.debt = pool.debt
      /\ pool'.waiting = pool.waiting /\ pool'.granted = pool.granted
  BY <1>1, <1>2 DEF Admit, Pools
<1>4. running' = running \cup {r}
  BY DEF Admit
<1>5. Separate(pool', running')
  BY <1>2, <1>3 DEF Separate
<1>6. Permits(pool', running') = Permits(pool, running)
  <2>1. running' \cup pool'.granted = running \cup {r} /\ running \cup pool.granted = running
    BY <1>2, <1>3, <1>4
  <2>2. IsFiniteSet(running) /\ Cardinality(running) \in Nat
    BY <1>1, RequestsCount
  <2>3. Cardinality(running \cup {r}) = Cardinality(running) + 1
    BY <1>1, <2>2, FS_AddElement
  <2>4. /\ Permits(pool', running') = (pool.free - 1) + Cardinality(running \cup {r})
        /\ Permits(pool, running) = pool.free + Cardinality(running)
    BY <1>3, <2>1 DEF Permits
  <2> QED
    BY <1>1, <2>2, <2>3, <2>4
<1> QED
  BY <1>1, <1>2, <1>3, <1>4, <1>5, <1>6, SameTarget

(* A request that has to wait joins the end of the queue.                  *)
LEMMA WaitStep == ASSUME IInv, NEW r \in Requests, WaitHigh(r) PROVE IInv'
<1>1. pool \in Pools /\ running \in SUBSET Requests /\ r \in High /\ pool.waiting \in Seq(High)
  BY DEF IInv, TypeOK, Pools, WaitHigh
<1> DEFINE w == Append(pool.waiting, r)
<1>2. /\ w \in Seq(High) /\ Len(w) = Len(pool.waiting) + 1
      /\ \A i \in 1..Len(pool.waiting) : w[i] = pool.waiting[i]
      /\ w[Len(pool.waiting) + 1] = r
  BY <1>1, AppendProperties
<1>3. /\ DOMAIN pool.waiting = 1..Len(pool.waiting) /\ DOMAIN w = 1..Len(w)
      /\ Len(pool.waiting) \in Nat
  BY <1>1, <1>2, LenProperties
<1> HIDE DEF w
<1>4. /\ pool' \in Pools /\ pool'.free = pool.free
      /\ pool'.target = pool.target /\ pool'.debt = pool.debt
      /\ pool'.waiting = w /\ pool'.granted = pool.granted /\ running' = running
  BY <1>1, <1>2 DEF WaitHigh, Pools, w
<1>5. /\ r \notin running /\ r \notin pool.granted
      /\ \A i \in 1..Len(pool.waiting) : pool.waiting[i] # r
  BY <1>3 DEF WaitHigh, Idle
<1>6. Separate(pool', running')
  <2>1. \A i \in 1..Len(w) : i \in 1..Len(pool.waiting) \/ i = Len(pool.waiting) + 1
    BY <1>2, <1>3
  <2>2. \A i, j \in 1..Len(w) : w[i] = w[j] => i = j
    BY <1>2, <1>3, <1>5, <2>1 DEF IInv, Separate
  <2>3. \A i \in 1..Len(w) : w[i] \notin pool.granted \cup running
    BY <1>2, <1>3, <1>5, <2>1 DEF IInv, Separate
  <2>4. pool.granted \cap running = {}
    BY DEF IInv, Separate
  <2> QED
    BY <1>3, <1>4, <2>2, <2>3, <2>4 DEF Separate
<1>7. Permits(pool', running') = Permits(pool, running)
  BY <1>4 DEF Permits
<1>8. pool.free > 0 => pool.granted # {}
  BY DEF WaitHigh, Locked, IInv, NoLostWakeup
<1> QED
  BY <1>1, <1>4, <1>6, <1>7, <1>8, SameTarget

(* Every wait ends by waking whoever is next: the steps that do so need    *)
(* only account for the request itself.                                    *)
LEMMA WakingStep ==
    ASSUME IInv, NEW p \in Pools, p.target = pool.target, p.debt = pool.debt,
           running' \in SUBSET Requests, Separate(p, running'),
           Permits(p, running') = Permits(pool, running), pool' = WakeWaiters(p)
    PROVE  IInv'
<1>1. /\ pool' \in Pools /\ Separate(pool', running')
      /\ pool'.target = pool.target /\ pool'.debt = pool.debt
      /\ Permits(pool', running') = Permits(pool, running)
      /\ pool'.waiting # <<>> => pool'.free = 0
  BY WakeWaitersFacts
<1> QED
  BY <1>1, SameTarget

(* A granted waiter takes its permit with it, or puts it back.             *)
LEMMA GrantedStep ==
    ASSUME IInv, NEW r \in Requests, Resume(r) \/ TimeOutGranted(r)
    PROVE  IInv'
<1>1. /\ pool \in Pools /\ running \in SUBSET Requests /\ r \in pool.granted
      /\ pool.free \in Nat /\ pool.granted \in SUBSET High /\ Separate(pool, running)
  BY DEF IInv, TypeOK, Pools, Resume, TimeOutGranted
<1> DEFINE all == running \cup pool.granted
<1>2. all \in SUBSET Requests
  BY <1>1 DEF Requests
<1>3. IsFiniteSet(all) /\ Cardinality(all) \in Nat
  BY <1>2, RequestsCount
<1>4. r \in all /\ r \notin running
  BY <1>1 DEF Separate
<1>5. Permits(pool, running) = pool.free + Cardinality(all)
  BY DEF Permits
<1>6. CASE Resume(r)
  <2> DEFINE p == [pool EXCEPT !.granted = pool.granted \ {r}]
  <2>1. /\ p \in Pools /\ p.free = pool.free /\ p.target = pool.target /\ p.debt = pool.debt
        /\ p.waiting = pool.waiting /\ p.granted = pool.granted \ {r}
    BY <1>1 DEF Pools
  <2>2. pool' = WakeWaiters(p) /\ running' = running \cup {r}
    BY <1>6 DEF Resume
  <2> HIDE DEF p
  <2>3. Separate(p, running')
    BY <1>1, <2>1, <2>2 DEF Separate
  <2>4. running' \cup p.granted = all
    BY <1>4, <2>1, <2>2
  <2>5. Permits(p, running') = Permits(pool, running)
    BY <1>5, <2>1, <2>4 DEF Permits
  <2>6. running' \in SUBSET Requests
    BY <1>1, <2>2
  <2> QED
    BY <2>1, <2>2, <2>3, <2>5, <2>6, WakingStep
<1>7. CASE TimeOutGranted(r)
  <2> DEFINE p == [pool EXCEPT !.granted = pool.granted \ {r}, !.free = pool.free + 1]
  <2>0. pool.free + 1 \in Nat /\ pool.granted \ {r} \in SUBSET High
    BY <1>1
  <2>1. /\ p \in Pools /\ p.free = pool.free + 1 /\ p.target = pool.target /\ p.debt = pool.debt
        /\ p.waiting = pool.waiting /\ p.granted = pool.granted \ {r}
    BY <1>1, <2>0 DEF Pools
  <2>2. pool' = WakeWaiters(p) /\ running' = running
    BY <1>7 DEF TimeOutGranted
  <2> HIDE DEF p
  <2>3. Separate(p, running')
    BY <1>1, <2>1, <2>2 DEF Separate
  <2>4. running' \cup p.granted = all \ {r}
    BY <1>4, <2>1, <2>2
  <2> HIDE DEF all
  <2>5. Cardinality(all \ {r}) = Cardinality(all) - 1
    BY <1>3, <1>4, FS_RemoveElement
  <2>6. Permits(p, running') = (pool.free + 1) + (Cardinality(all) - 1)
    BY <2>1, <2>4, <2>5 DEF Permits
  <2>7. Permits(p, running') = Permits(pool, running)
    BY <1>1, <1>3, <1>5, <2>6
  <2>8. running' \in SUBSET Requests
    BY <1>1, <2>2
  <2> QED
    BY <2>1, <2>2, <2>3, <2>7, <2>8, WakingStep
<1> QED
  BY <1>6, <1>7

(* Removing one element from a queue keeps the others, and their order.    *)
LEMMA RemoveAtFacts ==
    ASSUME NEW S, NEW s \in Seq(S), NEW k \in 1..Len(s)
    PROVE  /\ RemoveAt(s, k) \in Seq(S) /\ Len(RemoveAt(s, k)) = Len(s) - 1
           /\ \A i \in 1..(Len(s) - 1) :
                 RemoveAt(s, k)[i] = IF i < k THEN s[i] ELSE s[i + 1]
<1> DEFINE a == SubSeq(s, 1, k - 1)
           b == SubSeq(s, k + 1, Len(s))
<1>0. Len(s) \in Nat /\ k \in Int /\ k >= 1 /\ k <= Len(s)
  BY LenProperties
<1>1. \A i \in 1..Len(s) : s[i] \in S
  BY ElementOfSeq
<1>2. a \in Seq(S) /\ Len(a) = k - 1 /\ \A i \in 1..(k - 1) : a[i] = s[i]
  <2>1. \A i \in 1..(k - 1) : s[i] \in S
    BY <1>0, <1>1
  <2>2. /\ a \in Seq(S) /\ Len(a) = IF 1 <= k - 1 THEN (k - 1) - 1 + 1 ELSE 0
        /\ \A i \in 1..((k - 1) - 1 + 1) : a[i] = s[1 + i - 1]
    BY <1>0, <2>1, SubSeqProperties
  <2> HIDE DEF a
  <2> QED
    BY <1>0, <2>2
<1>3. b \in Seq(S) /\ Len(b) = Len(s) - k /\ \A i \in 1..(Len(s) - k) : b[i] = s[k + i]
  <2>1. \A i \in (k + 1)..Len(s) : s[i] \in S
    BY <1>0, <1>1
  <2>2. /\ b \in Seq(S) /\ Len(b) = IF k + 1 <= Len(s) THEN Len(s) - (k + 1) + 1 ELSE 0
        /\ \A i \in 1..(Len(s) - (k + 1) + 1) : b[i] = s[(k + 1) + i - 1]
    BY <1>0, <2>1, SubSeqProperties
  <2> HIDE DEF b
  <2> QED
    BY <1>0, <2>2
<1>4. RemoveAt(s, k) = a \o b
  BY DEF RemoveAt
<1> HIDE DEF a, b
<1>5. /\ a \o b \in Seq(S) /\ Len(a \o b) = Len(a) + Len(b)
      /\ \A i \in 1..(Len(a) + Len(b)) :
            (a \o b)[i] = IF i <= Len(a) THEN a[i] ELSE b[i - Len(a)]
  BY <1>2, <1>3, ConcatProperties
<1>6. ASSUME NEW i \in 1..(Len(s) - 1)
      PROVE  (a \o b)[i] = IF i < k THEN s[i] ELSE s[i + 1]
  <2>1. (a \o b)[i] = IF i <= k - 1 THEN a[i] ELSE b[i - (k - 1)]
    BY <1>0, <1>2, <1>3, <1>5
  <2>2. CASE i < k
    BY <1>0, <1>2, <2>1, <2>2
  <2>3. CASE ~(i < k)
    <3>1. i - (k - 1) \in 1..(Len(s) - k) /\ k + (i - (k - 1)) = i + 1
      BY <1>0, <2>3
    <3> QED
      BY <1>0, <1>3, <2>1, <2>3, <3>1
  <2> QED
    BY <2>2, <2>3
<1> QED
  BY <1>0, <1>2, <1>3, <1>4, <1>5, <1>6

(* A waiter that times out leaves the queue and holds nothing.             *)
LEMMA TimeOutStep == ASSUME IInv, NEW r \in Requests, TimeOutWaiting(r) PROVE IInv'
<1>1. /\ pool \in Pools /\ running \in SUBSET Requests /\ pool.waiting \in Seq(High)
      /\ Separate(pool, running)
  BY DEF IInv, TypeOK, Pools
<1>2. DOMAIN pool.waiting = 1..Len(pool.waiting) /\ Len(pool.waiting) \in Nat
  BY <1>1, LenProperties
<1>3. PICK k \in 1..Len(pool.waiting) :
         pool' = WakeWaiters([pool EXCEPT !.waiting = RemoveAt(pool.waiting, k)])
  BY <1>2 DEF TimeOutWaiting
<1> DEFINE w == RemoveAt(pool.waiting, k)
           p == [pool EXCEPT !.waiting = w]
<1>4. /\ w \in Seq(High) /\ Len(w) = Len(pool.waiting) - 1
      /\ \A i \in 1..(Len(pool.waiting) - 1) :
            w[i] = IF i < k THEN pool.waiting[i] ELSE pool.waiting[i + 1]
  BY <1>1, RemoveAtFacts
<1>5. DOMAIN w = 1..(Len(pool.waiting) - 1)
  BY <1>4, LenProperties
<1> HIDE DEF w
<1>6. /\ p \in Pools /\ p.free = pool.free /\ p.target = pool.target /\ p.debt = pool.debt
      /\ p.waiting = w /\ p.granted = pool.granted
  BY <1>1, <1>4 DEF Pools
<1>7. pool' = WakeWaiters(p) /\ running' = running
  BY <1>3 DEF TimeOutWaiting, w
<1> HIDE DEF p
<1>8. Separate(p, running')
  <2> DEFINE at(i) == IF i < k THEN i ELSE i + 1
  <2>1. \A i \in 1..(Len(pool.waiting) - 1) :
           at(i) \in 1..Len(pool.waiting) /\ w[i] = pool.waiting[at(i)]
    BY <1>2, <1>4
  <2>2. \A i, j \in 1..(Len(pool.waiting) - 1) : at(i) = at(j) => i = j
    BY <1>2
  <2> HIDE DEF at
  <2>3. \A i, j \in DOMAIN w : w[i] = w[j] => i = j
    BY <1>1, <1>2, <1>5, <2>1, <2>2 DEF Separate
  <2>4. \A i \in DOMAIN w : w[i] \notin pool.granted \cup running
    BY <1>1, <1>2, <1>5, <2>1 DEF Separate
  <2> QED
    BY <1>1, <1>6, <1>7, <2>3, <2>4 DEF Separate
<1>9. Permits(p, running') = Permits(pool, running)
  BY <1>6, <1>7 DEF Permits
<1> QED
  BY <1>1, <1>6, <1>7, <1>8, <1>9, WakingStep

(* A handler ends: the limit may move, and the permit is returned.         *)
LEMMA FinishStep == ASSUME IInv, NEW r \in Requests, Finish(r) PROVE IInv'
<1>1. /\ pool \in Pools /\ running \in SUBSET Requests /\ Separate(pool, running)
      /\ Worth(pool, running) /\ r \in running /\ running' = running \ {r}
      /\ pool.target \in MinLimit..MaxLimit /\ Least(4, InitialLimit) <= pool.target
      /\ pool.waiting # <<>> /\ pool.free > 0 => pool.granted # {}
  BY DEF IInv, TypeOK, Worth, LimitFloor, NoLostWakeup, Finish, Least
<1>2. PICK t \in {pool.target} \cup NewLimits(pool.target) : pool' = Release(Resize(pool, t))
  BY DEF Finish
<1>3. t \in MinLimit..MaxLimit /\ Least(4, InitialLimit) <= t
  BY <1>1, <1>2, NewLimitsFacts
<1> DEFINE q == Resize(pool, t)
<1>4. /\ q \in Pools /\ Separate(q, running) /\ Worth(q, running) /\ q.target = t
      /\ Wakes(pool, q)
  BY <1>1, <1>3, ResizeFacts
<1>5. pool' = Release(q)
  BY <1>2
<1> HIDE DEF q
<1>6. /\ pool' \in Pools /\ Separate(pool', running') /\ Worth(pool', running')
      /\ pool'.target = t /\ Wakes(q, pool')
  BY <1>1, <1>4, <1>5, ReleaseFacts
<1>7. pool'.waiting # <<>> /\ pool'.free > 0 => pool'.granted # {}
  BY <1>1, <1>4, <1>6 DEF Wakes
<1>8. TypeOK'
  BY <1>1, <1>3, <1>6 DEF TypeOK
<1>9. Separate(pool, running)'
  BY <1>6 DEF Separate
<1>10. (Permits(pool, running) = pool.target + pool.debt)' /\ (pool.target + pool.debt <= MaxLimit)'
  BY <1>6 DEF Worth, Permits
<1>11. NoLostWakeup' /\ LimitFloor'
  <2>1. t >= Least(4, InitialLimit)
    BY <1>3 DEF Least
  <2> QED
    BY <1>6, <1>7, <2>1 DEF NoLostWakeup, LimitFloor
<1> QED
  BY <1>8, <1>9, <1>10, <1>11 DEF IInv

LEMMA NextInductive == IInv /\ [Next]_vars => IInv'
<1> SUFFICES ASSUME IInv, [Next]_vars PROVE IInv'
  OBVIOUS
<1>1. ASSUME UNCHANGED vars PROVE IInv'
  BY <1>1 DEF vars, IInv, TypeOK, Separate, Permits, NoLostWakeup, LimitFloor
<1>2. ASSUME NEW r \in Requests, ShedLow(r) PROVE IInv'
  BY <1>1, <1>2 DEF ShedLow
<1> QED
  BY <1>1, <1>2, AdmitStep, WaitStep, GrantedStep, TimeOutStep, FinishStep DEF Next

(* The invariant holds of every behaviour of the limiter.                  *)
THEOREM Inductive == Spec => []IInv
  BY InitInductive, NextInductive, PTL DEF Spec

(* Types: the limit stays between min_limit and max_limit, and debt is     *)
(* never negative.                                                         *)
THEOREM TypeCorrect == Spec => []TypeOK
<1>1. IInv => TypeOK
  BY DEF IInv
<1> QED
  BY <1>1, Inductive, PTL

(* Free and held permits together are target + debt: adaptive.py's         *)
(* invariant, which "every method below preserves".                        *)
THEOREM Conservation == Spec => []PermitsConserved
<1>1. IInv => PermitsConserved
  <2> SUFFICES ASSUME IInv PROVE PermitsConserved
    OBVIOUS
  <2>1. running \cap pool.granted = {}
    BY DEF IInv, Separate
  <2> QED
    BY <2>1 DEF IInv, Permits, PermitsConserved, InUse
<1> QED
  BY <1>1, Inductive, PTL

(* Neither permits nor requests in flight exceed max_limit.                *)
THEOREM BoundedCapacity == Spec => []CapacityBounded
<1>1. IInv => CapacityBounded
  <2> SUFFICES ASSUME IInv PROVE Cardinality(running) <= MaxLimit
    BY DEF IInv, CapacityBounded
  <2>1. /\ running \in SUBSET InUse /\ InUse \in SUBSET Requests
        /\ pool.free \in Nat /\ pool.target \in Nat /\ pool.debt \in Nat
    BY DEF IInv, TypeOK, Pools, InUse, Requests
  <2>2. IsFiniteSet(InUse) /\ Cardinality(InUse) \in Nat
    BY <2>1, RequestsCount
  <2>3. Cardinality(running) <= Cardinality(InUse) /\ Cardinality(running) \in Nat
    BY <2>1, <2>2, FS_Subset, RequestsCount
  <2>4. pool.free + Cardinality(InUse) <= MaxLimit
    BY DEF IInv, Permits, InUse
  <2> QED
    BY <2>1, <2>2, <2>3, <2>4
<1> QED
  BY <1>1, Inductive, PTL

(* No permit lies free beside a waiter that nobody is about to wake.       *)
THEOREM NoWakeupLost == Spec => []NoLostWakeup
<1>1. IInv => NoLostWakeup
  BY DEF IInv
<1> QED
  BY <1>1, Inductive, PTL

(* However slow the handlers, the limit does not sink below 4 if it        *)
(* started there, or below where it started.                               *)
THEOREM FloorHolds == Spec => []LimitFloor
<1>1. IInv => LimitFloor
  BY DEF IInv
<1> QED
  BY <1>1, Inductive, PTL
=============================================================================
