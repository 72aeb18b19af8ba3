------------------------------ MODULE Admission ------------------------------
(***************************************************************************)
(* Adaptive admission in one API process: the resizable permit pool and    *)
(* the gradient limiter (resilience/adaptive.py), and the requests that go *)
(* through them (AdaptiveConcurrencyMiddleware of api/middleware.py).      *)
(*                                                                         *)
(* Everything runs on one event loop, so a step ends where a task awaits.  *)
(* A permit handed to a waiting task is neither free nor in use until that *)
(* task is scheduled: the place where its timeout can still strike.        *)
(* Round-trip times are abstracted to the gradients they can produce.      *)
(***************************************************************************)
EXTENDS Integers, FiniteSets, SequencesExt

CONSTANTS
    High, Low,     \* requests by declared criticality
    InitialLimit, MinLimit, MaxLimit

Requests == High \cup Low

ASSUME RequestsAssumption == IsFiniteSet(Requests) /\ High \cap Low = {}
ASSUME LimitsAssumption ==
    /\ InitialLimit \in Nat /\ MinLimit \in Nat /\ MaxLimit \in Nat
    /\ 0 < MinLimit /\ MinLimit <= InitialLimit /\ InitialLimit <= MaxLimit

VARIABLES
    pool,    \* _ResizableSemaphore and the asyncio.Semaphore inside it
    running  \* requests inside their handler, each holding a permit

vars == <<pool, running>>

(* free: Semaphore._value; waiting: its pending waiters, oldest first;     *)
(* granted: waiters given a permit that have not been scheduled yet.       *)
(* target: the pool's target, which is the limiter's limit.                *)
Pools == [free : Nat, target : Nat, debt : Nat, waiting : Seq(High), granted : SUBSET High]

TypeOK ==
    /\ pool \in Pools /\ pool.target \in MinLimit..MaxLimit
    /\ running \subseteq Requests

Init ==
    /\ pool = [free |-> InitialLimit, target |-> InitialLimit, debt |-> 0,
               waiting |-> <<>>, granted |-> {}]
    /\ running = {}

-----------------------------------------------------------------------------
(* asyncio.Semaphore.                                                      *)

Least(a, b) == IF a <= b THEN a ELSE b

(* k calls of release: each permit goes to the oldest waiter, if any.      *)
SemRelease(p, k) ==
    LET n == Least(k, Len(p.waiting))
    IN  [p EXCEPT !.free = @ + k - n,
                  !.waiting = SubSeq(@, n + 1, Len(@)),
                  !.granted = @ \cup {p.waiting[i] : i \in 1..n}]

(* How acquire ends after a wait: hand on the free permits while there are *)
(* waiters.                                                                *)
WakeWaiters(p) == SemRelease([p EXCEPT !.free = 0], p.free)

Locked == pool.free = 0 \/ pool.waiting # <<>> \/ pool.granted # {}

-----------------------------------------------------------------------------
(* _ResizableSemaphore.                                                    *)

(* Mutant: a grow does not cancel debt.                                    *)
ResizeKeepsDebt(p, target) ==
    IF target > p.target
    THEN SemRelease([p EXCEPT !.target = target], target - p.target)
    ELSE [p EXCEPT !.target = target, !.debt = @ + p.target - target]

(* Growing cancels debt first and releases the rest at once; shrinking     *)
(* only records debt.                                                      *)
Resize(p, target) ==
    IF target > p.target
    THEN LET cancel == Least(target - p.target, p.debt)
         IN  SemRelease([p EXCEPT !.target = target, !.debt = @ - cancel],
                        (target - p.target) - cancel)
    ELSE [p EXCEPT !.target = target, !.debt = @ + p.target - target]

(* Mutants: a swallowed permit does not pay the debt; a returned permit is *)
(* added to _value instead of being released.                              *)
ReleaseUnpaid(p) == IF p.debt > 0 THEN p ELSE SemRelease(p, 1)
ReleasePokesValue(p) ==
    IF p.debt > 0 THEN [p EXCEPT !.debt = @ - 1] ELSE [p EXCEPT !.free = @ + 1]

(* A returned permit is swallowed while there is debt.                     *)
Release(p) ==
    IF p.debt > 0 THEN [p EXCEPT !.debt = @ - 1] ELSE SemRelease(p, 1)

-----------------------------------------------------------------------------
(* AdaptiveConcurrencyLimiter.                                             *)

Clamp(n, low, high) == IF n < low THEN low ELSE IF n > high THEN high ELSE n

(* Mutant: no queue-size allowance.                                        *)
NewLimitsWithoutAllowance(limit) ==
    {Clamp(n, MinLimit, MaxLimit) : n \in (limit \div 2)..limit}

(* int(clamp(limit * gradient + sqrt(limit), min_limit, max_limit)) for    *)
(* some gradient in [0.5, 1.0], in integers: n <= limit + sqrt(limit) and  *)
(* limit / 2 + sqrt(limit) < n + 1, then the clamp.                        *)
NewLimits(limit) ==
    LET reached(n) ==
            /\ n <= limit \/ (n - limit) * (n - limit) <= limit
            /\ 2 * (n + 1) > limit
            /\ (2 * (n + 1) - limit) * (2 * (n + 1) - limit) > 4 * limit
    IN  {Clamp(n, MinLimit, MaxLimit) : n \in {m \in 0..(2 * limit) : reached(m)}}

-----------------------------------------------------------------------------
(* Requests: _admit, the handler, and the end of acquire's block.          *)

Idle(r) ==
    /\ r \notin running /\ r \notin pool.granted
    /\ \A i \in DOMAIN pool.waiting : pool.waiting[i] # r

(* A permit is free and nobody is ahead: admitted without a wait, whatever *)
(* the criticality.                                                        *)
Admit(r) ==
    /\ Idle(r) /\ ~Locked
    /\ pool' = [pool EXCEPT !.free = @ - 1]
    /\ running' = running \cup {r}

(* LOW is shed at once.                                                    *)
ShedLow(r) == r \in Low /\ Idle(r) /\ Locked /\ UNCHANGED vars

WaitHigh(r) ==
    /\ r \in High /\ Idle(r) /\ Locked
    /\ pool' = [pool EXCEPT !.waiting = Append(@, r)]
    /\ UNCHANGED running

(* A granted waiter is scheduled.                                          *)
Resume(r) ==
    /\ r \in pool.granted
    /\ pool' = WakeWaiters([pool EXCEPT !.granted = @ \ {r}])
    /\ running' = running \cup {r}

(* high_criticality_wait_seconds are over: shed.  A permit that arrived in *)
(* the meantime goes back.                                                 *)
TimeOutWaiting(r) ==
    /\ \E i \in DOMAIN pool.waiting :
          /\ pool.waiting[i] = r
          /\ pool' = WakeWaiters([pool EXCEPT !.waiting = RemoveAt(@, i)])
    /\ UNCHANGED running

TimeOutGranted(r) ==
    /\ r \in pool.granted
    /\ pool' = WakeWaiters([pool EXCEPT !.granted = @ \ {r}, !.free = @ + 1])
    /\ UNCHANGED running

(* The handler is done, whatever its outcome: record_rtt, which            *)
(* closes the window and resizes if it is full, then the release.          *)
Finish(r) ==
    /\ r \in running
    /\ running' = running \ {r}
    /\ \E limit \in {pool.target} \cup NewLimits(pool.target) :
          pool' = Release(Resize(pool, limit))

Next ==
    \E r \in Requests :
        \/ Admit(r) \/ ShedLow(r) \/ WaitHigh(r) \/ Resume(r)
        \/ TimeOutWaiting(r) \/ TimeOutGranted(r) \/ Finish(r)

Spec == Init /\ [][Next]_vars

-----------------------------------------------------------------------------
(* Properties.                                                             *)

InUse == running \cup pool.granted

(* The pool neither loses nor invents permits, through any interleaving of *)
(* resizes, returns, waits and timeouts: free and held permits together    *)
(* are target + debt (the invariant of adaptive.py's docstring), and a     *)
(* granted permit counts as held.                                          *)
PermitsConserved ==
    /\ running \cap pool.granted = {}
    /\ pool.free + Cardinality(InUse) = pool.target + pool.debt

(* The pool never holds more permits than max_limit, however shrinks and   *)
(* grows alternate, so neither do requests in flight exceed it.            *)
CapacityBounded ==
    /\ pool.target + pool.debt <= MaxLimit
    /\ Cardinality(running) <= MaxLimit

(* No lost wakeup: a permit is never left free beside a waiting request    *)
(* unless a granted waiter, about to be scheduled, will hand it on.        *)
NoLostWakeup == pool.waiting # <<>> /\ pool.free > 0 => pool.granted # {}

(* "never a deadlock": the gradient cannot push the limit below 4, the     *)
(* fixed point of limit / 2 + sqrt(limit), however low min_limit is.       *)
LimitFloor == pool.target >= Least(4, InitialLimit)

(* "Concurrency limit exceeded, low-criticality -> 503 immediately": a     *)
(* LOW request is admitted only while fewer than limit are in flight.  TLC *)
(* refutes it (README).                                                    *)
ShedsOverLimit ==
    [][\A r \in Low : r \in running' \ running =>
          Cardinality(running) < pool.target]_vars

-----------------------------------------------------------------------------
(* The inductive invariant.                                                *)

(* A request is in one place, and in the queue once.                       *)
Separate(p, busy) ==
    /\ \A i, j \in DOMAIN p.waiting : p.waiting[i] = p.waiting[j] => i = j
    /\ \A i \in DOMAIN p.waiting : p.waiting[i] \notin p.granted \cup busy
    /\ p.granted \cap busy = {}

(* The permits of a pool: free, granted, and held by the busy.             *)
Permits(p, busy) == p.free + Cardinality(busy \cup p.granted)

IInv ==
    /\ TypeOK /\ Separate(pool, running)
    /\ Permits(pool, running) = pool.target + pool.debt
    /\ pool.target + pool.debt <= MaxLimit
    /\ NoLostWakeup /\ LimitFloor
=============================================================================
