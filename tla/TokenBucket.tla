----------------------------- MODULE TokenBucket -----------------------------
(***************************************************************************)
(* One token bucket in Redis, shared by the API processes: the Lua script  *)
(* of resilience/ratelimit.py and the calls of TokenBucketLimiter.check    *)
(* that run it.  Each call brings its own process's wall clock.            *)
(*                                                                         *)
(* Tokens are counted by the time it takes to refill them, so that one     *)
(* tick of the clock refills one unit: Capacity is capacity / refill and   *)
(* Cost is cost / refill, in ticks.  A wall clock is any reading within    *)
(* MaxSkew of true time, which includes clocks that are stepped back.      *)
(***************************************************************************)
EXTENDS Integers

CONSTANTS
    Callers,     \* calls of check that can be under way at once
    Capacity, Cost,
    Second,      \* ticks in a second, the unit of Retry-After
    MaxSkew,     \* how far a process's wall clock is from true time
    MaxLatency,  \* how long after it is sent a call can still run
    MaxTime, MaxRuns, MaxIssued  \* bounds: the clock, script runs, units in new buckets

ASSUME BucketAssumption ==
    /\ Capacity \in Nat /\ Cost \in Nat /\ Second \in Nat \ {0}
    /\ 0 < Cost /\ Cost <= Capacity
ASSUME TimeAssumption ==
    /\ MaxSkew \in Nat /\ MaxLatency \in Nat
    /\ 2 * MaxSkew + MaxLatency <= Capacity
ASSUME BoundsAssumption == MaxTime \in Nat /\ MaxRuns \in Nat /\ MaxIssued \in Nat

NoCall == [state |-> "none", stamp |-> 0, due |-> 0]

VARIABLES
    now,      \* true time, and the time Redis expires keys by
    bucket,   \* the hash, kept here beyond its expiry for comparison
    calls,    \* scripts on their way to Redis, with the reading taken at the start
    spent,    \* units the script has admitted
    rewound,  \* how far ts has gone back, all in all
    issued,   \* units in full buckets handed out: the first, and one per loss of data
    promises, \* the clock readings that denials since the last admission asked to wait for
    runs      \* of the script

vars == <<now, bucket, calls, spent, rewound, issued, promises, runs>>

Calls == [state : {"none", "sent"}, stamp : Int, due : Int]

TypeOK ==
    /\ now \in Nat /\ runs \in Nat
    /\ bucket \in [tokens : 0..Capacity, ts : Int, expires : Int]
    /\ calls \in [Callers -> Calls]
    /\ spent \in Nat /\ rewound \in Nat /\ issued \in Nat
    /\ promises \subseteq Int

Init ==
    /\ now = 0 /\ runs = 0
    /\ bucket = [tokens |-> Capacity, ts |-> 0, expires |-> 0]
    /\ calls = [c \in Callers |-> NoCall]
    /\ spent = 0 /\ rewound = 0 /\ issued = Capacity
    /\ promises = {}

AtMost(a, b) == IF a <= b THEN a ELSE b
AtLeast(a, b) == IF a >= b THEN a ELSE b

-----------------------------------------------------------------------------
(* The script.                                                             *)

(* tokens after the refill; a lagging clock refills nothing.               *)
Refilled(stamp) == AtMost(Capacity, bucket.tokens + AtLeast(0, stamp - bucket.ts))

(* What the script finds: a key that is gone means a full bucket.          *)
Found(stamp) == IF now >= bucket.expires THEN Capacity ELSE Refilled(stamp)

Allowed(stamp) == Found(stamp) >= Cost

(* Mutants: the key lives just as long as a refill takes; a denial leaves  *)
(* the stored time alone.                                                  *)
StoredBriefly(stamp) ==
    [tokens |-> Found(stamp) - (IF Allowed(stamp) THEN Cost ELSE 0),
     ts |-> stamp, expires |-> now + Capacity]
StoredKeepsTime(stamp) ==
    [tokens |-> Found(stamp) - (IF Allowed(stamp) THEN Cost ELSE 0),
     ts |-> IF Allowed(stamp) THEN stamp ELSE bucket.ts, expires |-> now + 2 * Capacity]

(* HSET and PEXPIRE.                                                       *)
Stored(stamp) ==
    [tokens |-> Found(stamp) - (IF Allowed(stamp) THEN Cost ELSE 0),
     ts |-> stamp, expires |-> now + 2 * Capacity]

(* Mutant: the wait is truncated to whole seconds.                         *)
RetryAfterFloor(tokens) == Second * AtLeast(1, (Cost - tokens) \div Second)

(* retry_after_ms, then whole seconds, rounded up and at least one.        *)
RetryAfter(tokens) == Second * AtLeast(1, (Cost - tokens + Second - 1) \div Second)

Run(stamp) ==
    /\ runs < MaxRuns /\ runs' = runs + 1
    /\ bucket' = Stored(stamp)
    /\ spent' = spent + (IF Allowed(stamp) THEN Cost ELSE 0)
    /\ rewound' = rewound + AtLeast(0, bucket.ts - stamp)
    /\ promises' = IF Allowed(stamp) THEN {}
                   ELSE promises \cup {stamp + RetryAfter(Found(stamp))}
    /\ UNCHANGED <<now, issued>>

-----------------------------------------------------------------------------
(* The calls.                                                              *)

(* check reads the clock and sends the script.                             *)
Send(c, stamp) ==
    /\ calls[c].state = "none"
    /\ calls' = [calls EXCEPT ![c] =
                    [state |-> "sent", stamp |-> stamp, due |-> now + MaxLatency]]
    /\ UNCHANGED <<now, bucket, spent, rewound, issued, promises, runs>>

(* Redis runs it, maybe after check stopped waiting and failed open.       *)
RunCall(c) ==
    /\ calls[c].state = "sent"
    /\ Run(calls[c].stamp)
    /\ calls' = [calls EXCEPT ![c] = NoCall]

(* Redis runs it, the reply is lost and the client sends it again.         *)
RunAndResend(c) ==
    /\ calls[c].state = "sent"
    /\ Run(calls[c].stamp)
    /\ UNCHANGED calls

(* It never reaches Redis: check fails open.                               *)
LoseCall(c) ==
    /\ calls[c].state = "sent"
    /\ calls' = [calls EXCEPT ![c] = NoCall]
    /\ UNCHANGED <<now, bucket, spent, rewound, issued, promises, runs>>

(* Redis restarts without its data.                                        *)
Restart ==
    /\ issued < MaxIssued
    /\ bucket' = [tokens |-> Capacity, ts |-> bucket.ts, expires |-> now]
    /\ issued' = issued + Capacity
    /\ UNCHANGED <<now, calls, spent, rewound, promises, runs>>

(* By then a call has run or is lost.                                      *)
Tick ==
    /\ now < MaxTime /\ now' = now + 1
    /\ \A c \in Callers : calls[c].state = "sent" => now < calls[c].due
    /\ UNCHANGED <<bucket, calls, spent, rewound, issued, promises, runs>>

Next ==
    \/ Tick \/ Restart
    \/ \E c \in Callers :
          \/ \E stamp \in (now - MaxSkew)..(now + MaxSkew) : Send(c, stamp)
          \/ RunCall(c) \/ RunAndResend(c) \/ LoseCall(c)

Spec == Init /\ [][Next]_vars

-----------------------------------------------------------------------------
(* Properties.                                                             *)

(* What the bucket admits, over any interleaving of processes with         *)
(* different clocks, late and repeated calls, expiry and lost data: a full *)
(* bucket, the time that passed, and once more every rewind of the stored  *)
(* time.                                                                   *)
AdmissionBounded == spent + bucket.tokens <= issued + now + MaxSkew + rewound

(* Expiry cannot be told from a refill: whenever the key is gone, the      *)
(* next script to run would have found the bucket full anyway.             *)
ExpiryUnobservable ==
    now >= bucket.expires =>
        \A c \in Callers :
            calls[c].state = "sent" => Refilled(calls[c].stamp) = Capacity

(* A client that comes back when Retry-After says is admitted, by the      *)
(* clock of the process that denied it: as long as nobody else is admitted *)
(* first, a call with that reading finds enough tokens, whatever denied    *)
(* calls with other clocks did to the bucket.                              *)
RetryAfterSuffices == \A stamp \in promises : Found(stamp) >= Cost

(* Why: a script runs soon after its clock was read, the stored time is a  *)
(* reading taken before the key's life began, and every unit admitted or   *)
(* left is paid for by a new bucket or by the way ts has come.             *)
CallsInTime ==
    \A c \in Callers : calls[c].state = "sent" =>
        /\ now <= calls[c].due
        /\ calls[c].due - MaxLatency - MaxSkew <= calls[c].stamp
        /\ calls[c].stamp <= now + MaxSkew
TimeStored ==
    /\ bucket.ts <= now + MaxSkew
    /\ bucket.tokens = Capacity \/ bucket.ts <= bucket.expires - 2 * Capacity + MaxSkew
Budget == spent + bucket.tokens <= issued + bucket.ts + rewound

(* The inductive invariant of the proofs.                                  *)
IInv == TypeOK /\ CallsInTime /\ TimeStored /\ Budget /\ RetryAfterSuffices

(* "a one-time bounded burst, never an unbounded one": skew lets through   *)
(* at most one bucket more than a bucket and the time that passed.  TLC    *)
(* refutes it (README).                                                    *)
SkewBurstIsOneTime == spent <= 2 * issued + now + MaxSkew
=============================================================================
