------------------------------- MODULE Outbox -------------------------------
(***************************************************************************)
(* The outbox table, the drain loops that move its rows to the Redis       *)
(* stream (engine/drain.py, engine/publisher.py, storage/outbox.py), and   *)
(* the transactions that fill it.                                          *)
(*                                                                         *)
(* A drain claims a batch of unpublished rows with FOR UPDATE SKIP LOCKED, *)
(* publishes it while it holds the row locks, and marks it in the same     *)
(* transaction.  A drain either is a process of its own (sankalp-drain) or *)
(* a task inside a worker, where nothing restarts it but the end of the    *)
(* worker.  Trimming of the stream (MAXLEN) is left out.                   *)
(***************************************************************************)
EXTENDS Integers, FiniteSets

CONSTANTS
    NumEvents,  \* bound: outbox ids handed out
    Drainers,
    Embedded,   \* the drains that run inside a worker
    BatchSize,  \* settings.outbox_batch_size
    MaxFaults   \* bound: failures, crashes and shutdowns

Events == 1..NumEvents

ASSUME EventsAssumption == NumEvents \in Nat
ASSUME DrainersAssumption == Embedded \subseteq Drainers
ASSUME BoundsAssumption == BatchSize \in Nat \ {0} /\ MaxFaults \in Nat

VARIABLES
    nextId,     \* the BIGSERIAL sequence
    open,       \* ids inserted by a checkpoint transaction not yet committed
    rows,       \* committed outbox rows
    published,  \* rows whose published_at is set
    attempts,   \* outbox.attempts
    copies,     \* how often each event is in the stream
    place,      \* where each drain is
    batch,      \* its event_ids
    stopping,   \* DrainLoop._stopping
    faults

table == <<nextId, open, rows>>
vars == <<table, published, attempts, copies, place, batch, stopping, faults>>

(* "claimed" and "sent" are inside the transaction, before and after the   *)
(* publish; "failed" and "escaping" are after its rollback, with an error  *)
(* that DrainLoop.run catches or that it does not.                         *)
Places == {"polling", "claimed", "sent", "failed", "escaping", "waiting",
           "dead", "stopped", "crashed"}
Alive == {"polling", "claimed", "sent", "failed", "escaping", "waiting"}

TypeOK ==
    /\ nextId \in 1..(NumEvents + 1)
    /\ open \subseteq Events /\ rows \subseteq Events /\ published \subseteq Events
    /\ attempts \in [Events -> Nat] /\ copies \in [Events -> Nat]
    /\ place \in [Drainers -> Places]
    /\ batch \in [Drainers -> SUBSET Events]
    /\ stopping \in [Drainers -> BOOLEAN]
    /\ faults \in 0..MaxFaults

Init ==
    /\ nextId = 1 /\ open = {} /\ rows = {} /\ published = {}
    /\ attempts = [e \in Events |-> 0] /\ copies = [e \in Events |-> 0]
    /\ place = [d \in Drainers |-> "polling"]
    /\ batch = [d \in Drainers |-> {}]
    /\ stopping = [d \in Drainers |-> FALSE]
    /\ faults = 0

-----------------------------------------------------------------------------
HoldsLocks(d) == place[d] \in {"claimed", "sent"}
LockedByOthers(d) ==
    {e \in Events : \E c \in Drainers \ {d} : HoldsLocks(c) /\ e \in batch[c]}

(* ORDER BY id .. LIMIT k                                                  *)
First(k, S) == {e \in S : Cardinality({r \in S : r < e}) < k}

(* Mutants: the rows are not locked; a cursor instead of published_at.     *)
UnpublishedUnlocked(d) == rows \ published
UnpublishedAfterCursor(d) ==
    {e \in rows : \A p \in published : p < e} \ LockedByOthers(d)

(* WHERE published_at IS NULL .. SKIP LOCKED                               *)
Unpublished(d) == (rows \ published) \ LockedByOthers(d)

Count(f, S) == [e \in Events |-> IF e \in S THEN f[e] + 1 ELSE f[e]]
Move(d, p) == place' = [place EXCEPT ![d] = p]
Fault == faults < MaxFaults /\ faults' = faults + 1

-----------------------------------------------------------------------------
(* insert_events, inside the transaction of a checkpoint.  Ids are handed  *)
(* out in order; the transactions commit in any order, or roll back.       *)

InsertEvent ==
    /\ nextId <= NumEvents
    /\ nextId' = nextId + 1 /\ open' = open \cup {nextId}
    /\ UNCHANGED <<rows, published, attempts, copies, place, batch, stopping, faults>>

CommitEvent(e) ==
    /\ e \in open /\ open' = open \ {e} /\ rows' = rows \cup {e}
    /\ UNCHANGED <<nextId, published, attempts, copies, place, batch, stopping, faults>>

RollBackEvent(e) ==
    /\ e \in open /\ open' = open \ {e}
    /\ UNCHANGED <<nextId, rows, published, attempts, copies, place, batch, stopping, faults>>

-----------------------------------------------------------------------------
(* DrainLoop.run and drain_once.                                           *)

ClaimBatch(d) ==
    /\ place[d] = "polling" /\ ~stopping[d] /\ Unpublished(d) # {}
    /\ batch' = [batch EXCEPT ![d] = First(BatchSize, Unpublished(d))]
    /\ Move(d, "claimed")
    /\ UNCHANGED <<table, published, attempts, copies, stopping, faults>>

(* Mutant: the loop does not look at _stopping when it is idle.            *)
ClaimNothingRegardless(d) ==
    /\ place[d] = "polling" /\ Unpublished(d) = {}
    /\ Move(d, "waiting")
    /\ UNCHANGED <<table, published, attempts, copies, batch, stopping, faults>>

(* Nothing to publish: wait for the poll interval.                         *)
ClaimNothing(d) ==
    /\ place[d] = "polling" /\ ~stopping[d] /\ Unpublished(d) = {}
    /\ Move(d, "waiting")
    /\ UNCHANGED <<table, published, attempts, copies, batch, stopping, faults>>

(* The claim itself fails: event_ids is empty, so nothing is recorded.     *)
ClaimFails(d) ==
    /\ place[d] = "polling" /\ ~stopping[d] /\ Fault
    /\ Move(d, "waiting")
    /\ UNCHANGED <<table, published, attempts, copies, batch, stopping>>

Publish(d) ==
    /\ place[d] = "claimed"
    /\ copies' = Count(copies, batch[d])
    /\ Move(d, "sent")
    /\ UNCHANGED <<table, published, attempts, batch, stopping, faults>>

(* The pipeline is not a transaction: some of the entries may be out.  An  *)
(* OSError is caught by run; the errors of redis-py derive from RedisError *)
(* and are not.                                                            *)
PublishFails(d, out, p) ==
    /\ place[d] = "claimed" /\ out \subseteq batch[d] /\ Fault
    /\ p \in {"failed", "escaping"}
    /\ copies' = Count(copies, out)
    /\ Move(d, p)
    /\ UNCHANGED <<table, published, attempts, batch, stopping>>

(* Mutants: rows may be marked before the publish; attempts are not        *)
(* counted on success.                                                     *)
MarkEarly(d) ==
    /\ place[d] \in {"claimed", "sent"}
    /\ published' = published \cup batch[d]
    /\ attempts' = Count(attempts, batch[d])
MarkUncounted(d) ==
    /\ place[d] = "sent"
    /\ published' = published \cup batch[d]
    /\ UNCHANGED attempts

(* mark_published, and the commit.                                         *)
Mark(d) ==
    /\ place[d] = "sent"
    /\ published' = published \cup batch[d]
    /\ attempts' = Count(attempts, batch[d])

MarkPublished(d) ==
    /\ Mark(d)
    /\ batch' = [batch EXCEPT ![d] = {}]
    /\ Move(d, "polling")
    /\ UNCHANGED <<table, copies, stopping, faults>>

(* The mark or the commit fails and is rolled back, or its reply is lost.  *)
MarkFails(d) ==
    /\ place[d] = "sent" /\ Fault
    /\ Mark(d) \/ UNCHANGED <<published, attempts>>
    /\ Move(d, "failed")
    /\ UNCHANGED <<table, copies, batch, stopping>>

(* record_publish_failure: an UPDATE on another connection, which waits    *)
(* for the row locks of a drain that has claimed the rows meanwhile.       *)
RecordFailure(d) ==
    /\ place[d] \in {"failed", "escaping"}
    /\ batch[d] \cap LockedByOthers(d) = {}
    /\ attempts' = Count(attempts, batch[d])
    /\ batch' = [batch EXCEPT ![d] = {}]
    /\ Move(d, IF place[d] = "failed" THEN "waiting" ELSE "dead")
    /\ UNCHANGED <<table, published, copies, stopping, faults>>

(* It fails too; its database error replaces the first one, and is caught. *)
RecordFails(d) ==
    /\ place[d] \in {"failed", "escaping"} /\ Fault
    /\ batch' = [batch EXCEPT ![d] = {}]
    /\ Move(d, "waiting")
    /\ UNCHANGED <<table, published, attempts, copies, stopping>>

(* The poll interval or the backoff is over.                               *)
Wake(d) ==
    /\ place[d] = "waiting"
    /\ Move(d, "polling")
    /\ UNCHANGED <<table, published, attempts, copies, batch, stopping, faults>>

(* A signal, or the worker's shutdown: the current batch is finished.      *)
Stop(d) ==
    /\ place[d] \in Alive /\ ~stopping[d] /\ Fault
    /\ stopping' = [stopping EXCEPT ![d] = TRUE]
    /\ UNCHANGED <<table, published, attempts, copies, place, batch>>

LeaveLoop(d) ==
    /\ place[d] = "polling" /\ stopping[d]
    /\ Move(d, "stopped")
    /\ UNCHANGED <<table, published, attempts, copies, batch, stopping, faults>>

(* The process is killed: an open transaction is rolled back.              *)
Crash(d) ==
    /\ place[d] \in Alive \cup {"dead"} /\ Fault
    /\ batch' = [batch EXCEPT ![d] = {}]
    /\ Move(d, "crashed")
    /\ UNCHANGED <<table, published, attempts, copies, stopping>>

(* The process is replaced.  A drain that died inside a worker does not    *)
(* end its process.                                                        *)
Restart(d) ==
    /\ \/ place[d] \in {"crashed", "stopped"}
       \/ place[d] = "dead" /\ d \notin Embedded
    /\ Move(d, "polling")
    /\ stopping' = [stopping EXCEPT ![d] = FALSE]
    /\ UNCHANGED <<table, published, attempts, copies, batch, faults>>

-----------------------------------------------------------------------------
Drain(d) ==
    \/ ClaimBatch(d) \/ ClaimNothing(d) \/ Publish(d) \/ MarkPublished(d)
    \/ RecordFailure(d) \/ Wake(d) \/ LeaveLoop(d)

Break(d) ==
    \/ ClaimFails(d) \/ MarkFails(d) \/ RecordFails(d) \/ Stop(d) \/ Crash(d)
    \/ \E out \in SUBSET batch[d], p \in {"failed", "escaping"} : PublishFails(d, out, p)

Next ==
    \/ InsertEvent
    \/ \E e \in Events : CommitEvent(e) \/ RollBackEvent(e)
    \/ \E d \in Drainers : Drain(d) \/ Break(d) \/ Restart(d)

Spec == Init /\ [][Next]_vars

(* Drains are scheduled, transactions end, and processes are replaced.     *)
Fairness == \A d \in Drainers : WF_vars(Drain(d)) /\ WF_vars(Restart(d))

FairSpec == Spec /\ Fairness

-----------------------------------------------------------------------------
(* Properties.                                                             *)

(* At least once: no row is marked published that is not in the stream,    *)
(* and no event of a rolled back checkpoint ever is.                       *)
PublishedWasSent ==
    /\ \A e \in published : copies[e] > 0
    /\ \A e \in Events : copies[e] > 0 => e \in rows

(* Duplicates need a failure: with any number of drains, an event is in    *)
(* the stream at most once plus once per failure, crash or shutdown so     *)
(* far.  The row locks, held across the publish, are what ensures it.      *)
DuplicatesNeedFaults == \A e \in Events : copies[e] <= 1 + faults

(* attempts counts publishes, not successes: a published row has been      *)
(* counted, and no publish goes uncounted but the one in progress and one  *)
(* per failure (its record may be lost to a crash or to another failure).  *)
AttemptsAreCounted ==
    \A e \in Events :
        /\ e \in published => attempts[e] > 0
        /\ copies[e] <= attempts[e] + faults +
              Cardinality({d \in Drainers : place[d] = "sent" /\ e \in batch[d]})

(* Every committed event is published in the end, through failures,        *)
(* crashes and shutdowns, as long as one drain can be replaced when it     *)
(* dies.                                                                   *)
EveryEventPublished == \A e \in Events : (e \in rows) ~> (e \in published)

(* stop takes effect: the loop finishes its batch and leaves, or dies.     *)
StopTakesEffect ==
    \A d \in Drainers : stopping[d] ~> (place[d] \notin Alive \/ ~stopping[d])

(* No exception escapes DrainLoop.run: that "should not happen"            *)
(* (run_worker).  TLC refutes it (README).                                 *)
DrainNeverDies == \A d \in Drainers : place[d] # "dead"

-----------------------------------------------------------------------------
(* The inductive invariant: locked rows are owed, are locked by one drain, *)
(* and an event that is neither marked nor about to be has only copies     *)
(* that some failure left behind.                                          *)
LocksHeld ==
    /\ published \subseteq rows
    /\ \A d \in Drainers : batch[d] \subseteq rows
    /\ \A d \in Drainers : HoldsLocks(d) => batch[d] \cap published = {}
    /\ \A c, d \in Drainers :
          c # d /\ HoldsLocks(c) /\ HoldsLocks(d) => batch[c] \cap batch[d] = {}

Sent(e) == \E d \in Drainers : place[d] = "sent" /\ e \in batch[d]

CopiesExplained ==
    \A e \in Events :
        /\ Sent(e) => copies[e] > 0
        /\ ~Sent(e) /\ e \notin published => copies[e] <= faults

CopyInv ==
    /\ TypeOK /\ LocksHeld /\ CopiesExplained
    /\ PublishedWasSent /\ DuplicatesNeedFaults

(* What AttemptsAreCounted says, with the count of drains that have sent   *)
(* an event replaced by whether one has: there is never a second.          *)
AttemptsExplained ==
    \A e \in Events :
        /\ e \in published => attempts[e] > 0
        /\ copies[e] <= attempts[e] + faults + IF Sent(e) THEN 1 ELSE 0

IInv == CopyInv /\ AttemptsExplained
=============================================================================
