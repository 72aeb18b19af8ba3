# Verification of sankalp

sankalp runs sagas: workflows of steps whose effects are undone, newest first, when the
saga cannot be completed. Postgres is queue, state and ledger; any number of worker processes
claim rows from it; events leave through an outbox table to a Redis stream; an HTTP API in
front is protected by a rate limiter and by an adaptive concurrency limiter. This directory
holds TLA+ models of those parts, TLC runs that check them on small instances, and TLAPS
proofs of the most important results for instances of every size.

Source paths below are relative to `src/src/sankalp/`.

## Inventory

| Part | State | Operations | Hard behaviour |
|---|---|---|---|
| Engine (`engine/executor.py`, `engine/definition.py`, `storage/workflows.py`) | `workflows` row, `step_outputs`, in-memory execution | replay, run, checkpoint, retry, begin compensation, unwind, finish, fail dirty, defer | effect and checkpoint are two transactions; cancel races every write; replies of commits are lost |
| Queue and leases (`storage/queue.py`, `engine/lease.py`, `engine/worker.py`) | owner, lease, fencing token, `run_after` | claim, renew, expire, take over | a stalled execution runs on as a zombie beside its replacement, perhaps on the same worker |
| Ledger workflow (`workflows/transfer.py`) | `ledger_entries` | post, reverse (idempotent) | entries may exist without a checkpoint |
| Outbox and drain (`storage/outbox.py`, `engine/drain.py`, `engine/publisher.py`) | `outbox` rows, stream, drain loops | insert in a checkpoint, claim, publish, mark, record failure, stop | ids commit out of order; several drains; publish and mark cannot be atomic |
| Circuit breaker (`resilience/circuit.py`) | breaker state, counters, calls in flight | allow, record success or failure, trip | results of calls admitted in an earlier state; one probe only |
| Rate limiter (`resilience/ratelimit.py`) | the bucket in Redis: tokens, time, expiry | refill, take, deny, expire | clocks that differ; late, repeated and lost scripts; rounding |
| Adaptive limiter (`resilience/adaptive.py`, `api/middleware.py`) | permits, debt, waiters, limit | admit, shed, wait, time out, release, resize | a timeout races a grant; resizing while permits are held and waited for |
| Worker loop (`engine/worker.py`) | slots, tasks, renewers, shutdown flags | poll, claim, spawn, drain, collect, close | slot accounting; demands to stop in every state, the drain included; a cancellation during a checkpoint |
| API (`api/main.py`) | none of its own; requests in flight, pool connections | submit (idempotent), get, cancel | duplicate submits; answers made of two reads; connections held while blocked |
| Migration tool (`storage/migrate.py`) | `schema_migrations`, advisory lock, the schema itself | ensure database, lock, verify, apply, record | several runners and checkouts; death between SQL and record; two databases |

The parts interact through the row: the API inserts and cancels, workers claim and write with
`WHERE owner_id = .. AND fencing_token = ..`. A checkpoint inserts its events in the same
transaction; from there the drain takes over. The limiters see only requests. So the parts are
modelled separately and meet in what they promise each other: `Api` runs beside `SagaLifecycle`,
the specification that `Saga` implements; `Worker` sees of an execution only that it runs, writes
a checkpoint or leaves; `Outbox` has a nondeterministic filler of its table.

`PROJECT.json` lists under "hazards" what is hard to test in this code, each at its line with
the properties that would catch it going wrong; the properties were written from that list.

## Modules

| Module | What it is |
|---|---|
| `Saga` | One workflow row, its checkpoints, its ledger entries, and all executions of it. |
| `SagaLifecycle` | The promise: one sequential executor that commits, turns round at most once, and undoes. |
| `SagaRefinement` | The refinement mapping from `Saga` to `SagaLifecycle`. |
| `SagaProofs` | The proofs about them: safety of `Saga`, and the refinement. |
| `MCSaga` | The module the saga runs check. |
| `Outbox`, `OutboxProofs`, `MCOutbox` | The outbox table, its drains and the stream. |
| `Breaker`, `BreakerProofs` | The circuit breaker and the calls that go through it. |
| `Admission`, `AdmissionProofs` | The adaptive concurrency limiter. |
| `Worker`, `WorkerProofs` | One worker process: polling, slots, tasks, shutdown. |
| `TokenBucket`, `TokenBucketProofs` | The rate limiter's bucket and the calls of the script. |
| `Api`, `ApiProofs` | The routes over one key, composed with `SagaLifecycle`. |
| `Migrate`, `MigrateProofs`, `MCMigrate` | Concurrent runs of the migration tool. |

### Saga

Executions are indexed by their fencing token, because that is what identifies a claim: the
same worker may hold several, only the latest of which owns the row. `pc` says where an
execution is (`claimed`, `loop`, `invoking`, `acted`, `failing`, `dirty`), `mode` is
`claimed.status`, `todo` is what the checkpoints it loaded leave it to run, and `ctx` holds the
rest of its memory: attempts of the latest undo, buffered events, `Lease.lost`.

Each action is one atomic step of the code: a SQL statement or transaction, or the stretch
between two awaits. `CheckpointStep` is `commit_step_output` (position, checkpoint and events
in one transaction), which `CommitStep` uses when the reply arrives and `CommitReplyLost` when
it does not; `FinishReplyLost` does the same for SUCCESS. `WriteGuard` is the WHERE clause of
whichever write comes next, and `Preempted` what happens when it matches no row. `Abandon`
stands for a crash, a hard shutdown and an error that escapes the executor: all three leave the
row to its lease. `ScheduleRetry` has no status guard, as in the code. A worker that does not
import the definition (`Workers \ Importers`) leaves a forward claim to its lease
(`UnknownType`) and hands an unwind back (`Defer`).

Time is abstract. `lease` is none, live or expired; `run_after` is due or not. `LeaseExpires`
may hit a running execution, which models a stall or a partition longer than the lease, and
costs one of `MaxDisruptions`; so do `Abandon` and a claim by a worker that lacks the definition. The
lease of an ended execution expires freely.

An effect is the ledger entry that a step posts, in its own transaction before the checkpoint and
at most once (`ON CONFLICT DO NOTHING`). Zombies post too: nothing in a step looks at the row.

A build whose definition lacks a committed step gives up the unwind when it comes to that step's record
(`MissingStep`), before it asks for a compensation or renews its lease. So a saga may end FAILED_DIRTY with
nothing left to undo, because of a read-only step; `SagaLifecycle!GiveUp` allows it whenever a committed step was not
undone. Left out: payloads and outputs, and error texts.

### Outbox

`InsertEvent` hands out ids in order; `CommitEvent` and `RollBackEvent` end the transactions in
any order. A drain's claim locks a batch (`HoldsLocks`), the publish and the mark follow under
the same locks. `PublishFails` may leave any part of the batch in the stream, since the pipeline
is no transaction, and ends in `failed` (an error the loop catches) or `escaping` (a `RedisError`,
which it does not). `RecordFailure` is the separate transaction that counts the attempt and waits for row
locks. `Embedded` drains run inside a worker, where nothing restarts a dead one.

### Breaker

`allow`, `record_success` and `record_failure` contain no await, so each is one step; requests
interleave in the Redis call. A call is cut off after the budget (50 ms by default), the
cooldown is at least half of its base of 5 s: `CooldownEnds` therefore waits for calls in flight.
`Refuse` is an `allow` that returns False. Redis is up, down (timeouts and transport errors)
or erroring (it answers, with a `ResponseError`).

### Admission

One event loop, so a step ends where a task awaits. The pool is a record of free permits, target,
debt, pending waiters in order, and waiters that were granted a permit but have not run yet:
that last state is where a timeout can still strike (`TimeOutGranted`). `SemRelease` and
`WakeWaiters` describe `asyncio.Semaphore` of Python 3.14, which is not part of this repository.
`NewLimits` is the integer form of `int(clamp(limit * g + sqrt(limit), min, max))` for the
gradients `g` in [0.5, 1]; which gradient a window yields is left open. `Finish` records the
round-trip time (which may resize) and then releases, in the order of the middleware.

### Worker

Everything is one event loop, so a step ends where a coroutine awaits. `loop` is where
`Worker.run`, and then `run_worker`, has got to; `free` is the semaphore, `taken` what the loop
itself holds between `_acquire_slots` and the end of the claim. A task is `spawned` until the event
loop has run it once, `committing` inside the shield of `_commit_shielded`, `landing` when a
cancellation has struck there and the write is awaited, `closing` in the `finally` of `_run_one`.
`RenewerDies` is an exception that `_renew_until_done` does not name; `Close` collects it and
releases the slot in any case. `GraceEnds` needs every task to have been scheduled, because the drain yields to
the event loop first.

Demands are what comes from outside. Signals: a first one (`FirstSignal`), a second (`SecondSignal` cancels every
task), and, once the handlers have been removed, SIGTERM, which kills (`SignalKills`), and SIGINT, which raises
KeyboardInterrupt, whereupon `asyncio.run` cancels every task of the process, shielded writes and outbox drain included
(`SignalInterrupts`). And cancellations of the task that runs the worker, whose effect depends on what it awaits: while it polls it
goes on to its drain (`CancelRun`); in `asyncio.wait` it leaves the drain and the tasks (`CancelWait`); in `gather` the
cancellation is passed on to the tasks, and since `return_exceptions` is set all of them are still awaited
(`CancelGather`); in the `finally` of `run_worker` the outbox drain is cancelled instead, or the close of the Redis
client, and the pool stays open (`CancelFinally`, `LeaveOpen`).

Tasks that were left behind go on. If the pool is closed under them their writes are refused (`PoolGone`; a write that
holds a connection may still land, since `pool.close` waits for it), and when `run_worker` has ended `asyncio.run` cancels
them (`RunnerCancels`). A worker that is embedded otherwise than by `main` would leave them running.

### TokenBucket

One action runs the whole Lua script (Redis runs it atomically). A call reads its process's clock at
`Send`, any reading within `MaxSkew` of true time, and the script may run up to `MaxLatency`
later, twice if the client resends, or never. Tokens are counted in ticks of refill, so the arithmetic is
exact; `Second` is the unit `Retry-After` is rounded to. `expires` is kept as a time and the hash beyond
it, so that the bucket that expired can be compared with the one that would have been refilled.
`issued`, `spent`, `rewound` and `promises` are history. The assumption `Cost <= Capacity` is not
enforced by the configuration: with a dearer route every request is denied for ever.

### Api

Requests of one workflow type and key, each a handler that proceeds by statements. `row` is none,
open (inserted, not committed) or there: an INSERT blocks while another one is open, which is what
`ON CONFLICT DO NOTHING` does in Postgres. `Holders` are the requests that keep a connection across
statements; everything else needs a free one for its statement. `Fail` is any end without an
answer and rolls back; `CommitReplyLost` is a commit nobody hears of. The engine is the next-state relation of
`SagaLifecycle`, from the moment the row is there; `current_step` follows its checkpoints (`Marked`).
Of the record that is read the model keeps the id, the current step and whether it is SUCCESS.

### Migrate

A run takes any target and any checkout that `discover` accepts, so every disagreement of two
checkouts occurs: edited, missing, additional and out-of-order files. Advisory locks belong to one database and
end with the session. A transactional migration and its row are one step; one marked `no-transaction` is two
(`Execute`, `Record`). `Fail` is a refusal of `_verify`, an error (a `CREATE DATABASE` that came second among
them), or death; the session and the lock go with it.

Definitions commented as mutants change one definition the way a plausible bug would; TLC shows
that each property fails with one of them in place. Nothing else uses them.

## Runs

| Run | Config | Result |
|---|---|---|
| `saga_safety` | `Saga.cfg` | holds, 1.47 million states |
| `saga_live` | `SagaLive.cfg` | holds, 27 thousand states |
| `saga_cancel` | `SagaCancel.cfg` | **violated**: `NoFalseSuccess` |
| `saga_reconcile` | `SagaReconcile.cfg` | **violated**: `Reconciled` |
| `outbox` | `Outbox.cfg` | holds, 203 thousand states |
| `breaker` | `Breaker.cfg` | holds |
| `breaker_wedge` | `BreakerWedge.cfg` | **violated**: `ProbeDecides` |
| `admission` | `Admission.cfg` | holds |
| `worker` | `Worker.cfg` | holds, 266 thousand states |
| `bucket` | `TokenBucket.cfg` | holds, 2.4 million states |
| `api` | `Api.cfg` | holds, 514 thousand states |
| `migrate` | `Migrate.cfg` | holds, 1.6 million states up to symmetry |

A finished saga stutters by `Finished`. Deadlock is not checked where the system really may stop: a worker
that has shut down, a bucket at the end of its time, requests that are all answered, runs of the
tool that have ended. That nobody is stuck before is what the liveness properties of those runs say.

What the saga runs show. `OwnerSeesCheckpoints`: the checkpoints an execution loaded at its
start stay right for as long as it owns the row. `ForwardPrefix` and `UnwindOrder`: the
committed steps are a prefix, the undone ones a suffix of what there is to undo.
`NoUndoWhileForward`: once anything was undone, the saga never runs forward again.
`OutcomeIsTrue`: SUCCESS and COMPENSATED are true of checkpoints and ledger.
`LedgerOneStepAhead`: however many zombies ran, the ledger is one step away from the
checkpoints at most. `EventsMatchCheckpoints`: one event per checkpoint, none without.
`TerminalIsFinal`. `ImplementsLifecycle` puts the control together: seen from the row, there is a
single sequential executor. `EventuallyTerminal`: every saga ends.

Outbox: `PublishedWasSent` (at least once), `DuplicatesNeedFaults` (the row locks prevent duplicates;
only failures cause them), `AttemptsAreCounted`, `EveryEventPublished`, `StopTakesEffect`.
Breaker: `ProbeIsAlone`, `RecoversWithRedis`, `StopsPayingTimeouts`; `IInv`, the invariant the proofs use.
Admission: `PermitsConserved` (the invariant stated in the docstring of `adaptive.py`),
`CapacityBounded`, `NoLostWakeup`, `LimitFloor`.

Worker: `SlotsConserved` (slots are free, held by the loop or by one task, so concurrency is never exceeded),
`AwaitsEveryTask` (one demand to stop, wherever it strikes, leaves no task behind; it takes a second one inside the drain to
make `run` return, or the pool close, with a task alive), `OrderlyShutdownKeepsCheckpoints`
(one demand never cuts a checkpoint short), `KeepsClaiming` and `RequestsSuffice` (after a request to stop, and any number
more, the worker ends, unless every slot has leaked).
Bucket: `AdmissionBounded` (what is admitted over any interleaving), `ExpiryUnobservable` (the TTL never
hands out tokens), `RetryAfterSuffices` (who waits as told, by the clock of the process that said so, is admitted unless
overtaken; a retry served by a process that lags behind that one may be told to wait again).
API: `RepliesAgree` (idempotency), `LoserFindsWinner` (the assertion in `submit_workflow`),
`ResponsesFit` (the two reads of a response fit), `EveryRequestAnswered`.
Migrate: `RecordIsTrue`, `ForwardOnly`, `SuccessMeansInSync`.

### Disagreements found

1. `saga_cancel`: the retry write guards on ownership only and turns a row that was cancelled
   back to PENDING; the saga may then reach SUCCESS.
2. `saga_reconcile`: an entry posted by a step whose checkpoint fails for good is not
   reversed, and the saga ends COMPENSATED with an unbalanced ledger.
3. `breaker_wedge`: a half-open probe answered with an error leaves the circuit half-open. The theorem
   `WedgePermanent` says that nothing but a restart ends this.

`PROJECT.json` quotes the line each one contradicts. The modules state eight more sentences of the
repository that TLC refutes when they are added to the module's configuration:

4. `Outbox!DrainNeverDies` (`engine/worker.py:386`, "which should not happen"): redis-py's errors do not derive from
   what `DrainLoop.run` catches, so a Redis error ends the drain task of a worker for good.
5. `Saga!CancelNeedsNoLease` (`docs/build-log-phase3.md:277`, "never both"): a healthy worker that reaches the end of a
   cancelled saga leaves its lease on the row, so the unwind waits for the steps and for the lease.
6. `Breaker!OnlyProbesClose` (`resilience/circuit.py:13`): the late success of a call from before the trip closes an
   open circuit.
7. `Admission!ShedsOverLimit` (`docs/spec.md:514`): after a shrink, idle permits still admit LOW requests above the
   new limit.
8. `TokenBucket!SkewBurstIsOneTime` (`resilience/ratelimit.py:93`, "a one-time bounded burst"): each call stores its own
   clock as the bucket's time, so alternating calls of a lagging and a leading process refill the skew
   each time. `AdmissionBounded` is what does hold. (With `Cost` 1, `MaxIssued` 3, `MaxTime` 4 and `MaxRuns` 12.)
9. `Worker!ShutdownIsBounded` (`engine/worker.py:91`, "regardless"), under `HangSpec`: a saturated worker is blocked in
   `_acquire_slots`, and the grace period starts only after it; with steps that hang it never does.
10. `Worker!NeverAbandoned` (`engine/worker.py:302`, "every task is cancelled and then awaited, never abandoned"): a
   second cancellation that strikes in `asyncio.wait` leaves the tasks neither cancelled nor awaited, and `run_worker`
   goes on to close the pool under them. A SIGINT there cancels the tasks, but the shielded writes too.
   `AwaitsEveryTask` and `OrderlyShutdownKeepsCheckpoints` are what does hold.
11. `Worker!SecondSignalSuffices` (`engine/worker.py:357`, "an operator's second SIGTERM should not need a SIGKILL"), under
   `FairSpec`: a task that is cancelled before its first turn never runs its `finally`, so its slot is lost
   (`leaked`). Two signals that both find a full house of unscheduled tasks leave the loop blocked in
   `_acquire_slots` with no slot ever to come. `RequestsSuffice` says that this is the only way.

Also seen: the handlers are removed before the drain, so a signal during the drain has its default effect: SIGTERM
kills the process, and SIGINT cancels everything at once. A 409 of the cancel route may say "is PENDING",
because of item 1. A migration marked `no-transaction` whose run dies before its row is written is executed
again, against the docstring's "a crash mid-run leaves no half-applied version"; `RecordIsTrue` says so. Two
runners that find a database missing both create it, and one fails. A dry run creates missing databases.

### Bounds

- Saga, safety: three steps of which 1 and 3 are compensable (so that the unwind skips one),
  two workers of which one lacks the definition, two attempts forward and two per undo, six claims, two disruptions. Two
  disruptions allow two zombies beside an owner, or a zombie and a crash; a retry after a takeover, a
  takeover in the unwind and a deferral all fit into six claims.
- Saga, liveness: the same three steps, one disruption, five claims. Attempts and disruptions are finite, so
  a saga needs finitely many claims: at most one more than `MaxAttempts` for retries and the unwind, and one
  per disruption and per lease left behind. The bound on claims is not what ends it: `EventuallyTerminal`
  would fail if claims ran out first.
- Outbox: three events, two drains, batches of two (so that a batch may be full or short), two
  faults: a failure of the publish followed by a failure of the record, or failures of both drains.
- Breaker: three requests and a threshold of two, so that a late result exists beside the two
  failures that trip; four changes of Redis's condition.
- Admission: nine requests on limits 1 to 12, starting at 5. Nine requests exceed the small limits, so
  waiting and shedding happen. The limit must exceed 4 to shrink at all, and only from 11 on does one
  shrink leave a debt of two after the release that follows it, so that a grow meets more debt than its
  own release would pay.

- Worker: two slots, batches of two and three tasks, so that batches are short, the loop blocks on a
  full house and a task is reused; two checkpoints per execution; three demands: the two the code tells apart, and one
  after them. Demands strike at every await of `run` and `run_worker`.
- Bucket: capacity and cost 3 ticks, two ticks a second (so that rounding matters), clocks one tick off, latency
  one tick, eight ticks and four script runs: the key's life is six ticks, so it expires and is used again; one loss of data.
- API: two submits that race, one of an unregistered type, one get and one cancel; a pool of two, which
  the submits can use up; a saga of two steps, one compensable; one request fails. Proved for all sizes.
- Migrate: two versions, one of them without a transaction, two editions of each, two runners, three runs in all: a
  race and a run before or after it.

### Fairness

Safety is checked without fairness. For `EventuallyTerminal`: an importing worker keeps
polling (`_poll_forever`), executions are scheduled, clocks advance (an ended execution's lease
expires, `run_after` passes). Nothing is assumed about crashes, stalls, cancels, renewals or other workers'
claims. For the outbox: drains are scheduled and dead processes replaced, but not a drain that died
inside a live worker; `EveryEventPublished` rests on another drain (item 4). For the breaker: calls are cut off by their timeout, requests keep coming, the cooldown ends.
For the worker: the event loop schedules what is ready, timers fire, claims and checkpoint writes return or fail
(`db_command_timeout_seconds`), steps end; signals are never assumed. For the API: a handler that can take its
next statement does; nothing of the engine. All of it is weak fairness.

## Proofs

For every number of steps, every set of compensable steps, all sets of workers and all limits
(the named ASSUMEs of `Saga`), `SagaProofs` proves `IInv` inductive and derives the safety
properties; `TerminalStaysTerminal` proves the action property `TerminalIsFinal` from it. None of
the safety properties is inductive alone. The strengthening says
- `Fencing`: tokens are issued in order, and an owned row is owned by the latest;
- `TurnsOnce`: once one execution was claimed to unwind, so is every later one, and the
  status says so; before, nothing is undone;
- `ZombiesLagBehind`: what any execution believes to be behind it really is committed, so a
  zombie can only repeat the next effect, never jump ahead. This is what bounds the ledger;
- `Directions`, `EventBuffers`: which places belong to which direction, and one event in the
  buffer exactly when the effect is done.

The argument for a checkpoint: the writer owns the row, so by `OwnerSeesCheckpoints` its next step is the first
uncommitted one (or the last not undone), so prefix and order are kept; everyone else's memory only
gets staler, which `ZombiesLagBehind` allows.

The last part of `SagaProofs` uses `IInv` to map each step of `Saga` to a step or a stutter of
`SagaLifecycle` (`RefinesLifecycle`).

`OutboxProofs` proves that row locks are exclusive and that each copy in the stream is explained (`CopyInv`), hence
at-least-once publishing and the bound on duplicates, for any number of events, drains and faults.
`AttemptsAreCounted` counts the drains that have sent an event and not yet marked it. Since row locks are
exclusive there is one at most, so the invariant (`AttemptsExplained`) asks only whether there is one, and the
lemma `SentByOne` goes back to the count.

`AdmissionProofs`: the invariant is conservation (free, granted and held permits are target plus debt) together with
`Separate`: nobody is two of waiting, granted and running, and nobody waits twice, without which moving a request from one to
another need not keep the count. Each operation of the pool has a lemma that says what it does to any pool
(`SemReleaseFacts`, `WakeWaitersFacts`, `ResizeFacts`, `ReleaseFacts`), and the actions are put together from those. `Finish` resizes
and releases in one step: a shrink leaves target plus debt as it is, a grow cancels debt first, so that target plus debt grows
to the new target at most, and `CapacityBounded` is kept. That the limit has a floor is `GradientFloor`: from a limit of 4 on,
half the limit and its square root are at least 2 each; below 4 the square root is at least half the limit, so the limit does not
shrink at all. For any requests and any limits.

`BreakerProofs`: one probe alone needs that a circuit whose cooldown is over has no call in flight (`ReadyIsQuiet`), so
that the call that makes it HALF_OPEN is the only one; `OneProbe` is the same fact without a cardinality. From the same invariant come two
action properties that are stated for their own sake: only the return of the probe takes the circuit out of
HALF_OPEN (`OnlyTheProbeMovesOn`), so once the probe has returned without a verdict nothing does (`WedgeIsForever`). For any
number of requests, any threshold and any behaviour of Redis; that the budget is shorter than the cooldown is an
assumption of the model (`CooldownEnds`).

`WorkerProofs`: `SlotsConserved` needs that the loop holds slots only across a claim (`HeldAcrossClaim`); that a
checkpoint survives needs that nothing is `landing` before a second demand or the end of the grace
(`CancelledOnDemand`), since a second cancellation would cut it short. `OneDemandAbandonsNoTask` rests on the same fact: run
leaves its polling only on a demand, so what ends the drain early is a second one. For any number of tasks, slots and demands.

`TokenBucketProofs`: `Budget` pays for every unit admitted or left by a new bucket or by the way the stored time has come;
since that time is at most `MaxSkew` ahead of true time (`TimeStored`), admission is bounded. A call runs soon
after its clock was read (`CallsInTime`), so after a life of twice the refill time the bucket is full by any
clock, given `2 * MaxSkew + MaxLatency <= Capacity` (two seconds of refill and skews of milliseconds by
default). For any capacity, cost and number of callers, and any skew and latency within that assumption
(`TimeAssumption`); `RetryAfterHonest` is about the clock of the process that denied the call.

`ApiProofs`: where a handler is says what it knows of the row (`KnowsTheRow`), and what was read of the saga
stays true of it, because checkpoints are never withdrawn and SUCCESS is final (`ReadsAge`). For any number of
requests, any pool and any saga.

`MigrateProofs`: a run between `Lock` and `Unlock` owns the lock of its database (`LockHeld`), only a holder writes
records, so a plan made under the lock stays current until the lock is given up (`PlanIsCurrent`): what is pending
comes after everything recorded, the other files are recorded as they stand. `ExecutedFirst` carries a migration
without a transaction from its SQL to its row, and `DoneSoFar` remembers the first database while the run is at the
second. For any runners, versions, editions and number of runs.

`TypeOK` is part of every inductive invariant and so proved for every component.

Every invariant and every action property that a passing run checks is proved. Model-checked only are the properties that
something eventually happens: `EventuallyTerminal`, `EveryEventPublished`, `StopTakesEffect`, `RecoversWithRedis`,
`StopsPayingTimeouts`, `KeepsClaiming`, `RequestsSuffice`, `EveryRequestAnswered`. Liveness under fairness is out of
the prover's reach. The other way round, TLC was asked of `IInv` of every module before it was proved.

## Not modelled

- Configuration (`config.py`): validation of settings; those that matter are constants here.
- Construction of pools, clients and the application (`storage/redis.py`, `_lifespan`).
- The demo workflows and their crash gates (`workflows/demo.py`, `workflows/unwind.py`,
  `workflows/_instrumentation.py`): fixtures of the crash tests. The effect of a step is that of `DemoTransfer`.
- The delays `compute_backoff` computes: the models keep that they end.
- Trimming of the Redis stream, logging, the load tests.

## Plan

1. A composition of saga and outbox: no event of a checkpoint is lost on the way to the stream.
