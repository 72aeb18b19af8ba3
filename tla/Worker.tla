-------------------------------- MODULE Worker --------------------------------
(***************************************************************************)
(* One worker process (engine/worker.py): the polling loop, its            *)
(* concurrency slots, the tasks that execute the claimed workflows, and    *)
(* shutdown, with the shielded checkpoint write of engine/executor.py that *)
(* shutdown must not cut short.                                            *)
(*                                                                         *)
(* Everything runs on one event loop, so a step ends where a coroutine     *)
(* awaits.  What a workflow does between its checkpoints is module Saga;   *)
(* here it is only running, writing a checkpoint, or on its way out.       *)
(***************************************************************************)
EXTENDS Integers, FiniteSets

CONSTANTS
    Tasks,        \* identities of workflow tasks, reused once a task is done
    Concurrency,  \* worker_concurrency
    Batch,        \* dequeue_batch_size
    MaxSteps,     \* bound: checkpoints one execution writes
    MaxDemands    \* bound: signals and cancellations the process receives

ASSUME TasksAssumption == IsFiniteSet(Tasks)
ASSUME SlotsAssumption == /\ Concurrency \in Nat \ {0}
                          /\ Batch \in Nat \ {0}
                          /\ MaxSteps \in Nat /\ MaxDemands \in Nat

VARIABLES
    loop,      \* where Worker.run, and run_worker after it, has got to
    free,      \* value of the semaphore _slots
    taken,     \* slots the loop itself holds
    task,      \* what each task is doing; "none" if it is not in _in_flight
    left,      \* steps each task has still to run, at most
    broken,    \* tasks whose lease renewer died of an exception it does not catch
    leaked,    \* slots no one will ever release
    lost,      \* tasks whose checkpoint write was cut short
    stopping,  \* the event _stopping
    demands,   \* signals and cancellations so far
    drain      \* the embedded outbox drain: "on", "stopping", "done", "cancelled"

slots == <<free, taken, leaked>>
vars == <<loop, free, taken, task, left, broken, leaked, lost, stopping, demands, drain>>

Polling == {"slots", "claiming", "waiting"}
(* draining: in asyncio.wait; collecting: in gather; stopped: in the       *)
(* finally of run_worker; closed: the pool is closed, left: run_worker     *)
(* ended without closing it.                                               *)
Stages == Polling \cup {"draining", "collecting", "stopped", "closed", "left", "killed"}
(* spawned: created and not scheduled yet; landing: cancelled during the   *)
(* shielded write and awaiting it; closing: in the finally of _run_one.    *)
TaskStates == {"none", "spawned", "running", "committing", "landing", "closing"}

TypeOK ==
    /\ loop \in Stages
    /\ free \in Nat /\ taken \in Nat /\ leaked \in Nat
    /\ task \in [Tasks -> TaskStates]
    /\ left \in [Tasks -> 0..MaxSteps]
    /\ broken \subseteq Tasks /\ lost \subseteq Tasks
    /\ stopping \in BOOLEAN
    /\ demands \in 0..MaxDemands
    /\ drain \in {"on", "stopping", "done", "cancelled"}

Init ==
    /\ loop = "slots" /\ drain = "on"
    /\ free = Concurrency /\ taken = 0 /\ leaked = 0
    /\ task = [j \in Tasks |-> "none"] /\ left = [j \in Tasks |-> 0]
    /\ broken = {} /\ lost = {}
    /\ stopping = FALSE /\ demands = 0

AliveIn(tasks) == {j \in Tasks : tasks[j] # "none"}
Alive == AliveIn(task)
Unstarted == {j \in Tasks : task[j] = "spawned"}
Writing == {j \in Tasks : task[j] \in {"committing", "landing"}}

-----------------------------------------------------------------------------
(* The loop.                                                               *)

(* run's finally: the drain returns at once if nothing is in flight.       *)
AfterPolling(tasks) == IF AliveIn(tasks) = {} THEN "stopped" ELSE "draining"

(* The condition of the while.                                             *)
LoopTop(tasks) == IF stopping THEN AfterPolling(tasks) ELSE "slots"

(* One slot, then whatever else is free, up to the batch size.             *)
SlotsTaken == IF Batch <= free THEN Batch ELSE free

AcquireSlots ==
    /\ loop = "slots" /\ free > 0 /\ ~stopping
    /\ free' = free - SlotsTaken
    /\ taken' = SlotsTaken
    /\ loop' = "claiming"
    /\ UNCHANGED <<task, left, broken, leaked, lost, stopping, demands, drain>>

(* Shutdown was requested while the loop waited for its slot.              *)
AcquireAndLeave ==
    /\ loop = "slots" /\ free > 0 /\ stopping
    /\ loop' = AfterPolling(task)
    /\ UNCHANGED <<task, left, broken, slots, lost, stopping, demands, drain>>

(* Mutants: an under-full batch keeps its spare slots; a failed claim      *)
(* keeps all of them.                                                      *)
ClaimReturnsKeepsSpare(S) ==
    /\ loop = "claiming"
    /\ S \subseteq Tasks \ Alive /\ Cardinality(S) <= taken
    /\ taken' = 0
    /\ task' = [j \in Tasks |-> IF j \in S THEN "spawned" ELSE task[j]]
    /\ left' = [j \in Tasks |-> IF j \in S THEN MaxSteps ELSE left[j]]
    /\ loop' = IF S = {} THEN "waiting" ELSE LoopTop(task')
    /\ UNCHANGED <<free, broken, leaked, lost, stopping, demands, drain>>
ClaimFailsKeepsSlots ==
    /\ loop = "claiming"
    /\ taken' = 0
    /\ loop' = "waiting"
    /\ UNCHANGED <<free, task, left, broken, leaked, lost, stopping, demands, drain>>

(* One slot per claimed workflow, the rest straight back.  The request to  *)
(* stop is not looked at again before the spawn.                           *)
ClaimReturns(S) ==
    /\ loop = "claiming"
    /\ S \subseteq Tasks \ Alive /\ Cardinality(S) <= taken
    /\ free' = free + (taken - Cardinality(S))
    /\ taken' = 0
    /\ task' = [j \in Tasks |-> IF j \in S THEN "spawned" ELSE task[j]]
    /\ left' = [j \in Tasks |-> IF j \in S THEN MaxSteps ELSE left[j]]
    /\ loop' = IF S = {} THEN "waiting" ELSE LoopTop(task')
    /\ UNCHANGED <<broken, leaked, lost, stopping, demands, drain>>

ClaimFails ==
    /\ loop = "claiming"
    /\ free' = free + taken /\ taken' = 0
    /\ loop' = "waiting"
    /\ UNCHANGED <<task, left, broken, leaked, lost, stopping, demands, drain>>

(* The poll interval is over, or shutdown was requested.                   *)
WaitEnds ==
    /\ loop = "waiting"
    /\ loop' = LoopTop(task)
    /\ UNCHANGED <<task, left, broken, slots, lost, stopping, demands, drain>>

-----------------------------------------------------------------------------
(* The tasks: _run_one, and _commit_shielded inside it.                    *)

TaskStep(j, from, to) ==
    /\ loop # "killed" /\ task[j] = from
    /\ task' = [task EXCEPT ![j] = to]
    /\ UNCHANGED <<loop, stopping, demands, drain>>

(* Without a pool an execution cannot even load its checkpoints.           *)
StartTask(j) ==
    /\ TaskStep(j, "spawned", IF loop = "closed" THEN "closing" ELSE "running")
    /\ UNCHANGED <<slots, left, broken, lost>>

(* A step or compensation is done and its checkpoint write is issued.      *)
StepDone(j) ==
    /\ TaskStep(j, "running", "committing") /\ loop # "closed"
    /\ left[j] > 0 /\ left' = [left EXCEPT ![j] = @ - 1]
    /\ UNCHANGED <<slots, broken, lost>>

CommitDone(j) == TaskStep(j, "committing", "running") /\ UNCHANGED <<slots, left, broken, lost>>

(* The write that a cancellation left running lands, and the cancellation  *)
(* goes on.                                                                *)
Landed(j) == TaskStep(j, "landing", "closing") /\ UNCHANGED <<slots, left, broken, lost>>

(* The pool was closed under the task: a step that ends is not recorded,   *)
(* and a write that has no connection yet is refused.                      *)
PoolGone(j) ==
    /\ loop = "closed"
    /\ \/ TaskStep(j, "running", "closing") /\ left[j] > 0
       \/ TaskStep(j, "committing", "closing")
       \/ TaskStep(j, "landing", "closing")
    /\ lost' = lost \cup {j}
    /\ UNCHANGED <<slots, left, broken>>

(* execute_workflow returns or raises.                                     *)
Finish(j) == TaskStep(j, "running", "closing") /\ UNCHANGED <<slots, left, broken, lost>>

(* An exception _renew_until_done does not name ends it.  A renewer that   *)
(* returns because the lease is lost changes nothing here.                 *)
RenewerDies(j) ==
    /\ loop # "killed"
    /\ task[j] \in {"running", "committing", "landing"} /\ j \notin broken
    /\ broken' = broken \cup {j}
    /\ UNCHANGED <<loop, slots, task, left, lost, stopping, demands, drain>>

(* Mutant: a flat sequence of await and release, skipped by the exception  *)
(* of a dead renewer.                                                      *)
CloseFlat(j) ==
    /\ TaskStep(j, "closing", "none")
    /\ free' = IF j \in broken THEN free ELSE free + 1
    /\ broken' = broken \ {j}
    /\ UNCHANGED <<taken, leaked, left, lost>>

(* The renewer is collected and the slot released, whatever the renewer    *)
(* raises.                                                                 *)
Close(j) ==
    /\ TaskStep(j, "closing", "none")
    /\ free' = free + 1
    /\ broken' = broken \ {j}
    /\ UNCHANGED <<taken, leaked, left, lost>>

-----------------------------------------------------------------------------
(* Shutdown.                                                               *)

(* Mutant: the checkpoint write is not shielded.                           *)
CancelledUnshielded(state) ==
    CASE state = "spawned" -> "none"
      [] state \in {"running", "committing", "landing", "closing"} -> "closing"
      [] OTHER -> state

(* Where task.cancel() takes a task: the write is shielded from the first  *)
(* cancellation and not from the next; the finally of _run_one swallows    *)
(* one; a task that never ran has no finally.                              *)
Cancelled(state) ==
    CASE state = "spawned" -> "none"
      [] state \in {"running", "landing", "closing"} -> "closing"
      [] state = "committing" -> "landing"
      [] OTHER -> state

CutShort == {j \in Writing : Cancelled(task[j]) = "closing"}

(* Every task in flight is cancelled.                                      *)
CancelAll ==
    /\ task' = [j \in Tasks |-> Cancelled(task[j])]
    /\ leaked' = leaked + Cardinality(Unstarted)
    /\ lost' = lost \cup CutShort
    /\ UNCHANGED <<free, taken, left, broken>>

(* asyncio.run cancels every task of the process, the shielded writes      *)
(* included.                                                               *)
InterruptAll ==
    /\ task' = [j \in Tasks |-> IF task[j] \in {"none", "spawned"} THEN "none" ELSE "closing"]
    /\ leaked' = leaked + Cardinality(Unstarted)
    /\ lost' = lost \cup Writing
    /\ UNCHANGED <<free, taken, left, broken>>

DrainCancelled == IF drain = "done" THEN "done" ELSE "cancelled"

Demand == demands < MaxDemands /\ demands' = demands + 1

(* _on_signal and request_shutdown.                                        *)
FirstSignal ==
    /\ loop \in Polling /\ ~stopping /\ Demand
    /\ stopping' = TRUE
    /\ UNCHANGED <<loop, slots, task, left, broken, lost, drain>>

SecondSignal ==
    /\ loop \in Polling /\ stopping /\ Demand
    /\ CancelAll
    /\ UNCHANGED <<loop, stopping, drain>>

(* The handlers are gone by the time run drains.                           *)
Unhandled ==
    \/ loop \in {"draining", "collecting", "stopped"}
    \/ loop \in {"closed", "left"} /\ Alive # {}

(* SIGTERM has its default effect.                                         *)
SignalKills ==
    /\ Unhandled /\ Demand
    /\ loop' = "killed"
    /\ lost' = lost \cup Writing
    /\ UNCHANGED <<slots, task, left, broken, stopping, drain>>

(* SIGINT has its own: KeyboardInterrupt leaves the event loop, and        *)
(* asyncio.run cancels all tasks, run_worker and the drain among them, and *)
(* waits for them.                                                         *)
SignalInterrupts ==
    /\ Unhandled /\ Demand
    /\ InterruptAll
    /\ drain' = DrainCancelled
    /\ loop' = CASE loop = "draining" -> "stopped"
                 [] loop = "stopped" /\ drain = "done" -> "left"
                 [] OTHER -> loop
    /\ UNCHANGED stopping

(* The task that runs the worker is cancelled by whoever embeds it.  What  *)
(* that does depends on what it is awaiting.  While it polls: no more      *)
(* polling, whatever the loop holds.                                       *)
CancelRun ==
    /\ loop \in Polling /\ Demand
    /\ loop' = AfterPolling(task)
    /\ UNCHANGED <<slots, task, left, broken, lost, stopping, drain>>

(* In asyncio.wait: _drain is left at once, and so are the tasks.          *)
CancelWait ==
    /\ loop = "draining" /\ Demand
    /\ loop' = "stopped"
    /\ UNCHANGED <<slots, task, left, broken, lost, stopping, drain>>

(* In gather, which passes the cancellation on to every task and still     *)
(* waits for all of them.                                                  *)
CancelGather ==
    /\ loop = "collecting" /\ Demand
    /\ CancelAll
    /\ UNCHANGED <<loop, stopping, drain>>

(* In run_worker's finally: in await drain_task, which cancels the drain,  *)
(* or in redis.aclose.                                                     *)
CancelFinally ==
    /\ loop = "stopped" /\ Demand
    /\ drain' = DrainCancelled
    /\ loop' = IF drain = "done" THEN "left" ELSE "stopped"
    /\ UNCHANGED <<slots, task, left, broken, lost, stopping>>

DrainDone ==
    /\ loop \in {"draining", "collecting"} /\ Alive = {}
    /\ loop' = "stopped"
    /\ UNCHANGED <<slots, task, left, broken, lost, stopping, demands, drain>>

(* Mutant: the cancelled tasks are not awaited.                            *)
GraceEndsWithoutGather ==
    /\ loop = "draining" /\ Alive # {} /\ Unstarted = {}
    /\ CancelAll
    /\ loop' = "stopped"
    /\ UNCHANGED <<stopping, demands, drain>>

(* The grace period is over, after one turn of the event loop if run() was *)
(* cancelled: every task has been scheduled by then.                       *)
GraceEnds ==
    /\ loop = "draining" /\ Alive # {} /\ Unstarted = {}
    /\ CancelAll
    /\ loop' = "collecting"
    /\ UNCHANGED <<stopping, demands, drain>>

(* run_worker's finally: the drain is stopped and awaited, then the pool   *)
(* is closed.  A drain may also have died long before.                     *)
StopDrain ==
    /\ loop = "stopped" /\ drain = "on"
    /\ drain' = "stopping"
    /\ UNCHANGED <<loop, slots, task, left, broken, lost, stopping, demands>>

DrainEnds ==
    /\ loop # "killed" /\ drain \in {"on", "stopping"}
    /\ drain' = "done"
    /\ UNCHANGED <<loop, slots, task, left, broken, lost, stopping, demands>>

ClosePool ==
    /\ loop = "stopped" /\ drain = "done"
    /\ loop' = "closed"
    /\ UNCHANGED <<slots, task, left, broken, lost, stopping, demands, drain>>

(* The CancelledError of the drain task is no Exception: the rest of the   *)
(* finally is skipped.                                                     *)
LeaveOpen ==
    /\ loop = "stopped" /\ drain = "cancelled"
    /\ loop' = "left"
    /\ UNCHANGED <<slots, task, left, broken, lost, stopping, demands, drain>>

(* run_worker has ended (pool.close waits for the connections in use), and *)
(* asyncio.run cancels what is left.                                       *)
RunnerCancels ==
    /\ loop = "left" \/ (loop = "closed" /\ Writing = {})
    /\ \E j \in Alive : task[j] # "closing"
    /\ InterruptAll
    /\ UNCHANGED <<loop, stopping, demands, drain>>

-----------------------------------------------------------------------------
Loop ==
    \/ AcquireSlots \/ AcquireAndLeave \/ ClaimFails \/ WaitEnds
    \/ \E S \in SUBSET Tasks : ClaimReturns(S)
    \/ DrainDone \/ GraceEnds \/ StopDrain \/ ClosePool \/ LeaveOpen

Task(j) ==
    \/ StartTask(j) \/ StepDone(j) \/ CommitDone(j) \/ Landed(j)
    \/ PoolGone(j) \/ Finish(j) \/ RenewerDies(j) \/ Close(j)

Demanded ==
    \/ FirstSignal \/ SecondSignal \/ SignalKills \/ SignalInterrupts
    \/ CancelRun \/ CancelWait \/ CancelGather \/ CancelFinally

Next == Loop \/ Demanded \/ DrainEnds \/ RunnerCancels \/ \E j \in Tasks : Task(j)

Spec == Init /\ [][Next]_vars

(* The event loop schedules what is ready, timers fire, the database       *)
(* answers or fails, and a drain that was told to stop does (Outbox).      *)
Fairness ==
    /\ WF_vars(Loop)
    /\ WF_vars(drain = "stopping" /\ DrainEnds)
    /\ \A j \in Tasks : WF_vars(StartTask(j) \/ CommitDone(j) \/ Landed(j) \/ Close(j))

(* Steps may hang.                                                         *)
HangSpec == Spec /\ Fairness

(* Every step ends.                                                        *)
FairSpec == HangSpec /\ \A j \in Tasks : WF_vars(StepDone(j) \/ Finish(j))

-----------------------------------------------------------------------------
(* Properties.                                                             *)

Ended == loop \in {"closed", "left", "killed"}

(* Through short and failed claims, dead renewers, cancellations and       *)
(* shutdown, every slot is free, held by the loop or by exactly one task,  *)
(* so that no more than worker_concurrency workflows are ever in flight;   *)
(* slots leak only when a second demand cancels tasks that never ran.      *)
SlotsConserved ==
    /\ free + taken + Cardinality(Alive) + leaked = Concurrency
    /\ leaked > 0 => demands > 1

(* One demand to stop, wherever it strikes, leaves no task behind: run     *)
(* returns, and the pool is closed, with a task in flight only if a second *)
(* demand struck inside the drain.  The pool is never closed under the     *)
(* outbox drain.                                                           *)
AwaitsEveryTask ==
    /\ loop \in {"stopped", "closed", "left"} /\ Alive # {} => demands > 1
    /\ loop = "closed" => drain = "done"

(* "every task is cancelled and then awaited, never abandoned".  TLC       *)
(* refutes it (README): a cancellation in the wait abandons them all.      *)
NeverAbandoned == loop \in {"stopped", "closed", "left"} => Alive = {}

(* A checkpoint write that has been issued is never cut short by one       *)
(* request to stop, however that is made and however the grace ends: only  *)
(* a second demand costs a finished step its checkpoint.                   *)
OrderlyShutdownKeepsCheckpoints == lost # {} => demands > 1

(* Why: nothing is cancelled before the grace ends or a second demand is   *)
(* made, and run stops polling only on demand.                             *)
CancelledOnDemand ==
    /\ stopping \/ loop \notin Polling => demands > 0
    /\ loop \in Polling \cup {"draining"} /\ demands < 2 =>
          \A j \in Tasks : task[j] # "landing"

(* The loop itself holds slots only across a claim.                        *)
HeldAcrossClaim == loop \in {"slots", "waiting"} => taken = 0

(* The inductive invariant of the proofs.                                  *)
IInv ==
    /\ TypeOK /\ HeldAcrossClaim /\ SlotsConserved /\ AwaitsEveryTask
    /\ OrderlyShutdownKeepsCheckpoints /\ CancelledOnDemand

(* A worker nobody asked to stop never stops asking for work.              *)
KeepsClaiming == []<>(loop = "claiming" \/ demands > 0)

(* A request to stop is enough, if steps end, whatever further demands     *)
(* come on top: the worker ends, or every one of its slots has leaked.     *)
RequestsSuffice == (demands > 0) ~> (Ended \/ leaked = Concurrency)

(* "an operator's second SIGTERM should not need a SIGKILL".  TLC refutes  *)
(* it (README): if both find the tasks of a full house unscheduled, every  *)
(* slot leaks and the loop waits for one for ever.                         *)
SecondSignalSuffices == (stopping /\ demands > 1) ~> Ended

(* "run bounds the wait with worker_shutdown_grace_seconds regardless":    *)
(* steps that hang do not keep the worker from stopping.  TLC refutes it   *)
(* under HangSpec (README).                                                *)
ShutdownIsBounded == (stopping /\ demands = 1) ~> (Ended \/ demands > 1)
=============================================================================
