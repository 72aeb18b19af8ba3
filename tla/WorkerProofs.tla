---------------------------- MODULE WorkerProofs ----------------------------
(***************************************************************************)
(* Proofs of the safety properties of Worker, for every concurrency, batch *)
(* size and number of tasks, steps and demands to stop.                    *)
(***************************************************************************)
EXTENDS Worker, FiniteSetTheorems, TLAPS

USE TasksAssumption, SlotsAssumption DEF Polling, Stages, TaskStates

(* Sets of tasks are finite.                                               *)
LEMMA TaskSets ==
  ASSUME NEW S \in SUBSET Tasks
  PROVE  IsFiniteSet(S) /\ Cardinality(S) \in Nat
  BY FS_Subset, FS_CardinalityType

(* An idle worker with all its slots free satisfies the invariant.         *)
LEMMA InitInductive == Init => IInv
<1> SUFFICES ASSUME Init PROVE IInv
  OBVIOUS
<1>1. Alive = {}
  BY DEF Init, Alive, AliveIn
<1>2. Cardinality(Alive) = 0
  BY <1>1, FS_EmptySet
<1>3. TypeOK
  <2>1. demands \in 0..MaxDemands /\ left \in [Tasks -> 0..MaxSteps]
    BY DEF Init
  <2>2. task \in [Tasks -> TaskStates] /\ loop \in Stages
    BY DEF Init
  <2> QED
    BY <2>1, <2>2 DEF Init, TypeOK
<1>4. SlotsConserved
  BY <1>2 DEF Init, SlotsConserved
<1> QED
  BY <1>1, <1>3, <1>4 DEF Init, IInv, HeldAcrossClaim, AwaitsEveryTask, OrderlyShutdownKeepsCheckpoints, CancelledOnDemand

(* Cancelling every task ends exactly those that never ran, and their      *)
(* slots are the ones that leak.                                           *)
LEMMA CancelAllSlots ==
  ASSUME TypeOK, CancelAll
  PROVE  /\ Alive' \subseteq Alive
         /\ Unstarted \subseteq Alive
         /\ Cardinality(Unstarted) \in Nat
         /\ Cardinality(Alive') = Cardinality(Alive) - Cardinality(Unstarted)
         /\ leaked' = leaked + Cardinality(Unstarted)
<1>1. Alive' = Alive \ Unstarted
  BY DEF TypeOK, CancelAll, Cancelled, Alive, AliveIn, Unstarted
<1>2. Alive \cap Unstarted = Unstarted /\ Unstarted \subseteq Alive
  BY DEF Alive, AliveIn, Unstarted
<1>3. Alive \in SUBSET Tasks /\ Unstarted \in SUBSET Tasks
  BY DEF Alive, AliveIn, Unstarted
<1>4. IsFiniteSet(Alive) /\ Cardinality(Unstarted) \in Nat
  BY <1>3, TaskSets
<1>5. Cardinality(Alive \ Unstarted) = Cardinality(Alive) - Cardinality(Alive \cap Unstarted)
  BY <1>4, FS_Difference
<1> QED
  BY <1>1, <1>2, <1>4, <1>5 DEF CancelAll

(* So does cancelling them through asyncio.run.                            *)
LEMMA InterruptAllSlots ==
  ASSUME TypeOK, InterruptAll
  PROVE  /\ Alive' \subseteq Alive
         /\ Unstarted \subseteq Alive
         /\ Cardinality(Unstarted) \in Nat
         /\ Cardinality(Alive') = Cardinality(Alive) - Cardinality(Unstarted)
         /\ leaked' = leaked + Cardinality(Unstarted)
<1>1. Alive' = Alive \ Unstarted
  BY DEF TypeOK, InterruptAll, Alive, AliveIn, Unstarted
<1>2. Alive \cap Unstarted = Unstarted /\ Unstarted \subseteq Alive
  BY DEF Alive, AliveIn, Unstarted
<1>3. Alive \in SUBSET Tasks /\ Unstarted \in SUBSET Tasks
  BY DEF Alive, AliveIn, Unstarted
<1>4. IsFiniteSet(Alive) /\ Cardinality(Unstarted) \in Nat
  BY <1>3, TaskSets
<1>5. Cardinality(Alive \ Unstarted) = Cardinality(Alive) - Cardinality(Alive \cap Unstarted)
  BY <1>4, FS_Difference
<1> QED
  BY <1>1, <1>2, <1>4, <1>5 DEF InterruptAll

(* Every action preserves the types.                                       *)
LEMMA NextType == IInv /\ [Next]_vars => TypeOK'
<1> SUFFICES ASSUME IInv, [Next]_vars PROVE TypeOK'
  OBVIOUS
<1> USE DEF IInv, TypeOK, slots
<1>a. ASSUME NEW tasks \in [Tasks -> TaskStates]
      PROVE  AfterPolling(tasks) \in Stages /\ LoopTop(tasks) \in Stages
  BY <1>a DEF AfterPolling, LoopTop
<1>1. CASE AcquireSlots \/ AcquireAndLeave \/ ClaimFails \/ WaitEnds
  BY <1>1, <1>a DEF AcquireSlots, AcquireAndLeave, ClaimFails, WaitEnds, SlotsTaken
<1>2. ASSUME NEW S \in SUBSET Tasks, ClaimReturns(S) PROVE TypeOK'
  <2>1. Cardinality(S) \in Nat
    BY TaskSets
  <2>2. task' \in [Tasks -> TaskStates] /\ left' \in [Tasks -> 0..MaxSteps]
    BY <1>2 DEF ClaimReturns
  <2>3. loop' \in Stages
    BY <1>2, <2>2, <1>a DEF ClaimReturns
  <2> QED
    BY <1>2, <2>1, <2>2, <2>3 DEF ClaimReturns
<1>3. CASE DrainDone \/ StopDrain \/ ClosePool \/ DrainEnds \/ LeaveOpen
  BY <1>3 DEF DrainDone, StopDrain, ClosePool, DrainEnds, LeaveOpen
<1>4. ASSUME CancelAll
      PROVE  /\ task' \in [Tasks -> TaskStates] /\ left' = left /\ lost' \subseteq Tasks
             /\ leaked' \in Nat /\ free' = free /\ taken' = taken /\ broken' = broken
  <2>1. \A st \in TaskStates : Cancelled(st) \in TaskStates
    BY DEF Cancelled
  <2>2. task' \in [Tasks -> TaskStates]
    BY <1>4, <2>1 DEF CancelAll
  <2>3. Cardinality(Unstarted) \in Nat
    BY TaskSets DEF Unstarted
  <2> QED
    BY <1>4, <2>2, <2>3 DEF CancelAll, CutShort, Writing
<1>5. CASE GraceEnds \/ SecondSignal \/ CancelGather
  BY <1>4, <1>5 DEF GraceEnds, SecondSignal, CancelGather, Demand
<1>9. ASSUME InterruptAll
      PROVE  /\ task' \in [Tasks -> TaskStates] /\ left' = left /\ lost' \subseteq Tasks
             /\ leaked' \in Nat /\ free' = free /\ taken' = taken /\ broken' = broken
  <2>1. Cardinality(Unstarted) \in Nat
    BY TaskSets DEF Unstarted
  <2> QED
    BY <1>9, <2>1 DEF InterruptAll, Writing
<1>10. CASE SignalInterrupts
  <2>1. loop' \in Stages
    BY <1>10 DEF SignalInterrupts, Unhandled
  <2> QED
    BY <1>9, <1>10, <2>1 DEF SignalInterrupts, DrainCancelled, Demand
<1>11. CASE RunnerCancels
  BY <1>9, <1>11 DEF RunnerCancels
<1>12. CASE CancelWait \/ CancelFinally
  BY <1>12 DEF CancelWait, CancelFinally, DrainCancelled, Demand
<1>6. CASE FirstSignal \/ SignalKills \/ CancelRun
  <2>1. CASE FirstSignal
    BY <2>1 DEF FirstSignal, Demand
  <2>2. CASE SignalKills
    BY <2>2 DEF SignalKills, Writing, Demand
  <2>3. CASE CancelRun
    BY <2>3, <1>a DEF CancelRun, Demand
  <2> QED
    BY <1>6, <2>1, <2>2, <2>3
<1>7. ASSUME NEW j \in Tasks, Task(j) PROVE TypeOK'
  <2>1. CASE StartTask(j) \/ CommitDone(j) \/ Landed(j) \/ Finish(j) \/ RenewerDies(j)
    BY <2>1 DEF StartTask, CommitDone, Landed, Finish, RenewerDies, TaskStep
  <2>2. CASE StepDone(j)
    BY <2>2 DEF StepDone, TaskStep
  <2>3. CASE Close(j) \/ PoolGone(j)
    BY <2>3 DEF Close, PoolGone, TaskStep
  <2> QED
    BY <1>7, <2>1, <2>2, <2>3 DEF Task
<1>8. CASE UNCHANGED vars
  BY <1>8 DEF vars
<1> QED
  BY <1>1, <1>2, <1>3, <1>5, <1>6, <1>7, <1>8, <1>10, <1>11, <1>12 DEF Next, Loop, Demanded

(* Every action accounts for the slots it moves.                           *)
LEMMA NextSlots == IInv /\ [Next]_vars => SlotsConserved'
<1> SUFFICES ASSUME IInv, [Next]_vars PROVE SlotsConserved'
  OBVIOUS
<1>a. TypeOK' /\ TypeOK /\ SlotsConserved
  BY NextType DEF IInv
<1>b. /\ Alive \in SUBSET Tasks /\ IsFiniteSet(Alive)
      /\ Cardinality(Alive) \in Nat
  BY TaskSets DEF Alive, AliveIn
<1>c. /\ free \in Nat /\ taken \in Nat /\ leaked \in Nat /\ demands \in Nat
      /\ free' \in Nat /\ taken' \in Nat /\ demands' \in Nat
  BY <1>a DEF TypeOK
<1> USE DEF slots
<1>1. ASSUME UNCHANGED <<task, leaked>>, free' + taken' = free + taken, demands' >= demands
      PROVE  SlotsConserved'
  <2>1. Alive' = Alive
    BY <1>1 DEF Alive, AliveIn
  <2>2. free' + taken' + Cardinality(Alive') + leaked' = free + taken + Cardinality(Alive) + leaked
    BY <1>1, <2>1, <1>b, <1>c
  <2> QED
    BY <1>1, <2>2, <1>a, <1>c DEF SlotsConserved
<1>2. CASE AcquireSlots \/ ClaimFails
  <2>1. UNCHANGED <<task, leaked, demands>>
    BY <1>2 DEF AcquireSlots, ClaimFails
  <2>2. free' + taken' = free + taken
    <3>1. CASE AcquireSlots
      <4>1. free' = free - SlotsTaken /\ taken' = SlotsTaken
        BY <3>1 DEF AcquireSlots
      <4>2. SlotsTaken \in Nat
        BY <1>c DEF SlotsTaken
      <4>3. taken = 0
        BY <3>1 DEF AcquireSlots, IInv, HeldAcrossClaim
      <4> QED
        BY <4>1, <4>2, <4>3, <1>c
    <3>2. CASE ClaimFails
      BY <3>2, <1>a DEF ClaimFails, TypeOK
    <3> QED
      BY <1>2, <3>1, <3>2
  <2> QED
    BY <2>1, <2>2, <1>1, <1>a DEF TypeOK
<1>3. CASE \/ AcquireAndLeave \/ WaitEnds \/ DrainDone \/ StopDrain
           \/ ClosePool \/ DrainEnds \/ LeaveOpen
  <2>1. UNCHANGED <<slots, task, demands>>
    BY <1>3 DEF AcquireAndLeave, WaitEnds, DrainDone, StopDrain, ClosePool, DrainEnds, LeaveOpen
  <2> QED
    BY <2>1, <1>1, <1>a DEF TypeOK
<1>4. CASE FirstSignal \/ SignalKills \/ CancelRun \/ CancelWait \/ CancelFinally
  <2>1. UNCHANGED <<slots, task>> /\ demands' = demands + 1
    BY <1>4 DEF FirstSignal, SignalKills, CancelRun, CancelWait, CancelFinally, Demand
  <2> QED
    BY <2>1, <1>1, <1>a DEF TypeOK
<1>5. ASSUME NEW S \in SUBSET Tasks, ClaimReturns(S) PROVE SlotsConserved'
  <2>1. Alive' = Alive \cup S /\ Alive \cap S = {}
    BY <1>5, <1>a DEF ClaimReturns, Alive, AliveIn, TypeOK
  <2>2. IsFiniteSet(S) /\ Cardinality(S) \in Nat
    BY TaskSets
  <2>3. Cardinality(Alive \cup S) = Cardinality(Alive) + Cardinality(S) - Cardinality(Alive \cap S)
    BY <2>2, <1>b, FS_Union
  <2>4. Cardinality(Alive') = Cardinality(Alive) + Cardinality(S)
    BY <2>1, <2>2, <2>3, <1>b, FS_EmptySet
  <2> QED
    BY <1>5, <2>2, <2>4, <1>a, <1>b DEF ClaimReturns, SlotsConserved, TypeOK
<1>6. CASE SecondSignal \/ CancelGather
  <2>1. demands > 0 /\ demands' = demands + 1
    BY <1>6, <1>a DEF SecondSignal, CancelGather, Demand, IInv, CancelledOnDemand
  <2>2. CancelAll
    BY <1>6 DEF SecondSignal, CancelGather
  <2>3. free' = free /\ taken' = taken
    BY <2>2 DEF CancelAll
  <2> QED
    BY <2>1, <2>2, <2>3, <1>a, <1>b, CancelAllSlots DEF SlotsConserved, TypeOK
<1>10. CASE SignalInterrupts \/ RunnerCancels
  <2>1. InterruptAll
    BY <1>10 DEF SignalInterrupts, RunnerCancels
  <2>2. demands' > 1
    <3>1. CASE SignalInterrupts
      BY <3>1, <1>a, <1>c DEF SignalInterrupts, Unhandled, Demand, IInv, CancelledOnDemand
    <3>2. CASE RunnerCancels
      <4>1. Alive # {} /\ loop \in {"closed", "left"} /\ demands' = demands
        BY <3>2 DEF RunnerCancels
      <4> QED
        BY <4>1 DEF IInv, AwaitsEveryTask
    <3> QED
      BY <1>10, <3>1, <3>2
  <2>3. free' = free /\ taken' = taken
    BY <2>1 DEF InterruptAll
  <2> QED
    BY <2>1, <2>2, <2>3, <1>a, <1>b, <1>c, InterruptAllSlots DEF SlotsConserved
<1>7. CASE GraceEnds
  <2>1. CancelAll /\ Unstarted = {} /\ demands' = demands
    BY <1>7 DEF GraceEnds
  <2>2. free' = free /\ taken' = taken
    BY <2>1 DEF CancelAll
  <2> QED
    BY <2>1, <2>2, <1>a, <1>b, CancelAllSlots, FS_EmptySet DEF SlotsConserved, TypeOK
<1>8. ASSUME NEW j \in Tasks, Task(j) PROVE SlotsConserved'
  <2>1. CASE \/ StartTask(j) \/ StepDone(j) \/ CommitDone(j) \/ Landed(j)
             \/ PoolGone(j) \/ Finish(j) \/ RenewerDies(j)
    <3>1. Alive' = Alive
      BY <2>1, <1>a DEF StartTask, StepDone, CommitDone, Landed, PoolGone, Finish, RenewerDies,
         TaskStep, Alive, AliveIn, TypeOK
    <3>2. UNCHANGED <<free, taken, leaked, demands>>
      BY <2>1 DEF StartTask, StepDone, CommitDone, Landed, PoolGone, Finish, RenewerDies, TaskStep
    <3> QED
      BY <3>1, <3>2, <1>a DEF SlotsConserved
  <2>2. CASE Close(j)
    <3>1. Alive' = Alive \ {j} /\ j \in Alive
      BY <2>2, <1>a DEF Close, TaskStep, Alive, AliveIn, TypeOK
    <3>2. Cardinality(Alive') = Cardinality(Alive) - 1
      BY <3>1, <1>b, FS_RemoveElement
    <3>3. free' = free + 1 /\ UNCHANGED <<taken, leaked, demands>>
      BY <2>2 DEF Close, TaskStep
    <3> QED
      BY <3>2, <3>3, <1>a, <1>b DEF SlotsConserved, TypeOK
  <2> QED
    BY <1>8, <2>1, <2>2 DEF Task
<1>9. CASE UNCHANGED vars
  BY <1>9, <1>1, <1>a DEF vars, TypeOK
<1> QED
  BY <1>2, <1>3, <1>4, <1>5, <1>6, <1>7, <1>8, <1>9, <1>10 DEF Next, Loop, Demanded

(* The slots of a claim are handed on or given back before the loop does   *)
(* anything else.                                                          *)
LEMMA NextHeld == IInv /\ [Next]_vars => HeldAcrossClaim'
<1> SUFFICES ASSUME IInv, [Next]_vars PROVE HeldAcrossClaim'
  OBVIOUS
<1> USE DEF IInv, HeldAcrossClaim, slots
<1>1. CASE AcquireSlots \/ AcquireAndLeave \/ ClaimFails \/ WaitEnds
  BY <1>1 DEF AcquireSlots, AcquireAndLeave, ClaimFails, WaitEnds, AfterPolling
<1>2. ASSUME NEW S \in SUBSET Tasks, ClaimReturns(S) PROVE HeldAcrossClaim'
  BY <1>2 DEF ClaimReturns
<1>3. CASE \/ DrainDone \/ GraceEnds \/ StopDrain \/ ClosePool \/ DrainEnds
           \/ LeaveOpen \/ RunnerCancels
  BY <1>3 DEF DrainDone, GraceEnds, StopDrain, ClosePool, DrainEnds, LeaveOpen, RunnerCancels
<1>4. CASE Demanded
  <2>1. CASE FirstSignal \/ SecondSignal \/ CancelRun
    BY <2>1 DEF FirstSignal, SecondSignal, CancelRun, CancelAll, AfterPolling
  <2>2. CASE SignalKills \/ SignalInterrupts \/ CancelWait \/ CancelGather \/ CancelFinally
    <3>1. loop' \notin {"slots", "waiting"}
      BY <2>2 DEF SignalKills, SignalInterrupts, Unhandled, CancelWait, CancelGather, CancelFinally
    <3> QED
      BY <3>1
  <2> QED
    BY <1>4, <2>1, <2>2 DEF Demanded
<1>5. ASSUME NEW j \in Tasks, Task(j) PROVE HeldAcrossClaim'
  BY <1>5 DEF Task, StartTask, StepDone, CommitDone, Landed, PoolGone, Finish, RenewerDies, Close, TaskStep
<1>6. CASE UNCHANGED vars
  BY <1>6 DEF vars
<1> QED
  BY <1>1, <1>2, <1>3, <1>4, <1>5, <1>6 DEF Next, Loop

(* Nothing is cancelled early, and nothing is in flight after run returned *)
(* unless a second demand struck.                                          *)
LEMMA NextShutdown == IInv /\ [Next]_vars =>
    AwaitsEveryTask' /\ OrderlyShutdownKeepsCheckpoints' /\ CancelledOnDemand'
<1> SUFFICES ASSUME IInv, [Next]_vars
             PROVE  AwaitsEveryTask' /\ OrderlyShutdownKeepsCheckpoints' /\ CancelledOnDemand'
  OBVIOUS
<1>a. TypeOK /\ demands \in Nat /\ demands' \in Nat
  BY NextType DEF IInv, TypeOK
<1> USE DEF IInv, AwaitsEveryTask, OrderlyShutdownKeepsCheckpoints, CancelledOnDemand, slots
<1>1. CASE AcquireSlots \/ AcquireAndLeave \/ ClaimFails \/ WaitEnds
  BY <1>1, <1>a DEF AcquireSlots, AcquireAndLeave, ClaimFails, WaitEnds, LoopTop,
     AfterPolling, Alive, AliveIn
<1>2. ASSUME NEW S \in SUBSET Tasks, ClaimReturns(S)
      PROVE  AwaitsEveryTask' /\ OrderlyShutdownKeepsCheckpoints' /\ CancelledOnDemand'
  <2>1. \A i \in Tasks : task'[i] = "landing" => task[i] = "landing"
    BY <1>2 DEF ClaimReturns
  <2>2. loop' \in {"waiting", "slots", "stopped", "draining"}
    BY <1>2 DEF ClaimReturns, LoopTop, AfterPolling
  <2>5. loop' \in {"stopped", "draining"} => stopping
    BY <1>2, <1>a DEF ClaimReturns, LoopTop, TypeOK
  <2>3. loop' = "stopped" => Alive' = {}
    BY <1>2 DEF ClaimReturns, LoopTop, AfterPolling, Alive
  <2>4. UNCHANGED <<lost, stopping, demands, drain>> /\ loop = "claiming"
    BY <1>2 DEF ClaimReturns
  <2> QED
    BY <2>1, <2>2, <2>3, <2>4, <2>5, <1>a
<1>3. CASE DrainDone \/ StopDrain \/ ClosePool \/ DrainEnds \/ LeaveOpen
  BY <1>3, <1>a DEF DrainDone, StopDrain, ClosePool, DrainEnds, LeaveOpen, Alive, AliveIn
<1>4. CASE FirstSignal \/ CancelRun
  BY <1>4, <1>a DEF FirstSignal, CancelRun, Demand, AfterPolling, Alive, AliveIn
<1>5. CASE SignalKills \/ SignalInterrupts \/ CancelWait \/ CancelGather \/ CancelFinally
  <2>1. loop \notin Polling /\ loop' \notin Polling /\ demands' = demands + 1
    BY <1>5 DEF SignalKills, SignalInterrupts, Unhandled, CancelWait, CancelGather,
       CancelFinally, Demand
  <2>2. demands' > 1
    BY <2>1, <1>a
  <2>3. loop' = "closed" => loop = "closed" /\ drain' = DrainCancelled
    BY <1>5 DEF SignalKills, SignalInterrupts, CancelWait, CancelGather, CancelFinally
  <2>4. loop' = "closed" => drain' = "done"
    BY <2>3 DEF DrainCancelled
  <2> QED
    BY <2>2, <2>4, <1>a
<1>10. CASE RunnerCancels
  <2>1. Alive # {} /\ loop \in {"closed", "left"} /\ UNCHANGED <<loop, stopping, demands, drain>>
    BY <1>10 DEF RunnerCancels
  <2>2. demands' > 1
    BY <2>1
  <2> QED
    BY <2>1, <2>2, <1>a
<1>6. CASE SecondSignal
  BY <1>6, <1>a DEF SecondSignal, Demand
<1>7. CASE GraceEnds
  <2>1. demands < 2 => CutShort = {}
    BY <1>7, <1>a DEF GraceEnds, CutShort, Writing, Cancelled
  <2>2. loop = "draining" /\ loop' = "collecting" /\ lost' = lost \cup CutShort
    BY <1>7 DEF GraceEnds, CancelAll
  <2>3. UNCHANGED <<stopping, demands, drain>>
    BY <1>7 DEF GraceEnds
  <2> QED
    BY <2>1, <2>2, <2>3, <1>a
<1>8. ASSUME NEW j \in Tasks, Task(j)
      PROVE  AwaitsEveryTask' /\ OrderlyShutdownKeepsCheckpoints' /\ CancelledOnDemand'
  <2> USE DEF Task, StartTask, StepDone, CommitDone, Landed, PoolGone, Finish, RenewerDies,
              Close, TaskStep
  <2>1. UNCHANGED <<loop, stopping, demands, drain>>
    BY <1>8
  <2>2. \A i \in Tasks : task'[i] = "landing" => task[i] = "landing"
    BY <1>8, <1>a DEF TypeOK
  <2>3. j \in Alive
    BY <1>8 DEF Alive, AliveIn
  <2>4. lost' = lost \/ loop = "closed"
    BY <1>8
  <2>5. loop \in {"stopped", "closed", "left"} => demands > 1
    BY <2>3
  <2> QED
    BY <2>1, <2>2, <2>4, <2>5, <1>a
<1>9. CASE UNCHANGED vars
  BY <1>9 DEF vars, Alive, AliveIn
<1> QED
  BY <1>1, <1>2, <1>3, <1>4, <1>5, <1>6, <1>7, <1>8, <1>9, <1>10 DEF Next, Loop, Demanded

(* The invariant behind the safety results holds of every behaviour of the *)
(* worker.                                                                 *)
THEOREM Inductive == Spec => []IInv
<1>1. IInv /\ [Next]_vars => IInv'
  BY NextType, NextSlots, NextHeld, NextShutdown DEF IInv
<1> QED
  BY <1>1, InitInductive, PTL DEF Spec

(* Types, for any number of tasks, slots and demands.                      *)
THEOREM TypeCorrect == Spec => []TypeOK
<1>1. IInv => TypeOK
  BY DEF IInv
<1> QED
  BY <1>1, Inductive, PTL

(* No claim, cancellation or dead renewer makes the worker one slot poorer *)
(* or richer.                                                              *)
THEOREM NoSlotLost == Spec => []SlotsConserved
<1>1. IInv => SlotsConserved
  BY DEF IInv
<1> QED
  BY <1>1, Inductive, PTL

(* After one demand, run returns and the pool is closed only when every    *)
(* task is done; a task is abandoned only if a second demand strikes.      *)
THEOREM OneDemandAbandonsNoTask == Spec => []AwaitsEveryTask
<1>1. IInv => AwaitsEveryTask
  BY DEF IInv
<1> QED
  BY <1>1, Inductive, PTL

(* One request to stop never costs a finished step its checkpoint.         *)
THEOREM CheckpointsSurviveShutdown == Spec => []OrderlyShutdownKeepsCheckpoints
<1>1. IInv => OrderlyShutdownKeepsCheckpoints
  BY DEF IInv
<1> QED
  BY <1>1, Inductive, PTL
=============================================================================
