---------------------------- MODULE MigrateProofs ----------------------------
(***************************************************************************)
(* Safety of the migration runner, for any number of runners and runs, any *)
(* versions and any checkouts.                                             *)
(***************************************************************************)
EXTENDS Migrate, TLAPS

USE RunnersAssumption, VersionsAssumption, RunsAssumption

(* A version is a number, and a migration is in no two places of the order.*)
LEMMA MigrationFacts ==
    /\ \A m \in Migrations : m[1] \in Nat
    /\ \A ms \in Checkouts : ms \subseteq Migrations
    /\ \A ms \in Checkouts : \A m, n \in ms : m[1] = n[1] => m = n
  BY DEF Migrations, Checkouts

LEMMA InitInductive == Init => IInv
<1> SUFFICES ASSUME Init PROVE IInv
  OBVIOUS
<1>1. NoRun \in Runs
  BY DEF NoRun, Runs, Targets, Checkouts
<1>2. TypeOK
  BY <1>1 DEF Init, TypeOK, Databases, Places, Ended
<1> QED
  BY <1>2 DEF Init, IInv, LockHeld, Holding, PlanIsCurrent, ExecutedFirst, DoneSoFar, Ended,
              RecordIsTrue, SuccessMeansInSync

LEMMA TakesEffectType ==
    ASSUME TypeOK, NEW r \in Runners, NEW m \in Migrations, TakesEffect(r, m)
    PROVE  executed' \in [Databases -> [Migrations -> Nat]]
  BY DEF TypeOK, TakesEffect

(* Every action preserves the types.                                       *)
LEMMA NextType == TypeOK /\ [Next]_vars => TypeOK'
<1> SUFFICES ASSUME TypeOK, [Next]_vars PROVE TypeOK'
  OBVIOUS
<1> USE DEF TypeOK, Places, Ended, Goto
<1>1. ASSUME NEW r \in Runners,
             EnsureDatabase(r) \/ CreateDatabase(r) \/ Lock(r)
      PROVE  TypeOK'
  <2>1. CASE EnsureDatabase(r)
    BY <2>1 DEF EnsureDatabase
  <2>2. CASE CreateDatabase(r)
    BY <2>2 DEF CreateDatabase
  <2>3. CASE Lock(r)
    BY <2>3 DEF Lock
  <2> QED
    BY <1>1, <2>1, <2>2, <2>3
<1>2. ASSUME NEW r \in Runners, Plan(r) PROVE TypeOK'
  <2>1. run[r].files \subseteq Migrations
    BY MigrationFacts DEF Runs
  <2> DEFINE rest == {m \in run[r].files : m[1] \notin VersionsOf(applied[on[r]])}
  <2>2. rest \subseteq Migrations
    BY <2>1
  <2> HIDE DEF rest
  <2>3. /\ at' = [at EXCEPT ![r] = "unlock"] \/ at' = [at EXCEPT ![r] = "applying"]
        /\ pending' = pending \/ pending' = [pending EXCEPT ![r] = rest]
        /\ UNCHANGED <<exists, applied, executed, lock, on, run, runs>>
    BY <1>2 DEF Plan, rest
  <2> QED
    BY <2>2, <2>3
<1>3. ASSUME NEW r \in Runners, Unlock(r) PROVE TypeOK'
  BY <1>3 DEF Unlock, Unlocked, Databases
<1>4. ASSUME NEW r \in Runners, NEW m \in Migrations,
             ApplyInTransaction(r, m) \/ Execute(r, m) \/ Record(r, m)
      PROVE  TypeOK'
  <2>0. on[r] \in Databases
    OBVIOUS
  <2>1. applied' = applied \/ applied' = [applied EXCEPT ![on[r]] = applied[on[r]] \cup {m}]
    BY <1>4 DEF ApplyInTransaction, Execute, Record, Insert
  <2>2. executed' = executed \/ TakesEffect(r, m)
    BY <1>4 DEF ApplyInTransaction, Execute, Record
  <2>3. applied' \in [Databases -> SUBSET Migrations]
    BY <2>0, <2>1
  <2>4. executed' \in [Databases -> [Migrations -> Nat]]
    BY <2>2, TakesEffectType
  <2>5. pending' \in [Runners -> SUBSET Migrations]
    BY <1>4 DEF ApplyInTransaction, Execute, Record, Insert
  <2>6. at' \in [Runners -> Places]
    BY <1>4 DEF ApplyInTransaction, Execute, Record, Advance
  <2>7. UNCHANGED <<exists, lock, on, run, runs>>
    BY <1>4 DEF ApplyInTransaction, Execute, Record
  <2> QED
    BY <2>3, <2>4, <2>5, <2>6, <2>7
<1>5. ASSUME NEW r \in Runners, Broken(r)
      PROVE  /\ lock' \in [Databases -> Runners \cup {NoRunner}]
             /\ at' \in [Runners -> Places] /\ on' \in [Runners -> Databases]
             /\ run' \in [Runners -> Runs] /\ pending' \in [Runners -> SUBSET Migrations]
  <2>1. NoRun \in Runs
    BY DEF NoRun, Runs, Targets, Checkouts
  <2> QED
    BY <1>5, <2>1 DEF Broken, Unlocked, Databases
<1>6. ASSUME NEW r \in Runners, Fail(r) PROVE TypeOK'
  BY <1>5, <1>6 DEF Fail
<1>7. ASSUME NEW r \in Runners, NEW m \in Migrations, FailAfterCommit(r, m) PROVE TypeOK'
  BY <1>5, <1>7 DEF FailAfterCommit, TakesEffect
<1>8. ASSUME NEW r \in Runners, NEW t \in Targets, NEW dry \in BOOLEAN, NEW ms \in Checkouts,
             Start(r, t, dry, ms)
      PROVE  TypeOK'
  BY <1>8 DEF Start, Runs, Databases
<1>9. CASE UNCHANGED vars
  BY <1>9 DEF vars
<1> QED
  BY <1>1, <1>2, <1>3, <1>4, <1>6, <1>7, <1>8, <1>9 DEF Next, Migrate

(* A step of Next is one run's.                                            *)
Step(r) ==
    \/ Migrate(r) \/ Fail(r) \/ \E m \in Migrations : FailAfterCommit(r, m)
    \/ \E t \in Targets, dry \in BOOLEAN, ms \in Checkouts : Start(r, t, dry, ms)

(* A step of one run leaves every other run where it is, and frees or takes*)
(* no lock that another one holds.                                         *)
LEMMA OthersUntouched ==
    ASSUME TypeOK, LockHeld, NEW r \in Runners, Step(r), NEW q \in Runners \ {r}
    PROVE  /\ at'[q] = at[q] /\ on'[q] = on[q]
           /\ run'[q] = run[q] /\ pending'[q] = pending[q]
           /\ at[q] \in Holding => lock'[on[q]] = q
<1>1. /\ at'[q] = at[q] /\ on'[q] = on[q]
      /\ run'[q] = run[q] /\ pending'[q] = pending[q]
  BY DEF TypeOK, Step, Migrate, EnsureDatabase, CreateDatabase, Lock, Plan, Unlock,
         ApplyInTransaction, Execute, Record, Insert, Fail, FailAfterCommit, Broken, Start, Goto
<1>2. ASSUME at[q] \in Holding PROVE lock'[on[q]] = q
  <2>1. lock[on[q]] = q
    BY <1>2 DEF LockHeld
  <2>2. lock' = lock \/ lock' = Unlocked(r) \/ Lock(r)
    BY DEF Step, Migrate, EnsureDatabase, CreateDatabase, Plan, Unlock, ApplyInTransaction,
           Execute, Record, Fail, FailAfterCommit, Broken, Start
  <2> QED
    BY <2>1, <2>2 DEF TypeOK, Unlocked, Lock
<1> QED
  BY <1>1, <1>2

LEMMA NextLock == IInv /\ TypeOK' /\ [Next]_vars => LockHeld'
<1> SUFFICES ASSUME IInv, TypeOK', [Next]_vars PROVE LockHeld'
  OBVIOUS
<1>1. CASE UNCHANGED vars
  BY <1>1 DEF vars, IInv, LockHeld
<1>2. ASSUME NEW r \in Runners, Step(r), NEW q \in Runners, at'[q] \in Holding
      PROVE  lock'[on'[q]] = q
  <2>1. CASE q # r
    BY <1>2, <2>1, OthersUntouched DEF IInv
  <2>2. CASE q = r
    BY <1>2, <2>2 DEF IInv, TypeOK, LockHeld, Holding, Step, Migrate, EnsureDatabase,
       CreateDatabase, Lock, Plan, Unlock, ApplyInTransaction, Execute, Record, Advance,
       Fail, FailAfterCommit, Broken, Start, Goto
  <2> QED
    BY <2>1, <2>2
<1> QED
  BY <1>1, <1>2 DEF LockHeld, Next, Step
(* The record of a run that is pushed on by anybody else, or not at all,   *)
(* stays right: records only grow, and only under the lock.                *)
LEMMA OnlyTheHolderRecords ==
    ASSUME IInv, NEW r \in Runners, Step(r)
    PROVE  /\ \A d \in Databases : applied[d] \subseteq applied'[d]
           /\ \A d \in Databases : applied'[d] = applied[d] \/ (on[r] = d /\ lock[d] = r)
           /\ \A d \in Databases, m \in Migrations : executed'[d][m] >= executed[d][m]
<1>1. CASE UNCHANGED <<applied, executed>>
  BY <1>1 DEF IInv, TypeOK
<1>2. ASSUME NEW m \in Migrations,
             \/ ApplyInTransaction(r, m) \/ Execute(r, m) \/ Record(r, m)
             \/ FailAfterCommit(r, m)
      PROVE  /\ applied' = applied \/ applied' = [applied EXCEPT ![on[r]] = @ \cup {m}]
             /\ executed' = executed \/ executed' = [executed EXCEPT ![on[r]][m] = @ + 1]
             /\ lock[on[r]] = r
  BY <1>2 DEF ApplyInTransaction, Execute, Record, FailAfterCommit, Insert, TakesEffect,
              IInv, LockHeld, Holding
<1>3. UNCHANGED <<applied, executed>> \/
      \E m \in Migrations : \/ ApplyInTransaction(r, m) \/ Execute(r, m) \/ Record(r, m)
                            \/ FailAfterCommit(r, m)
  BY DEF Step, Migrate, EnsureDatabase, CreateDatabase, Lock, Plan, Unlock, Fail, Start
<1>4. ASSUME NEW m \in Migrations,
             applied' = applied \/ applied' = [applied EXCEPT ![on[r]] = @ \cup {m}],
             executed' = executed \/ executed' = [executed EXCEPT ![on[r]][m] = @ + 1],
             lock[on[r]] = r
      PROVE  /\ \A d \in Databases : applied[d] \subseteq applied'[d]
             /\ \A d \in Databases : applied'[d] = applied[d] \/ (on[r] = d /\ lock[d] = r)
             /\ \A d \in Databases, n \in Migrations : executed'[d][n] >= executed[d][n]
  <2>1. ASSUME NEW d \in Databases
        PROVE  /\ applied[d] \subseteq applied'[d]
               /\ applied'[d] = applied[d] \/ (on[r] = d /\ lock[d] = r)
    BY <1>4 DEF IInv, TypeOK
  <2>2. ASSUME NEW d \in Databases, NEW n \in Migrations PROVE executed'[d][n] >= executed[d][n]
    BY <1>4 DEF IInv, TypeOK
  <2> QED
    BY <2>1, <2>2
<1> QED
  BY <1>1, <1>2, <1>3, <1>4

(* What _verify accepts: the files already recorded are recorded as they   *)
(* stand, and the others come after everything recorded.                   *)
LEMMA VerifyFacts ==
    ASSUME NEW files \in Checkouts, NEW done \in SUBSET Migrations, Verify(files, done)
    PROVE  LET rest == {m \in files : m[1] \notin VersionsOf(done)}
           IN  /\ files \ rest \subseteq done
               /\ \A m \in rest, n \in done : m[1] > n[1]
<1>1. ASSUME NEW m \in files, m[1] \in VersionsOf(done) PROVE m \in done
  BY <1>1 DEF Verify, VersionsOf
<1> QED
  BY <1>1 DEF Verify

(* A migration is recorded by the run whose turn it is, after everything   *)
(* that was there.                                                         *)
LEMMA RecordsInOrder ==
    ASSUME IInv, NEW r \in Runners, at[r] \in {"applying", "executed"},
           NEW m \in Migrations, IsFirst(r, m),
           applied' = [applied EXCEPT ![on[r]] = @ \cup {m}]
    PROVE  /\ \A n \in applied[on[r]] : m[1] > n[1]
           /\ \A k \in pending[r] \ {m}, n \in applied'[on[r]] : k[1] > n[1]
           /\ run[r].files \ (pending[r] \ {m}) \subseteq applied'[on[r]]
<1>1. /\ pending[r] \subseteq run[r].files
      /\ run[r].files \ pending[r] \subseteq applied[on[r]]
      /\ \A k \in pending[r], n \in applied[on[r]] : k[1] > n[1]
  BY DEF IInv, PlanIsCurrent
<1>2. applied'[on[r]] = applied[on[r]] \cup {m}
  BY DEF IInv, TypeOK
<1>3. ASSUME NEW k \in pending[r] \ {m} PROVE k[1] > m[1]
  <2>1. run[r].files \in Checkouts
    BY DEF IInv, TypeOK, Runs
  <2>2. k[1] # m[1]
    BY <1>1, <2>1, MigrationFacts DEF IsFirst
  <2>3. k[1] >= m[1] /\ k[1] \in Nat /\ m[1] \in Nat
    BY <1>1, <2>1, MigrationFacts DEF IsFirst
  <2> QED
    BY <2>2, <2>3
<1>4. \A n \in applied[on[r]] : m[1] > n[1]
  BY <1>1 DEF IsFirst
<1>5. \A k \in pending[r] \ {m}, n \in applied'[on[r]] : k[1] > n[1]
  BY <1>1, <1>2, <1>3
<1>6. run[r].files \ (pending[r] \ {m}) \subseteq applied'[on[r]]
  BY <1>1, <1>2
<1> QED
  BY <1>4, <1>5, <1>6

(* Another run's plan is not touched: it holds the lock of its database.   *)
LEMMA NextPlan == IInv /\ TypeOK' /\ [Next]_vars => PlanIsCurrent'
<1> SUFFICES ASSUME IInv, TypeOK', [Next]_vars PROVE PlanIsCurrent'
  OBVIOUS
<1>1. CASE UNCHANGED vars
  BY <1>1 DEF vars, IInv, PlanIsCurrent
<1> DEFINE Current(q) ==
        /\ pending[q] \subseteq run[q].files
        /\ run[q].files \ pending[q] \subseteq applied[on[q]]
        /\ \A m \in pending[q], n \in applied[on[q]] : m[1] > n[1]
<1>2. ASSUME NEW r \in Runners, Step(r), NEW q \in Runners, at'[q] \in {"applying", "executed"}
      PROVE  Current(q)'
  <2>1. CASE q # r
    <3>1. /\ at'[q] = at[q] /\ on'[q] = on[q] /\ run'[q] = run[q] /\ pending'[q] = pending[q]
      BY <1>2, <2>1, OthersUntouched DEF IInv
    <3>2. Current(q)
      BY <1>2, <3>1 DEF IInv, PlanIsCurrent
    <3>3. lock[on[q]] = q /\ on[q] \in Databases
      BY <1>2, <3>1 DEF IInv, LockHeld, Holding, TypeOK
    <3>4. applied'[on[q]] = applied[on[q]]
      BY <1>2, <2>1, <3>3, OnlyTheHolderRecords
    <3> QED
      BY <3>1, <3>2, <3>4
  <2>2. CASE q = r
    <3>1. CASE Plan(r)
      <4> DEFINE rest == {m \in run[r].files : m[1] \notin VersionsOf(applied[on[r]])}
      <4>1. /\ Verify(run[r].files, applied[on[r]])
            /\ pending'[r] = rest /\ rest \subseteq run[r].files
            /\ UNCHANGED <<applied, on, run>>
        BY <1>2, <2>2, <3>1 DEF Plan, Goto, IInv, TypeOK
      <4>2. run[r].files \in Checkouts /\ applied[on[r]] \in SUBSET Migrations
        BY DEF IInv, TypeOK, Runs
      <4>3. /\ run[r].files \ rest \subseteq applied[on[r]]
            /\ \A m \in rest, n \in applied[on[r]] : m[1] > n[1]
        BY <4>1, <4>2, VerifyFacts
      <4> HIDE DEF rest
      <4> QED
        BY <2>2, <4>1, <4>3
    <3>2. ASSUME NEW m \in Migrations, ApplyInTransaction(r, m) \/ Record(r, m)
          PROVE  Current(q)'
      <4>1. /\ at[r] \in {"applying", "executed"} /\ IsFirst(r, m)
            /\ applied' = [applied EXCEPT ![on[r]] = @ \cup {m}]
            /\ pending'[r] = pending[r] \ {m}
            /\ UNCHANGED <<on, run>>
        BY <3>2 DEF ApplyInTransaction, Record, Insert, IInv, TypeOK
      <4>2. /\ \A k \in pending[r] \ {m}, n \in applied'[on[r]] : k[1] > n[1]
            /\ run[r].files \ (pending[r] \ {m}) \subseteq applied'[on[r]]
        BY <4>1, RecordsInOrder
      <4>3. pending[r] \subseteq run[r].files
        BY <4>1 DEF IInv, PlanIsCurrent
      <4> QED
        BY <2>2, <4>1, <4>2, <4>3
    <3>3. ASSUME NEW m \in Migrations, Execute(r, m) PROVE Current(q)'
      BY <2>2, <3>3 DEF Execute, IInv, PlanIsCurrent
    <3>4. Plan(r) \/ \E m \in Migrations :
             ApplyInTransaction(r, m) \/ Record(r, m) \/ Execute(r, m)
      BY <1>2, <2>2 DEF IInv, TypeOK, Step, Migrate, EnsureDatabase, CreateDatabase, Lock, Unlock,
         Fail, FailAfterCommit, Broken, Start, Goto
    <3> QED
      BY <3>1, <3>2, <3>3, <3>4
  <2> QED
    BY <2>1, <2>2
<1> QED
  BY <1>1, <1>2 DEF PlanIsCurrent, Next, Step
(* The SQL of the first pending migration, and of no other, is behind a    *)
(* run that is about to record it.                                         *)
LEMMA NextExecuted == IInv /\ TypeOK' /\ [Next]_vars => ExecutedFirst'
<1> SUFFICES ASSUME IInv, TypeOK', [Next]_vars PROVE ExecutedFirst'
  OBVIOUS
<1>1. CASE UNCHANGED vars
  BY <1>1 DEF vars, IInv, ExecutedFirst, IsFirst
<1>2. ASSUME NEW r \in Runners, Step(r), NEW q \in Runners, NEW m \in Migrations,
             at'[q] = "executed", IsFirst(q, m)'
      PROVE  m[1] \in NoTransaction /\ executed'[on'[q]][m] > 0
  <2>1. CASE q # r
    <3>1. /\ at'[q] = at[q] /\ on'[q] = on[q] /\ pending'[q] = pending[q]
      BY <1>2, <2>1, OthersUntouched DEF IInv
    <3>2. m[1] \in NoTransaction /\ executed[on[q]][m] > 0
      BY <1>2, <3>1 DEF IInv, ExecutedFirst, IsFirst
    <3>3. executed'[on[q]][m] >= executed[on[q]][m]
      BY <1>2, OnlyTheHolderRecords DEF IInv, TypeOK
    <3>4. executed[on[q]][m] \in Nat /\ executed'[on[q]][m] \in Nat
      BY DEF IInv, TypeOK
    <3> QED
      BY <3>1, <3>2, <3>3, <3>4
  <2>2. CASE q = r
    <3>1. PICK n \in Migrations : Execute(r, n)
      BY <1>2, <2>2 DEF IInv, TypeOK, Step, Migrate, EnsureDatabase, CreateDatabase, Lock, Plan,
         Unlock, ApplyInTransaction, Record, Advance, Fail, FailAfterCommit, Broken, Start, Goto
    <3>2. m[1] = n[1] /\ m \in pending[r] /\ n \in pending[r]
      <4>1. IsFirst(r, m) /\ IsFirst(r, n)
        BY <1>2, <2>2, <3>1 DEF Execute, IsFirst
      <4> QED
        BY <4>1, MigrationFacts DEF IsFirst
    <3>3. m = n
      <4>1. pending[r] \subseteq run[r].files /\ run[r].files \in Checkouts
        BY <3>1 DEF Execute, IInv, PlanIsCurrent, TypeOK, Runs
      <4> QED
        BY <3>2, <4>1, MigrationFacts
    <3>4. on'[r] = on[r] /\ executed'[on[r]][n] = executed[on[r]][n] + 1
      BY <3>1 DEF Execute, TakesEffect, IInv, TypeOK
    <3>5. executed[on[r]][n] \in Nat
      BY DEF IInv, TypeOK
    <3> QED
      BY <2>2, <3>1, <3>3, <3>4, <3>5 DEF Execute, InTransaction
  <2> QED
    BY <2>1, <2>2
<1> QED
  BY <1>1, <1>2 DEF ExecutedFirst, Next, Step

(* A run reaches Unlock with nothing left to record.                       *)
LEMMA UnlocksInSync ==
    ASSUME IInv, TypeOK', NEW r \in Runners, Step(r), at'[r] = "unlock", ~run'[r].dry
    PROVE  run'[r].files \subseteq applied'[on'[r]]
<1>1. CASE Plan(r)
  <2> DEFINE rest == {m \in run[r].files : m[1] \notin VersionsOf(applied[on[r]])}
  <2>1. /\ Verify(run[r].files, applied[on[r]]) /\ rest = {}
        /\ UNCHANGED <<applied, on, run>>
    BY <1>1 DEF Plan, Goto, IInv, TypeOK
  <2>2. run[r].files \in Checkouts /\ applied[on[r]] \in SUBSET Migrations
    BY DEF IInv, TypeOK, Runs
  <2>3. run[r].files \ rest \subseteq applied[on[r]]
    BY <2>1, <2>2, VerifyFacts
  <2> HIDE DEF rest
  <2> QED
    BY <2>1, <2>3
<1>2. ASSUME NEW m \in Migrations, ApplyInTransaction(r, m) \/ Record(r, m)
      PROVE  run'[r].files \subseteq applied'[on'[r]]
  <2>1. /\ at[r] \in {"applying", "executed"} /\ IsFirst(r, m) /\ pending[r] = {m}
        /\ applied' = [applied EXCEPT ![on[r]] = @ \cup {m}]
        /\ UNCHANGED <<on, run>>
    BY <1>2 DEF ApplyInTransaction, Record, Insert, Advance, Goto, IInv, TypeOK
  <2>2. run[r].files \ (pending[r] \ {m}) \subseteq applied'[on[r]]
    BY <2>1, RecordsInOrder
  <2> QED
    BY <2>1, <2>2
<1>3. Plan(r) \/ \E m \in Migrations : ApplyInTransaction(r, m) \/ Record(r, m)
  BY DEF IInv, TypeOK, Step, Migrate, EnsureDatabase, CreateDatabase, Lock, Unlock, Execute,
     Fail, FailAfterCommit, Broken, Start, Goto
<1> QED
  BY <1>1, <1>2, <1>3

LEMMA NextDone == IInv /\ TypeOK' /\ [Next]_vars => DoneSoFar'
<1> SUFFICES ASSUME IInv, TypeOK', [Next]_vars PROVE DoneSoFar'
  OBVIOUS
<1>1. CASE UNCHANGED vars
  BY <1>1 DEF vars, IInv, DoneSoFar
<1>2. ASSUME NEW r \in Runners, Step(r), NEW q \in Runners, at'[q] \notin Ended
      PROVE  /\ run'[q].target \in {on'[q], "both"}
             /\ ~run'[q].dry /\ at'[q] = "unlock" => run'[q].files \subseteq applied'[on'[q]]
             /\ ~run'[q].dry /\ run'[q].target = "both" /\ on'[q] = "test" =>
                   run'[q].files \subseteq applied'["dev"]
  <2>1. \A d \in Databases : applied[d] \subseteq applied'[d]
    BY <1>2, OnlyTheHolderRecords
  <2>2. CASE at'[q] = at[q] /\ on'[q] = on[q] /\ run'[q] = run[q]
    <3>1. on[q] \in Databases /\ "dev" \in Databases
      BY DEF IInv, TypeOK, Databases
    <3> QED
      BY <1>2, <2>1, <2>2, <3>1 DEF IInv, DoneSoFar
  <2>3. CASE q # r
    BY <1>2, <2>2, <2>3, OthersUntouched DEF IInv
  <2>4. CASE q = r
    <3>1. ASSUME NEW t \in Targets, NEW dry \in BOOLEAN, NEW ms \in Checkouts,
                 Start(r, t, dry, ms)
          PROVE  /\ run'[r].target \in {on'[r], "both"} /\ at'[r] # "unlock"
                 /\ ~(run'[r].target = "both" /\ on'[r] = "test")
      BY <3>1 DEF Start, Targets, Goto, IInv, TypeOK
    <3>2. CASE Unlock(r)
      <4>1. /\ run[r].target = "both" /\ on[r] = "dev" /\ on'[r] = "test"
            /\ at[r] = "unlock" /\ at'[r] = "ensure" /\ run' = run /\ applied' = applied
        BY <1>2, <2>4, <3>2 DEF Unlock, Goto, Ended, IInv, TypeOK
      <4> QED
        BY <2>4, <4>1 DEF IInv, DoneSoFar, Ended
    <3>3. CASE at[r] \notin Ended /\ on'[r] = on[r] /\ run'[r] = run[r]
      <4>1. "dev" \in Databases
        BY DEF Databases
      <4> QED
        BY <1>2, <2>1, <2>4, <3>3, <4>1, UnlocksInSync DEF IInv, DoneSoFar
    <3>4. \/ at[r] \notin Ended /\ on'[r] = on[r] /\ run'[r] = run[r]
          \/ Unlock(r)
          \/ \E t \in Targets, dry \in BOOLEAN, ms \in Checkouts : Start(r, t, dry, ms)
      BY <1>2, <2>4 DEF IInv, TypeOK, Step, Migrate, EnsureDatabase, CreateDatabase, Lock, Plan,
         ApplyInTransaction, Execute, Record, Fail, FailAfterCommit, Broken, Goto, Ended
    <3> QED
      BY <2>4, <3>1, <3>2, <3>3, <3>4
  <2> QED
    BY <2>3, <2>4
<1> QED
  BY <1>1, <1>2 DEF DoneSoFar, Next, Step
(* One migration takes effect, is recorded, or both at once.               *)
LEMMA NextRecord == IInv /\ TypeOK' /\ [Next]_vars => RecordIsTrue'
<1> SUFFICES ASSUME IInv, TypeOK', [Next]_vars PROVE RecordIsTrue'
  OBVIOUS
<1>1. CASE UNCHANGED <<applied, executed>>
  BY <1>1 DEF IInv, RecordIsTrue
<1> DEFINE True(d, n) ==
        IF n[1] \notin NoTransaction
          THEN executed[d][n] = IF n \in applied[d] THEN 1 ELSE 0
          ELSE n \in applied[d] => executed[d][n] > 0
<1>2. ASSUME NEW r \in Runners, NEW m \in Migrations,
             \/ ApplyInTransaction(r, m) \/ Execute(r, m) \/ Record(r, m)
             \/ FailAfterCommit(r, m),
             NEW d \in Databases, NEW n \in Migrations
      PROVE  True(d, n)'
  <2>1. True(d, n)
    BY DEF IInv, RecordIsTrue
  <2>2. on[r] \in Databases /\ executed[d][n] \in Nat
    BY DEF IInv, TypeOK
  <2>3. /\ applied' = applied \/ applied' = [applied EXCEPT ![on[r]] = @ \cup {m}]
        /\ executed' = executed \/ executed' = [executed EXCEPT ![on[r]][m] = @ + 1]
    BY <1>2 DEF ApplyInTransaction, Execute, Record, FailAfterCommit, Insert, TakesEffect
  <2>4. CASE d # on[r] \/ n # m
    <3>1. executed'[d][n] = executed[d][n] /\ (n \in applied'[d] <=> n \in applied[d])
      BY <2>2, <2>3, <2>4 DEF IInv, TypeOK
    <3> QED
      BY <2>1, <3>1
  <2>5. CASE d = on[r] /\ n = m
    <3>1. CASE ApplyInTransaction(r, m) \/ FailAfterCommit(r, m)
      <4>1. m \notin applied[d] /\ m[1] \notin NoTransaction
        BY <2>5, <3>1 DEF ApplyInTransaction, FailAfterCommit, Insert, VersionsOf, InTransaction
      <4>2. /\ applied' = [applied EXCEPT ![on[r]] = @ \cup {m}]
            /\ executed' = [executed EXCEPT ![on[r]][m] = @ + 1]
        BY <3>1 DEF ApplyInTransaction, FailAfterCommit, Insert, TakesEffect
      <4>3. m \in applied'[d] /\ executed'[d][m] = executed[d][m] + 1
        BY <2>5, <4>2 DEF IInv, TypeOK
      <4> QED
        BY <2>1, <2>5, <4>1, <4>3
    <3>2. CASE Execute(r, m)
      <4>1. m[1] \in NoTransaction
        BY <3>2 DEF Execute, InTransaction
      <4>2. executed'[d][m] = executed[d][m] + 1
        BY <2>5, <3>2 DEF Execute, TakesEffect, IInv, TypeOK
      <4> QED
        BY <2>2, <2>5, <4>1, <4>2
    <3>3. CASE Record(r, m)
      <4>1. m[1] \in NoTransaction /\ executed[d][m] > 0
        BY <2>5, <3>3 DEF Record, IInv, ExecutedFirst
      <4> QED
        BY <2>5, <3>3, <4>1 DEF Record
    <3> QED
      BY <1>2, <3>1, <3>2, <3>3
  <2> QED
    BY <2>4, <2>5
<1>3. UNCHANGED <<applied, executed>> \/
      \E r \in Runners, m \in Migrations :
         \/ ApplyInTransaction(r, m) \/ Execute(r, m) \/ Record(r, m) \/ FailAfterCommit(r, m)
  BY DEF vars, Next, Migrate, EnsureDatabase, CreateDatabase, Lock, Plan, Unlock, Fail, Start
<1> QED
  BY <1>1, <1>2, <1>3 DEF RecordIsTrue

LEMMA NextSync == IInv /\ TypeOK' /\ [Next]_vars => SuccessMeansInSync'
<1> SUFFICES ASSUME IInv, TypeOK', [Next]_vars PROVE SuccessMeansInSync'
  OBVIOUS
<1>1. CASE UNCHANGED vars
  BY <1>1 DEF vars, IInv, SuccessMeansInSync
<1>2. ASSUME NEW r \in Runners, Step(r), NEW q \in Runners, at'[q] = "ok", ~run'[q].dry,
             NEW d \in Databases, run'[q].target \in {d, "both"}
      PROVE  run'[q].files \subseteq applied'[d]
  <2>1. applied[d] \subseteq applied'[d]
    BY <1>2, OnlyTheHolderRecords
  <2>2. CASE q # r
    <3>1. at'[q] = at[q] /\ run'[q] = run[q]
      BY <1>2, <2>2, OthersUntouched DEF IInv
    <3> QED
      BY <1>2, <2>1, <3>1 DEF IInv, SuccessMeansInSync
  <2>3. CASE q = r
    <3>1. /\ Unlock(r) /\ ~(run[r].target = "both" /\ on[r] = "dev")
      BY <1>2, <2>3 DEF IInv, TypeOK, Step, Migrate, EnsureDatabase, CreateDatabase, Lock, Plan,
         Unlock, ApplyInTransaction, Execute, Record, Advance, Fail, FailAfterCommit, Broken,
         Start, Goto
    <3>2. at[r] = "unlock" /\ run' = run
      BY <3>1 DEF Unlock
    <3>3. /\ run[r].target \in {on[r], "both"}
          /\ run[r].files \subseteq applied[on[r]]
          /\ run[r].target = "both" /\ on[r] = "test" => run[r].files \subseteq applied["dev"]
      BY <1>2, <2>3, <3>2 DEF IInv, DoneSoFar, Ended
    <3>4. on[r] \in {"dev", "test"} /\ d \in {"dev", "test"}
      BY DEF IInv, TypeOK, Databases
    <3> QED
      BY <1>2, <2>1, <2>3, <3>1, <3>2, <3>3, <3>4
  <2> QED
    BY <2>2, <2>3
<1> QED
  BY <1>1, <1>2 DEF SuccessMeansInSync, Next, Step

LEMMA NextInductive == IInv /\ [Next]_vars => IInv'
<1> SUFFICES ASSUME IInv, [Next]_vars PROVE IInv'
  OBVIOUS
<1>1. TypeOK'
  BY NextType DEF IInv
<1> QED
  BY <1>1, NextLock, NextPlan, NextExecuted, NextDone, NextRecord, NextSync DEF IInv

(* The invariant behind the safety results: the lock is its holder's, and  *)
(* a plan made under it stays current.                                     *)
THEOREM Inductive == Spec => []IInv
  BY InitInductive, NextInductive, PTL DEF Spec

(* Types, for any number of runners, versions and editions.                *)
THEOREM TypeCorrect == Spec => []TypeOK
<1>1. IInv => TypeOK
  BY DEF IInv
<1> QED
  BY <1>1, Inductive, PTL

(* schema_migrations says what happened, whatever runs race, fail or die.  *)
THEOREM TrueRecord == Spec => []RecordIsTrue
<1>1. IInv => RecordIsTrue
  BY DEF IInv
<1> QED
  BY <1>1, Inductive, PTL

(* Exit status 0 means that every database asked for has every file.       *)
THEOREM SuccessIsTrue == Spec => []SuccessMeansInSync
<1>1. IInv => SuccessMeansInSync
  BY DEF IInv
<1> QED
  BY <1>1, Inductive, PTL

(* Versions are recorded in ascending order, from whatever checkouts the   *)
(* runs come, and no record changes.                                       *)
THEOREM RecordsAscend == Spec => ForwardOnly
<1>1. ASSUME IInv, [Next]_vars, NEW d \in Databases
      PROVE  /\ applied[d] \subseteq applied'[d]
             /\ \A m \in applied'[d] \ applied[d], n \in applied[d] : m[1] > n[1]
  <2>1. CASE applied' = applied
    BY <2>1
  <2>2. ASSUME NEW r \in Runners, NEW k \in Migrations,
               ApplyInTransaction(r, k) \/ Record(r, k) \/ FailAfterCommit(r, k)
        PROVE  /\ applied[d] \subseteq applied'[d]
               /\ \A m \in applied'[d] \ applied[d], n \in applied[d] : m[1] > n[1]
    <3>1. /\ at[r] \in {"applying", "executed"} /\ IsFirst(r, k)
          /\ applied' = [applied EXCEPT ![on[r]] = @ \cup {k}]
      BY <2>2 DEF ApplyInTransaction, Record, FailAfterCommit, Insert
    <3>2. \A n \in applied[on[r]] : k[1] > n[1]
      BY <1>1, <3>1, RecordsInOrder
    <3>3. applied'[d] = IF d = on[r] THEN applied[d] \cup {k} ELSE applied[d]
      BY <1>1, <3>1 DEF IInv, TypeOK
    <3> QED
      BY <3>2, <3>3
  <2>3. \/ applied' = applied
        \/ \E r \in Runners, k \in Migrations :
              ApplyInTransaction(r, k) \/ Record(r, k) \/ FailAfterCommit(r, k)
    BY <1>1 DEF vars, Next, Migrate, EnsureDatabase, CreateDatabase, Lock, Plan, Unlock, Execute,
       Fail, Start
  <2> QED
    BY <2>1, <2>2, <2>3
<1>2. IInv /\ [Next]_vars =>
        [\A d \in Databases :
            /\ applied[d] \subseteq applied'[d]
            /\ \A m \in applied'[d] \ applied[d], n \in applied[d] : m[1] > n[1]]_vars
  BY <1>1
<1> QED
  BY <1>2, Inductive, PTL DEF Spec, ForwardOnly
=============================================================================
