------------------------------- MODULE Migrate -------------------------------
(***************************************************************************)
(* The migration runner, storage/migrate.py.  Runs of it, from different   *)
(* checkouts and on different machines, meet on the same two databases; a  *)
(* run may fail or die anywhere.                                           *)
(*                                                                         *)
(* A migration is <<version, edition>>: the edition stands for its file    *)
(* name and the checksum of its text.                                      *)
(***************************************************************************)
EXTENDS Integers, FiniteSets

CONSTANTS
    Runners, NoRunner,  \* processes that run the tool, one run at a time each
    Versions,           \* version numbers
    Editions,           \* what a file of one version may say
    NoTransaction,      \* versions marked sankalp:no-transaction
    MaxRuns             \* bound on runs started

ASSUME RunnersAssumption == NoRunner \notin Runners
ASSUME VersionsAssumption ==
    Versions \subseteq Nat \ {0} /\ IsFiniteSet(Versions) /\ NoTransaction \subseteq Versions
ASSUME RunsAssumption == MaxRuns \in Nat

Databases == {"dev", "test"}
Targets == {"dev", "test", "both"}
Migrations == Versions \X Editions

VersionsOf(ms) == {m[1] : m \in ms}

(* What discover accepts: no two files of one version.                     *)
Checkouts == {ms \in SUBSET Migrations : \A m, n \in ms : m[1] = n[1] => m = n}

VARIABLES
    exists,    \* the database has been created
    applied,   \* its schema_migrations
    executed,  \* how often each migration's SQL has taken effect in it
    lock,      \* who holds its advisory lock
    at,        \* where each run is
    on,        \* the database it is working on
    run,       \* its arguments and the files it found
    pending,   \* what it has still to apply
    runs       \* runs started so far

vars == <<exists, applied, executed, lock, at, on, run, pending, runs>>

Runs == [target : Targets, dry : BOOLEAN, files : Checkouts]
NoRun == [target |-> "both", dry |-> FALSE, files |-> {}]
Ended == {"idle", "ok", "failed"}
Places == Ended \cup {"ensure", "create", "connect", "locked", "applying", "executed", "unlock"}

TypeOK ==
    /\ exists \in [Databases -> BOOLEAN]
    /\ applied \in [Databases -> SUBSET Migrations]
    /\ executed \in [Databases -> [Migrations -> Nat]]
    /\ lock \in [Databases -> Runners \cup {NoRunner}]
    /\ at \in [Runners -> Places] /\ on \in [Runners -> Databases]
    /\ run \in [Runners -> Runs] /\ pending \in [Runners -> SUBSET Migrations]
    /\ runs \in 0..MaxRuns

Init ==
    /\ exists = [d \in Databases |-> FALSE]
    /\ applied = [d \in Databases |-> {}]
    /\ executed = [d \in Databases |-> [m \in Migrations |-> 0]]
    /\ lock = [d \in Databases |-> NoRunner]
    /\ at = [r \in Runners |-> "idle"] /\ on = [r \in Runners |-> "dev"]
    /\ run = [r \in Runners |-> NoRun] /\ pending = [r \in Runners |-> {}]
    /\ runs = 0

-----------------------------------------------------------------------------
Goto(r, place) == at' = [at EXCEPT ![r] = place]

(* run's loop over the targets begins, with whatever files are there.      *)
Start(r, target, dry, files) ==
    /\ at[r] \in Ended /\ runs < MaxRuns
    /\ Goto(r, "ensure")
    /\ on' = [on EXCEPT ![r] = IF target = "test" THEN "test" ELSE "dev"]
    /\ run' = [run EXCEPT ![r] = [target |-> target, dry |-> dry, files |-> files]]
    /\ runs' = runs + 1
    /\ UNCHANGED <<exists, applied, executed, lock, pending>>

EnsureDatabase(r) ==
    /\ at[r] = "ensure"
    /\ Goto(r, IF exists[on[r]] THEN "connect" ELSE "create")
    /\ UNCHANGED <<exists, applied, executed, lock, on, run, pending, runs>>

(* CREATE DATABASE; an error if somebody else has been faster: see Fail.   *)
CreateDatabase(r) ==
    /\ at[r] = "create" /\ ~exists[on[r]]
    /\ exists' = [exists EXCEPT ![on[r]] = TRUE]
    /\ Goto(r, "connect")
    /\ UNCHANGED <<applied, executed, lock, on, run, pending, runs>>

(* Mutant: the lock is tried for, and its absence ignored.                 *)
LockIgnored(r) ==
    /\ at[r] = "connect"
    /\ lock' = [lock EXCEPT ![on[r]] = r]
    /\ Goto(r, "locked")
    /\ UNCHANGED <<exists, applied, executed, on, run, pending, runs>>

(* pg_advisory_lock waits.                                                 *)
Lock(r) ==
    /\ at[r] = "connect" /\ lock[on[r]] = NoRunner
    /\ lock' = [lock EXCEPT ![on[r]] = r]
    /\ Goto(r, "locked")
    /\ UNCHANGED <<exists, applied, executed, on, run, pending, runs>>

(* Mutant: only version numbers are compared.                              *)
VerifyNumbers(files, done) ==
    /\ VersionsOf(done) \subseteq VersionsOf(files)
    /\ \A m \in files, n \in done : m[1] \in VersionsOf(done) \/ m[1] > n[1]

(* _verify: nothing applied was edited, renamed or deleted, and nothing    *)
(* new comes before something applied.                                     *)
Verify(files, done) ==
    /\ \A m \in files, n \in done : m[1] = n[1] => m = n
    /\ VersionsOf(done) \subseteq VersionsOf(files)
    /\ \A m \in files, n \in done : m[1] \in VersionsOf(done) \/ m[1] > n[1]

(* Under the lock: create schema_migrations if need be, read it, verify.   *)
Plan(r) ==
    LET files == run[r].files
        done == applied[on[r]]
        rest == {m \in files : m[1] \notin VersionsOf(done)}
    IN  /\ at[r] = "locked" /\ Verify(files, done)
        /\ IF rest = {} \/ run[r].dry
             THEN Goto(r, "unlock") /\ UNCHANGED pending
             ELSE Goto(r, "applying") /\ pending' = [pending EXCEPT ![r] = rest]
        /\ UNCHANGED <<exists, applied, executed, lock, on, run, runs>>

IsFirst(r, m) == m \in pending[r] /\ \A n \in pending[r] : m[1] <= n[1]

(* The migration takes effect in the database.                             *)
TakesEffect(r, m) == executed' = [executed EXCEPT ![on[r]][m] = @ + 1]

(* The row of schema_migrations; version is its primary key.               *)
Insert(r, m) ==
    /\ m[1] \notin VersionsOf(applied[on[r]])
    /\ applied' = [applied EXCEPT ![on[r]] = @ \cup {m}]
    /\ pending' = [pending EXCEPT ![r] = @ \ {m}]

Advance(r, m) == IF pending[r] = {m} THEN "unlock" ELSE "applying"

(* Mutant: the SQL runs before the transaction is begun.                   *)
InTransactionNever(m) == FALSE

InTransaction(m) == m[1] \notin NoTransaction

(* _apply_one, the SQL and its row in one transaction.                     *)
ApplyInTransaction(r, m) ==
    /\ at[r] = "applying" /\ IsFirst(r, m) /\ InTransaction(m)
    /\ TakesEffect(r, m) /\ Insert(r, m)
    /\ Goto(r, Advance(r, m))
    /\ UNCHANGED <<exists, lock, on, run, runs>>

(* _apply_one without a transaction: first the SQL, ...                    *)
Execute(r, m) ==
    /\ at[r] = "applying" /\ IsFirst(r, m) /\ ~InTransaction(m)
    /\ TakesEffect(r, m)
    /\ Goto(r, "executed")
    /\ UNCHANGED <<exists, applied, lock, on, run, pending, runs>>

(* ... then its row.                                                       *)
Record(r, m) ==
    /\ at[r] = "executed" /\ IsFirst(r, m)
    /\ Insert(r, m)
    /\ Goto(r, Advance(r, m))
    /\ UNCHANGED <<exists, executed, lock, on, run, runs>>

Unlocked(r) == [d \in Databases |-> IF lock[d] = r THEN NoRunner ELSE lock[d]]

(* Unlock, close, and on to the next target.                               *)
Unlock(r) ==
    /\ at[r] = "unlock"
    /\ lock' = Unlocked(r)
    /\ IF run[r].target = "both" /\ on[r] = "dev"
         THEN Goto(r, "ensure") /\ on' = [on EXCEPT ![r] = "test"]
         ELSE Goto(r, "ok") /\ UNCHANGED on
    /\ UNCHANGED <<exists, applied, executed, run, pending, runs>>

(* A run ends with an error: whatever it held goes with its session.       *)
Broken(r) ==
    /\ lock' = Unlocked(r)
    /\ Goto(r, "failed")
    /\ run' = [run EXCEPT ![r] = NoRun] /\ pending' = [pending EXCEPT ![r] = {}]
    /\ on' = [on EXCEPT ![r] = "dev"]

(* A refusal of _verify, an error of Postgres, a lost connection, or the   *)
(* death of the process.                                                   *)
Fail(r) ==
    /\ at[r] \notin Ended
    /\ Broken(r)
    /\ UNCHANGED <<exists, applied, executed, runs>>

(* The transaction commits, and the run does not hear of it.               *)
FailAfterCommit(r, m) ==
    /\ at[r] = "applying" /\ IsFirst(r, m) /\ InTransaction(m)
    /\ m[1] \notin VersionsOf(applied[on[r]])
    /\ TakesEffect(r, m)
    /\ applied' = [applied EXCEPT ![on[r]] = @ \cup {m}]
    /\ Broken(r)
    /\ UNCHANGED <<exists, runs>>

Migrate(r) ==
    \/ EnsureDatabase(r) \/ CreateDatabase(r) \/ Lock(r) \/ Plan(r) \/ Unlock(r)
    \/ \E m \in Migrations : ApplyInTransaction(r, m) \/ Execute(r, m) \/ Record(r, m)

Next ==
    \E r \in Runners :
          \/ Migrate(r) \/ Fail(r) \/ \E m \in Migrations : FailAfterCommit(r, m)
          \/ \E t \in Targets, dry \in BOOLEAN, ms \in Checkouts : Start(r, t, dry, ms)

Spec == Init /\ [][Next]_vars

-----------------------------------------------------------------------------
(* Properties.                                                             *)

(* What schema_migrations says is what happened: whatever runs race, fail  *)
(* or die, a transactional migration has taken effect once if it is        *)
(* recorded and never if it is not; one without a transaction at least     *)
(* once if it is recorded.                                                 *)
RecordIsTrue ==
    \A d \in Databases, m \in Migrations :
        IF m[1] \notin NoTransaction
          THEN executed[d][m] = IF m \in applied[d] THEN 1 ELSE 0
          ELSE m \in applied[d] => executed[d][m] > 0

(* "Forward-only": whoever runs the tool, and from whatever checkout,      *)
(* versions are recorded in ascending order and never change afterwards.   *)
ForwardOnly ==
    [][\A d \in Databases :
          /\ applied[d] \subseteq applied'[d]
          /\ \A m \in applied'[d] \ applied[d], n \in applied[d] : m[1] > n[1]]_vars

(* A run that exits with 0 has every file of its checkout, as it stands    *)
(* there, recorded in every database it was pointed at, although it let go *)
(* of the first before it turned to the second.                            *)
SuccessMeansInSync ==
    \A r \in Runners : at[r] = "ok" /\ ~run[r].dry =>
        \A d \in Databases :
            run[r].target \in {d, "both"} => run[r].files \subseteq applied[d]

-----------------------------------------------------------------------------
(* The inductive invariant.                                                *)

Holding == {"locked", "applying", "executed", "unlock"}

(* Between Lock and Unlock the lock is the run's own.                      *)
LockHeld == \A r \in Runners : at[r] \in Holding => lock[on[r]] = r

(* A plan made under the lock stays true while the lock is held: what is   *)
(* pending comes after everything recorded, the rest of the files is       *)
(* recorded.                                                               *)
PlanIsCurrent ==
    \A r \in Runners : at[r] \in {"applying", "executed"} =>
        /\ pending[r] \subseteq run[r].files
        /\ run[r].files \ pending[r] \subseteq applied[on[r]]
        /\ \A m \in pending[r], n \in applied[on[r]] : m[1] > n[1]

(* A migration between its SQL and its row has taken effect.               *)
ExecutedFirst ==
    \A r \in Runners, m \in Migrations : at[r] = "executed" /\ IsFirst(r, m) =>
        m[1] \in NoTransaction /\ executed[on[r]][m] > 0

(* What a run has behind it: the database it is about to unlock, and the   *)
(* first of two when it has turned to the second.                          *)
DoneSoFar ==
    \A r \in Runners : at[r] \notin Ended =>
        /\ run[r].target \in {on[r], "both"}
        /\ ~run[r].dry /\ at[r] = "unlock" => run[r].files \subseteq applied[on[r]]
        /\ ~run[r].dry /\ run[r].target = "both" /\ on[r] = "test" =>
              run[r].files \subseteq applied["dev"]

IInv ==
    /\ TypeOK /\ LockHeld /\ PlanIsCurrent /\ ExecutedFirst /\ DoneSoFar
    /\ RecordIsTrue /\ SuccessMeansInSync
=============================================================================
