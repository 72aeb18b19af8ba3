--------------------------------- MODULE Api ---------------------------------
(***************************************************************************)
(* The HTTP routes of api/main.py over storage/workflows.py: submit, get   *)
(* and cancel, for one workflow type and one Idempotency-Key, against one  *)
(* Postgres and one connection pool.  Meanwhile the engine works on the    *)
(* row: that part is SagaLifecycle, which Saga is proved to implement.     *)
(*                                                                         *)
(* A step is one statement, or one transaction end, of one request.        *)
(***************************************************************************)
EXTENDS Integers, FiniteSets

CONSTANTS
    Submits, Gets, Cancels,  \* requests, by route
    Unregistered,            \* submits of a workflow_type nobody registered
    NoOne,                   \* not a request
    PoolSize,                \* db_pool_max_size
    MaxFailures,             \* bound on requests that fail
    N, Compensable           \* the saga of SagaLifecycle

Requests == Submits \cup Gets \cup Cancels

ASSUME RequestsAssumption ==
    /\ IsFiniteSet(Requests) /\ NoOne \notin Requests /\ Unregistered \subseteq Submits
    /\ Submits \cap Gets = {} /\ Submits \cap Cancels = {} /\ Gets \cap Cancels = {}
ASSUME PoolAssumption == PoolSize \in Nat \ {0} /\ MaxFailures \in Nat
ASSUME SagaAssumption == N \in Nat /\ Compensable \subseteq 1..N

VARIABLES
    status, forward, undone, turned,  \* the row's life, once there is a row
    current,   \* workflows.current_step; 0 is NULL
    row,       \* "none", "open" (inserted, not committed) or "there"
    creator,   \* the submit whose insert that is; stands for the row's id
    at,        \* where each request has got to
    record,    \* the row as each request read it
    code,      \* the status code each request was answered with; 0 before
    completed  \* the completed_steps of its answer

engineVars == <<status, forward, undone, turned>>
vars == <<status, forward, undone, turned, current, row, creator, at, record, code, completed>>

Engine == INSTANCE SagaLifecycle

Steps == 1..N
Statuses == {"PENDING", "RUNNING", "SUCCESS", "COMPENSATING", "COMPENSATED", "FAILED_DIRTY"}

(* WorkflowRecord; of its status, whether it is SUCCESS.                   *)
Records == [id : Submits \cup {NoOne}, status : {"SUCCESS", "OTHER"}, current : 0..N]
Unread == [id |-> NoOne, status |-> "OTHER", current |-> 0]

(* inserting: in the INSERT, which may be blocked; inserted: holding the   *)
(* row uncommitted; conflict: DO NOTHING, about to select; fetched: the    *)
(* record is read, the completed steps are not; lost: the assertion of     *)
(* submit_workflow failed.                                                 *)
Places == {"start", "inserting", "inserted", "conflict", "lost", "cancelled",
           "refused", "fetched", "answered"}

TypeOK ==
    /\ status \in Statuses /\ forward \subseteq Steps /\ undone \subseteq Steps
    /\ turned \in BOOLEAN /\ current \in 0..N
    /\ row \in {"none", "open", "there"} /\ creator \in Submits \cup {NoOne}
    /\ at \in [Requests -> Places]
    /\ record \in [Requests -> Records]
    /\ code \in [Requests -> {0, 200, 201, 404, 409, 422, 500}]
    /\ completed \in [Requests -> SUBSET Steps]

Init ==
    /\ Engine!Init /\ current = 0
    /\ row = "none" /\ creator = NoOne
    /\ at = [r \in Requests |-> "start"]
    /\ record = [r \in Requests |-> Unread]
    /\ code = [r \in Requests |-> 0]
    /\ completed = [r \in Requests |-> {}]

-----------------------------------------------------------------------------
(* The pool.  A transaction keeps its connection across its statements; a  *)
(* single statement takes one and gives it back.                           *)

(* Mutant: the steps are read inside the transaction's block, so that a    *)
(* submit keeps its connection while it asks the pool for another.         *)
HoldersNested == {r \in Requests : \/ at[r] \in {"inserting", "inserted", "conflict"}
                                   \/ r \in Submits /\ at[r] = "fetched"}

Holders == {r \in Requests : at[r] \in {"inserting", "inserted", "conflict"}}

ConnectionFree == Cardinality(Holders) < PoolSize

Goto(r, place) == at' = [at EXCEPT ![r] = place]

Answer(r, c) ==
    /\ Goto(r, "answered")
    /\ code' = [code EXCEPT ![r] = c]

(* _WORKFLOW_RECORD_COLUMNS of the committed row.                          *)
RowRead == [id |-> creator, status |-> IF status = "SUCCESS" THEN "SUCCESS" ELSE "OTHER",
            current |-> current]

Fetch(r) == record' = [record EXCEPT ![r] = RowRead]

-----------------------------------------------------------------------------
(* POST /workflows.                                                        *)

RejectType(r) ==
    /\ r \in Unregistered /\ at[r] = "start"
    /\ Answer(r, 422)
    /\ UNCHANGED <<engineVars, current, row, creator, record, completed>>

BeginSubmit(r) ==
    /\ r \in Submits \ Unregistered /\ at[r] = "start" /\ ConnectionFree
    /\ Goto(r, "inserting")
    /\ UNCHANGED <<engineVars, current, row, creator, record, code, completed>>

(* Mutant: nothing makes the key unique.                                   *)
InsertAnyway(r) ==
    /\ at[r] = "inserting" /\ row # "there"
    /\ row' = "open" /\ creator' = r
    /\ Goto(r, "inserted")
    /\ UNCHANGED <<engineVars, current, record, code, completed>>

(* The INSERT finds no such key, committed or not.                         *)
Insert(r) ==
    /\ at[r] = "inserting" /\ row = "none"
    /\ row' = "open" /\ creator' = r
    /\ Goto(r, "inserted")
    /\ UNCHANGED <<engineVars, current, record, code, completed>>

(* Mutant: an uncommitted key is a conflict too.                           *)
ConflictAtOnce(r) ==
    /\ at[r] = "inserting" /\ row # "none"
    /\ Goto(r, "conflict")
    /\ UNCHANGED <<engineVars, current, row, creator, record, code, completed>>

(* DO NOTHING, once the other transaction has committed; until it ends the *)
(* INSERT is blocked.                                                      *)
Conflict(r) ==
    /\ at[r] = "inserting" /\ row = "there"
    /\ Goto(r, "conflict")
    /\ UNCHANGED <<engineVars, current, row, creator, record, code, completed>>

(* The transaction that inserted commits, and only then returns its row.   *)
CommitInsert(r) ==
    /\ at[r] = "inserted"
    /\ row' = "there"
    /\ record' = [record EXCEPT ![r] = [id |-> r, status |-> "OTHER", current |-> 0]]
    /\ Goto(r, "fetched")
    /\ UNCHANGED <<engineVars, current, creator, code, completed>>

(* _SUBMIT_SELECT_SQL sees what is committed.                              *)
SelectWinner(r) ==
    /\ at[r] = "conflict"
    /\ IF row = "there" THEN Fetch(r) /\ Goto(r, "fetched")
                        ELSE Goto(r, "lost") /\ UNCHANGED record
    /\ UNCHANGED <<engineVars, current, row, creator, code, completed>>

MayFail == Cardinality({r \in Requests : code[r] = 500}) < MaxFailures

(* An error, a timeout, a cancelled request or the death of the process    *)
(* before the answer.  An open transaction is rolled back and what was read *)
(* is forgotten.                                                           *)
Fail(r) ==
    /\ at[r] \in Places \ {"start", "answered"} /\ MayFail
    /\ row' = IF at[r] = "inserted" THEN "none" ELSE row
    /\ creator' = IF at[r] = "inserted" THEN NoOne ELSE creator
    /\ record' = [record EXCEPT ![r] = Unread]
    /\ Answer(r, 500)
    /\ UNCHANGED <<engineVars, current, completed>>

(* The commit is done and its reply is lost.                               *)
CommitReplyLost(r) ==
    /\ at[r] = "inserted" /\ MayFail
    /\ row' = "there"
    /\ Answer(r, 500)
    /\ UNCHANGED <<engineVars, current, creator, record, completed>>

-----------------------------------------------------------------------------
(* GET /workflows/{id}, POST /workflows/{id}/cancel, and the second read   *)
(* they share with submit.                                                 *)

GetWorkflow(r) ==
    /\ r \in Gets /\ at[r] = "start" /\ ConnectionFree
    /\ IF row = "there" THEN Fetch(r) /\ Goto(r, "fetched") /\ UNCHANGED code
                        ELSE Answer(r, 404) /\ UNCHANGED record
    /\ UNCHANGED <<engineVars, current, row, creator, completed>>

(* _CANCEL_SQL.                                                            *)
CancelWorkflow(r) ==
    /\ r \in Cancels /\ at[r] = "start" /\ ConnectionFree
    /\ \/ row = "there" /\ Engine!Compensate /\ Goto(r, "cancelled")
       \/ ~(row = "there" /\ status \in {"PENDING", "RUNNING"})
             /\ Goto(r, "refused") /\ UNCHANGED engineVars
    /\ UNCHANGED <<current, row, creator, record, code, completed>>

FetchCancelled(r) ==
    /\ at[r] = "cancelled" /\ ConnectionFree
    /\ Fetch(r) /\ Goto(r, "fetched")
    /\ UNCHANGED <<engineVars, current, row, creator, code, completed>>

(* 404 or 409, by a second look.                                           *)
ExplainRefusal(r) ==
    /\ at[r] = "refused" /\ ConnectionFree
    /\ Answer(r, IF row = "there" THEN 409 ELSE 404)
    /\ UNCHANGED <<engineVars, current, row, creator, record, completed>>

(* get_completed_steps, and the response.                                  *)
Respond(r) ==
    /\ at[r] = "fetched" /\ ConnectionFree
    /\ completed' = [completed EXCEPT ![r] = forward]
    /\ Answer(r, IF r = record[r].id THEN 201 ELSE 200)
    /\ UNCHANGED <<engineVars, current, row, creator, record>>

-----------------------------------------------------------------------------
(* The engine.  Every checkpoint, of a step or of its compensation, also   *)
(* sets current_step.                                                      *)

(* Mutant: current_step names the step about to run.                       *)
MarkedEarly == IF forward' # Steps THEN Cardinality(forward') + 1 ELSE current

Marked ==
    LET new == (forward' \ forward) \cup (undone' \ undone)
    IN  IF new = {} THEN current ELSE CHOOSE s \in new : TRUE

EngineStep ==
    /\ row = "there" /\ Engine!Next
    /\ current' = Marked
    /\ UNCHANGED <<row, creator, at, record, code, completed>>

Handle(r) ==
    \/ RejectType(r) \/ BeginSubmit(r) \/ Insert(r) \/ Conflict(r)
    \/ CommitInsert(r) \/ SelectWinner(r) \/ GetWorkflow(r) \/ CancelWorkflow(r)
    \/ FetchCancelled(r) \/ ExplainRefusal(r) \/ Respond(r)

Next == EngineStep \/ \E r \in Requests : Handle(r) \/ Fail(r) \/ CommitReplyLost(r)

Spec == Init /\ [][Next]_vars

(* A request that can go on does: its task is scheduled and Postgres       *)
(* answers.  Nothing is assumed of the engine.                             *)
FairSpec == Spec /\ \A r \in Requests : WF_vars(Handle(r))

-----------------------------------------------------------------------------
(* Properties.                                                             *)

(* However submits of one key race, fail and lose replies, everyone is     *)
(* told of the same, committed workflow, and one of them at most that it   *)
(* created it.                                                             *)
RepliesAgree ==
    /\ \A r \in Requests : code[r] \in {200, 201} => row = "there" /\ record[r].id = creator
    /\ \A p, q \in Requests : code[p] = 201 /\ code[q] = 201 => p = q

(* "submit lost the race twice" never happens: the insert that found a     *)
(* conflict is followed by a select that finds the winner's row.           *)
LoserFindsWinner == \A r \in Requests : at[r] # "lost"

(* The record and the completed steps of a response are read one after the *)
(* other while the engine goes on, and still fit together: the current     *)
(* step is among the completed ones, and a success has all of them.        *)
ResponsesFit ==
    \A r \in Requests : code[r] \in {200, 201} =>
        /\ record[r].current = 0 \/ record[r].current \in completed[r]
        /\ record[r].status = "SUCCESS" => completed[r] = Steps

(* The parts of the inductive invariant: where a request is says what it   *)
(* knows of the row, and what it has read of the saga stays true of it.    *)
KnowsTheRow ==
    \A r \in Requests :
        /\ at[r] \in {"inserting", "inserted", "conflict"} => r \in Submits
        /\ at[r] = "inserted" => row = "open" /\ creator = r
        /\ at[r] \in {"conflict", "cancelled", "fetched"} => row = "there"
        /\ at[r] = "fetched" => record[r].id = creator
        /\ code[r] = 201 => record[r].id = r

ReadsAge ==
    /\ undone \subseteq forward /\ (current = 0 \/ current \in forward)
    /\ status = "SUCCESS" => forward = Steps
    /\ \A r \in Requests : at[r] = "fetched" =>
          /\ record[r].current = 0 \/ record[r].current \in forward
          /\ record[r].status = "SUCCESS" => forward = Steps

Unanswered == \A r \in Requests : at[r] # "answered" => code[r] = 0

IInv == TypeOK /\ Unanswered /\ KnowsTheRow /\ RepliesAgree /\ LoserFindsWinner /\ ReadsAge /\ ResponsesFit

(* Every request is answered, whatever the size of the pool: neither the   *)
(* pool nor a blocked insert ever has everyone waiting.                    *)
EveryRequestAnswered == <>(\A r \in Requests : at[r] = "answered")
=============================================================================
