------------------------------ MODULE ApiProofs ------------------------------
(***************************************************************************)
(* Safety of the API's routes, for any number of requests, any pool and    *)
(* any saga.                                                               *)
(***************************************************************************)
EXTENDS Api, TLAPS

USE RequestsAssumption, PoolAssumption, SagaAssumption

LEMMA InitIInv == Init => IInv
<1> SUFFICES ASSUME Init PROVE IInv
  OBVIOUS
<1>1. TypeOK
  <2>1. Unread \in Records
    BY DEF Unread, Records
  <2>2. QED
    <3>1. status \in Statuses /\ turned \in BOOLEAN
      BY DEF Init, Engine!Init, Statuses
    <3>2. QED
      BY <2>1, <3>1 DEF Init, TypeOK, Engine!Init, Steps, Places
<1>2. QED
  BY <1>1 DEF Init, Engine!Init, IInv, Unanswered, KnowsTheRow, RepliesAgree, LoserFindsWinner,
              ReadsAge, ResponsesFit, Unread

(* What a step of the engine does to the row, whatever step it is.         *)
LEMMA EngineGrows ==
    ASSUME TypeOK, ReadsAge, EngineStep
    PROVE  /\ status' \in Statuses /\ forward' \subseteq Steps /\ undone' \subseteq Steps
           /\ turned' \in BOOLEAN /\ current' \in 0..N
           /\ forward \subseteq forward' /\ undone' \subseteq forward'
           /\ current' = 0 \/ current' \in forward'
           /\ status' = "SUCCESS" => forward' = Steps
<1> DEFINE Grows == /\ status' \in Statuses /\ turned' \in BOOLEAN
                    /\ forward \subseteq forward' /\ forward' \subseteq Steps
                    /\ undone' \subseteq forward'
                    /\ status' = "SUCCESS" => forward' = Steps
<1>1. ASSUME \/ Engine!Start \/ Engine!Retry \/ Engine!Compensate
             \/ Engine!Turn \/ Engine!Compensated \/ Engine!GiveUp
      PROVE  Grows
  <2>1. /\ forward' = forward /\ undone' = undone
        /\ status' \in Statuses \ {"SUCCESS"}
    BY <1>1 DEF TypeOK, Statuses, Engine!Start, Engine!Retry, Engine!Compensate,
                Engine!Turn, Engine!Compensated, Engine!GiveUp
  <2>2. turned' \in BOOLEAN
    BY <1>1 DEF TypeOK, Engine!Start, Engine!Retry, Engine!Compensate,
                Engine!Turn, Engine!Compensated, Engine!GiveUp
  <2>3. QED
    BY <2>1, <2>2 DEF TypeOK, ReadsAge
<1>2. ASSUME Engine!Succeed PROVE Grows
  BY <1>2 DEF TypeOK, ReadsAge, Statuses, Engine!Succeed, Engine!Steps, Steps
<1>3. ASSUME NEW s \in Steps, Engine!Commit(s) PROVE Grows
  BY <1>3 DEF TypeOK, ReadsAge, Statuses, Engine!Commit
<1>4. ASSUME NEW s \in Steps, Engine!Undo(s) PROVE Grows
  <2>1. s \in forward
    BY <1>4 DEF Engine!Undo, Engine!Outstanding
  <2>2. turned' \in BOOLEAN
    BY <1>4 DEF TypeOK, Engine!Undo
  <2>3. status' = "COMPENSATING" /\ forward' = forward /\ undone' = undone \cup {s}
    BY <1>4 DEF Engine!Undo
  <2>4. QED
    BY <2>1, <2>2, <2>3 DEF TypeOK, ReadsAge, Statuses
<1> HIDE DEF Grows
<1>5. Grows
  BY <1>1, <1>2, <1>3, <1>4 DEF EngineStep, Engine!Next, Engine!Steps, Steps
<1>6. current' = current \/ current' \in forward'
  <2>1. current' = Marked
    BY DEF EngineStep
  <2>2. QED
    BY <1>5, <2>1 DEF Marked, Grows
<1>7. current' \in 0..N
  <2>1. Steps \subseteq 0..N
    BY DEF Steps
  <2>2. current \in 0..N
    BY DEF TypeOK
  <2>3. forward' \subseteq Steps
    BY <1>5 DEF Grows
  <2>4. QED
    BY <1>6, <2>1, <2>2, <2>3
<1>8. QED
  BY <1>5, <1>6, <1>7 DEF ReadsAge, Grows

(* Only the engine changes the saga; the cancel route takes one step of it.*)
LEMMA CancelKeeps ==
    ASSUME TypeOK, ReadsAge, NEW r \in Requests, CancelWorkflow(r)
    PROVE  /\ status' \in Statuses /\ forward' = forward /\ undone' = undone /\ turned' = turned
           /\ status' = "SUCCESS" => forward' = Steps
<1>1. CASE Engine!Compensate
  BY <1>1 DEF Engine!Compensate, Statuses
<1>2. CASE UNCHANGED engineVars
  BY <1>2 DEF engineVars, TypeOK, ReadsAge
<1>3. QED
  BY <1>1, <1>2 DEF CancelWorkflow

LEMMA KnowsStep ==
    ASSUME IInv, TypeOK', [Next]_vars
    PROVE  Unanswered' /\ KnowsTheRow' /\ RepliesAgree' /\ LoserFindsWinner'
<1> DEFINE Told == Unanswered /\ KnowsTheRow /\ RepliesAgree /\ LoserFindsWinner
<1> USE DEF IInv, TypeOK, Unanswered, KnowsTheRow, RepliesAgree, LoserFindsWinner
<1>1. CASE EngineStep \/ UNCHANGED vars
  BY <1>1 DEF EngineStep, vars
<1>2. ASSUME NEW r \in Requests, Handle(r) \/ Fail(r) \/ CommitReplyLost(r) PROVE Told'
  <2> USE DEF Goto, Answer
  <2>1. CASE RejectType(r) \/ BeginSubmit(r) \/ Conflict(r) \/ CancelWorkflow(r)
    BY <2>1 DEF RejectType, BeginSubmit, Conflict, CancelWorkflow
  <2>2. CASE Insert(r)
    BY <2>2 DEF Insert
  <2>3. CASE CommitInsert(r)
    BY <2>3 DEF CommitInsert
  <2>4. CASE SelectWinner(r) \/ GetWorkflow(r) \/ FetchCancelled(r)
    BY <2>4 DEF SelectWinner, GetWorkflow, FetchCancelled, Fetch, RowRead
  <2>5. CASE ExplainRefusal(r) \/ Respond(r)
    BY <2>5 DEF ExplainRefusal, Respond
  <2>6. CASE Fail(r)
    BY <2>6 DEF Fail
  <2>7. CASE CommitReplyLost(r)
    BY <2>7 DEF CommitReplyLost
  <2>8. QED
    BY <1>2, <2>1, <2>2, <2>3, <2>4, <2>5, <2>6, <2>7 DEF Handle
<1>3. QED
  BY <1>1, <1>2 DEF Next

LEMMA TypeStep == ASSUME IInv, [Next]_vars PROVE TypeOK'
<1> USE DEF IInv
<1>1. CASE EngineStep
  BY <1>1, EngineGrows DEF EngineStep, TypeOK
<1>2. ASSUME NEW r \in Requests, CancelWorkflow(r) PROVE TypeOK'
  BY <1>2, CancelKeeps DEF CancelWorkflow, TypeOK, Goto, Places
<1>3. ASSUME NEW r \in Requests, Handle(r), ~CancelWorkflow(r) PROVE TypeOK'
  <2> USE DEF TypeOK, Goto, Answer, engineVars, Places
  <2>1. RowRead \in Records
    BY DEF RowRead, Records
  <2>2. CASE RejectType(r) \/ BeginSubmit(r) \/ Conflict(r)
    BY <2>2 DEF RejectType, BeginSubmit, Conflict
  <2>3. CASE Insert(r)
    BY <2>3 DEF Insert, KnowsTheRow
  <2>7. CASE CommitInsert(r)
    <3>1. [id |-> r, status |-> "OTHER", current |-> 0] \in Records
      BY <2>7 DEF CommitInsert, KnowsTheRow, Records
    <3>2. QED
      BY <2>7, <3>1 DEF CommitInsert
  <2>8. CASE SelectWinner(r)
    BY <2>1, <2>8 DEF SelectWinner, Fetch
  <2>4. CASE GetWorkflow(r) \/ FetchCancelled(r)
    BY <2>1, <2>4 DEF GetWorkflow, FetchCancelled, Fetch
  <2>5. CASE ExplainRefusal(r) \/ Respond(r)
    BY <2>5 DEF ExplainRefusal, Respond
  <2>6. QED
    BY <1>3, <2>2, <2>3, <2>4, <2>5, <2>7, <2>8 DEF Handle
<1>4. ASSUME NEW r \in Requests, Fail(r) \/ CommitReplyLost(r) PROVE TypeOK'
  BY <1>4 DEF Fail, CommitReplyLost, Answer, Goto, TypeOK, engineVars, Places, Records, Unread
<1>5. CASE UNCHANGED vars
  BY <1>5 DEF vars, TypeOK
<1>6. QED
  BY <1>1, <1>2, <1>3, <1>4, <1>5 DEF Next

LEMMA ReadsStep == ASSUME IInv, TypeOK', [Next]_vars PROVE ReadsAge' /\ ResponsesFit'
<1> DEFINE Fit == ReadsAge /\ ResponsesFit
<1> USE DEF IInv
<1>1. CASE EngineStep
  <2>1. /\ forward \subseteq forward' /\ forward' \subseteq Steps /\ undone' \subseteq forward'
        /\ current' = 0 \/ current' \in forward'
        /\ status' = "SUCCESS" => forward' = Steps
    BY <1>1, EngineGrows
  <2>2. UNCHANGED <<at, record, code, completed>>
    BY <1>1 DEF EngineStep
  <2>3. QED
    BY <2>1, <2>2 DEF ReadsAge, ResponsesFit
<1>2. ASSUME NEW r \in Requests, CancelWorkflow(r) PROVE Fit'
  <2>1. forward' = forward /\ undone' = undone /\ (status' = "SUCCESS" => forward' = Steps)
    BY <1>2, CancelKeeps
  <2>2. /\ UNCHANGED <<current, record, code, completed>>
        /\ \A q \in Requests : at'[q] = "fetched" => at[q] = "fetched"
    BY <1>2 DEF CancelWorkflow, Goto, TypeOK
  <2>3. QED
    BY <2>1, <2>2 DEF ReadsAge, ResponsesFit
<1>3. ASSUME NEW r \in Requests, Handle(r) \/ Fail(r) \/ CommitReplyLost(r), ~CancelWorkflow(r)
      PROVE  Fit'
  <2> USE DEF TypeOK, Goto, Answer, engineVars, ReadsAge, ResponsesFit
  <2>1. CASE RejectType(r) \/ BeginSubmit(r) \/ Conflict(r) \/ Insert(r)
    BY <2>1 DEF RejectType, BeginSubmit, Conflict, Insert
  <2>2. CASE CommitInsert(r)
    BY <2>2 DEF CommitInsert, KnowsTheRow, RepliesAgree
  <2>3. CASE SelectWinner(r) \/ GetWorkflow(r) \/ FetchCancelled(r)
    <3>1. UNCHANGED <<status, forward, undone, current, completed>>
      BY <2>3 DEF SelectWinner, GetWorkflow, FetchCancelled
    <3>2. /\ code'[r] \notin {200, 201}
          /\ at'[r] = "fetched" => record'[r] = RowRead
      BY <2>3 DEF SelectWinner, GetWorkflow, FetchCancelled, Fetch, Unanswered
    <3>3. \A q \in Requests \ {r} : at'[q] = at[q] /\ record'[q] = record[q] /\ code'[q] = code[q]
      BY <2>3 DEF SelectWinner, GetWorkflow, FetchCancelled, Fetch
    <3>4. /\ RowRead.current = current
          /\ RowRead.status = "SUCCESS" => status = "SUCCESS"
      BY DEF RowRead
    <3>5. QED
      BY <3>1, <3>2, <3>3, <3>4
  <2>4. CASE ExplainRefusal(r)
    BY <2>4 DEF ExplainRefusal
  <2>7. CASE Respond(r)
    <3>1. /\ record' = record /\ forward' = forward /\ completed'[r] = forward
          /\ \A q \in Requests \ {r} : completed'[q] = completed[q] /\ code'[q] = code[q]
          /\ \A q \in Requests : at'[q] = "fetched" => at[q] = "fetched"
      BY <2>7 DEF Respond
    <3>2. ResponsesFit'
      BY <2>7, <3>1 DEF Respond
    <3>3. QED
      BY <2>7, <3>1, <3>2 DEF Respond
  <2>5. CASE Fail(r) \/ CommitReplyLost(r)
    BY <2>5 DEF Fail, CommitReplyLost
  <2>6. QED
    BY <1>3, <2>1, <2>2, <2>3, <2>4, <2>5, <2>7 DEF Handle
<1>4. CASE UNCHANGED vars
  BY <1>4 DEF vars, ReadsAge, ResponsesFit
<1>5. QED
  BY <1>1, <1>2, <1>3, <1>4 DEF Next

-----------------------------------------------------------------------------
(* The inductive invariant: what a request knows of the row and of the     *)
(* saga, by where its handler is, together with the three properties.      *)
THEOREM Inductive == Spec => []IInv
<1>1. IInv /\ [Next]_vars => IInv'
  BY TypeStep, KnowsStep, ReadsStep DEF IInv
<1>2. QED
  BY InitIInv, <1>1, PTL DEF Spec

(* The submit, get and cancel handlers keep every variable's type.         *)
THEOREM TypeCorrect == Spec => []TypeOK
<1>1. IInv => TypeOK
  BY DEF IInv
<1>2. QED
  BY Inductive, <1>1, PTL

(* submit_workflow is idempotent: all answers for a key name one committed *)
(* workflow, and one at most says it created it.                           *)
THEOREM OneWorkflowPerKey == Spec => []RepliesAgree
<1>1. IInv => RepliesAgree
  BY DEF IInv
<1>2. QED
  BY Inductive, <1>1, PTL

(* The assertion in submit_workflow never fails: the select after a        *)
(* conflict finds the winner's row.                                        *)
THEOREM AssertionHolds == Spec => []LoserFindsWinner
<1>1. IInv => LoserFindsWinner
  BY DEF IInv
<1>2. QED
  BY Inductive, <1>1, PTL

(* The two reads of a response fit together, in spite of the engine that   *)
(* works between them.                                                     *)
THEOREM CoherentResponses == Spec => []ResponsesFit
<1>1. IInv => ResponsesFit
  BY DEF IInv
<1>2. QED
  BY Inductive, <1>1, PTL
=============================================================================
