---------------------------- MODULE OutboxProofs ----------------------------
(***************************************************************************)
(* Proofs of the safety properties of Outbox, for every number of events   *)
(* and drains, every batch size and any number of failures.                *)
(***************************************************************************)
EXTENDS Outbox, TLAPS, FiniteSetTheorems

USE EventsAssumption, DrainersAssumption, BoundsAssumption DEF Places, Alive

(* An empty outbox with idle drains satisfies the invariant.               *)
LEMMA InitCopies == Init => CopyInv
  BY DEF Init, CopyInv, TypeOK, LocksHeld, HoldsLocks, CopiesExplained, Sent,
     PublishedWasSent, DuplicatesNeedFaults, Events

(* Every action preserves the types.                                       *)
LEMMA NextType == TypeOK /\ [Next]_vars => TypeOK'
<1> SUFFICES ASSUME TypeOK, [Next]_vars PROVE TypeOK'
  OBVIOUS
<1> USE DEF TypeOK, table, Move, Fault
<1>1. CASE InsertEvent
  BY <1>1 DEF InsertEvent, Events
<1>2. ASSUME NEW e \in Events, CommitEvent(e) \/ RollBackEvent(e) PROVE TypeOK'
  BY <1>2 DEF CommitEvent, RollBackEvent
<1>3. ASSUME NEW d \in Drainers, Drain(d) PROVE TypeOK'
  <2>1. CASE ClaimBatch(d) \/ ClaimNothing(d)
    BY <2>1 DEF ClaimBatch, ClaimNothing, First, Unpublished
  <2>2. CASE Publish(d) \/ MarkPublished(d) \/ RecordFailure(d)
    BY <2>2 DEF Publish, MarkPublished, Mark, RecordFailure, Count
  <2>3. CASE Wake(d) \/ LeaveLoop(d)
    BY <2>3 DEF Wake, LeaveLoop
  <2> QED
    BY <1>3, <2>1, <2>2, <2>3 DEF Drain
<1>4. ASSUME NEW d \in Drainers, Break(d) PROVE TypeOK'
  <2>1. CASE ClaimFails(d) \/ MarkFails(d) \/ RecordFails(d)
    BY <2>1 DEF ClaimFails, MarkFails, Mark, RecordFails, Count
  <2>2. CASE Stop(d)
    BY <2>2 DEF Stop
  <2>3. CASE Crash(d)
    BY <2>3 DEF Crash
  <2>4. ASSUME NEW out \in SUBSET batch[d], NEW p \in {"failed", "escaping"},
               PublishFails(d, out, p)
        PROVE  TypeOK'
    BY <2>4 DEF PublishFails, Count
  <2> QED
    BY <1>4, <2>1, <2>2, <2>3, <2>4 DEF Break
<1>5. ASSUME NEW d \in Drainers, Restart(d) PROVE TypeOK'
  BY <1>5 DEF Restart
<1>6. CASE UNCHANGED vars
  BY <1>6 DEF vars
<1> QED
  BY <1>1, <1>2, <1>3, <1>4, <1>5, <1>6 DEF Next

(* A drain that holds no locks moves to a place where it holds none: what  *)
(* is locked, published and in the stream is as before.                    *)
LEMMA UnlockedFrame ==
  ASSUME CopyInv, TypeOK', NEW d \in Drainers, ~HoldsLocks(d),
         NEW p \in Places \ {"claimed", "sent"}, NEW b \in SUBSET batch[d],
         Move(d, p), batch' = [batch EXCEPT ![d] = b],
         UNCHANGED <<rows, published, copies>>, faults' >= faults
  PROVE  CopyInv'
<1> USE DEF CopyInv, TypeOK, Move
<1>1. \A c \in Drainers : HoldsLocks(c)' <=> HoldsLocks(c)
  BY DEF HoldsLocks
<1>2. \A c \in Drainers : HoldsLocks(c) => batch'[c] = batch[c]
  OBVIOUS
<1>3. LocksHeld'
  BY <1>1, <1>2 DEF LocksHeld
<1>4. \A e \in Events : Sent(e)' <=> Sent(e)
  BY DEF Sent, HoldsLocks
<1>5. CopiesExplained'
  BY <1>4 DEF CopiesExplained
<1>6. PublishedWasSent' /\ DuplicatesNeedFaults'
  BY DEF PublishedWasSent, DuplicatesNeedFaults
<1> QED
  BY <1>3, <1>5, <1>6

(* A drain gives up the locks of a batch that it may have sent, in part or *)
(* in full, and not marked: one more failure explains each extra copy.     *)
LEMMA RollbackFrame ==
  ASSUME CopyInv, TypeOK', NEW d \in Drainers, HoldsLocks(d),
         NEW p \in Places \ {"claimed", "sent"}, NEW b \in SUBSET batch[d],
         Move(d, p), batch' = [batch EXCEPT ![d] = b],
         UNCHANGED <<rows, published>>, faults' = faults + 1,
         NEW out \in SUBSET batch[d],
         place[d] = "sent" => out = {}, copies' = Count(copies, out)
  PROVE  CopyInv'
<1> USE DEF CopyInv, TypeOK, Move
<1>1. \A c \in Drainers \ {d} :
        (HoldsLocks(c)' <=> HoldsLocks(c)) /\ batch'[c] = batch[c] /\ place'[c] = place[c]
  BY DEF HoldsLocks
<1>2. ~HoldsLocks(d)' /\ batch'[d] \subseteq batch[d]
  BY DEF HoldsLocks
<1>3. LocksHeld'
  BY <1>1, <1>2 DEF LocksHeld
<1>4. \A e \in Events : copies'[e] <= copies[e] + 1 /\ copies'[e] >= copies[e]
  BY DEF Count
<1>5. \A e \in Events : copies'[e] # copies[e] => ~Sent(e) /\ e \notin published
  BY DEF Count, LocksHeld, Sent, HoldsLocks
<1>6. \A e \in Events : Sent(e)' => Sent(e)
  BY <1>1 DEF Sent
<1>7. CopiesExplained'
  <2> SUFFICES ASSUME NEW e \in Events
               PROVE  /\ Sent(e)' => copies'[e] > 0
                      /\ ~Sent(e)' /\ e \notin published' => copies'[e] <= faults'
    BY DEF CopiesExplained
  <2>1. Sent(e)' => copies'[e] > 0
    BY <1>4, <1>6 DEF CopiesExplained
  <2>2. CASE Sent(e) \/ e \in published
    BY <1>5, <2>1, <2>2 DEF DuplicatesNeedFaults
  <2>3. CASE ~Sent(e) /\ e \notin published
    BY <1>4, <2>1, <2>3 DEF CopiesExplained
  <2> QED
    BY <2>1, <2>2, <2>3
<1>8. PublishedWasSent'
  BY <1>4 DEF PublishedWasSent, LocksHeld, Count
<1>9. DuplicatesNeedFaults'
  BY <1>4 DEF DuplicatesNeedFaults
<1> QED
  BY <1>3, <1>7, <1>8, <1>9

(* Marking a sent batch: its rows are owed to nobody any more.             *)
LEMMA MarkFrame ==
  ASSUME CopyInv, TypeOK', NEW d \in Drainers, Mark(d),
         NEW p \in Places \ {"claimed", "sent"}, NEW b \in SUBSET batch[d],
         Move(d, p), batch' = [batch EXCEPT ![d] = b],
         UNCHANGED <<rows, copies>>, faults' >= faults
  PROVE  CopyInv'
<1> USE DEF CopyInv, TypeOK, Move, Mark
<1>1. \A c \in Drainers \ {d} :
        (HoldsLocks(c)' <=> HoldsLocks(c)) /\ batch'[c] = batch[c] /\ place'[c] = place[c]
  BY DEF HoldsLocks
<1>2. ~HoldsLocks(d)' /\ HoldsLocks(d) /\ batch'[d] \subseteq batch[d]
  BY DEF HoldsLocks
<1>3. LocksHeld'
  BY <1>1, <1>2 DEF LocksHeld
<1>4. \A e \in batch[d] : Sent(e) /\ copies[e] > 0
  BY DEF Sent, CopiesExplained
<1>5. \A e \in Events : Sent(e)' => Sent(e)
  BY <1>1 DEF Sent, HoldsLocks
<1>6. \A e \in Events : Sent(e) /\ ~Sent(e)' => e \in published'
  BY <1>1 DEF Sent
<1>7. CopiesExplained'
  BY <1>5, <1>6 DEF CopiesExplained
<1>8. PublishedWasSent' /\ DuplicatesNeedFaults'
  BY <1>4 DEF PublishedWasSent, DuplicatesNeedFaults
<1> QED
  BY <1>3, <1>7, <1>8

(* Every step of the drains and of the transactions preserves it.          *)
LEMMA NextCopies == CopyInv /\ [Next]_vars => CopyInv'
<1> SUFFICES ASSUME CopyInv, [Next]_vars PROVE CopyInv'
  OBVIOUS
<1>1. TypeOK'
  BY NextType DEF CopyInv
<1> USE <1>1 DEF CopyInv, TypeOK, table, Move, Fault
<1>2. CASE InsertEvent \/ \E e \in Events : CommitEvent(e) \/ RollBackEvent(e)
  <2>1. rows \subseteq rows' /\ UNCHANGED <<published, copies, place, batch, faults>>
    BY <1>2 DEF InsertEvent, CommitEvent, RollBackEvent
  <2> QED
    BY <2>1 DEF LocksHeld, HoldsLocks, CopiesExplained, Sent, PublishedWasSent,
       DuplicatesNeedFaults
<1>3. ASSUME NEW d \in Drainers, ClaimBatch(d) PROVE CopyInv'
  <2> USE <1>3 DEF ClaimBatch
  <2>1. batch'[d] \subseteq Unpublished(d)
    BY DEF First
  <2>2. \A c \in Drainers \ {d} :
          (HoldsLocks(c)' <=> HoldsLocks(c)) /\ batch'[c] = batch[c] /\ place'[c] = place[c]
    BY DEF HoldsLocks
  <2>3. \A c \in Drainers \ {d} : HoldsLocks(c) => batch[c] \cap batch'[d] = {}
    BY <2>1 DEF Unpublished, LockedByOthers
  <2>4. LocksHeld'
    BY <2>1, <2>2, <2>3 DEF LocksHeld, Unpublished
  <2>5. \A e \in Events : Sent(e)' <=> Sent(e)
    BY <2>2 DEF Sent
  <2> QED
    BY <2>4, <2>5 DEF CopiesExplained, PublishedWasSent, DuplicatesNeedFaults
<1>4. ASSUME NEW d \in Drainers, Publish(d) PROVE CopyInv'
  <2> USE <1>4 DEF Publish
  <2>1. \A c \in Drainers : HoldsLocks(c)' <=> HoldsLocks(c)
    BY DEF HoldsLocks
  <2>2. LocksHeld'
    BY <2>1 DEF LocksHeld
  <2>3. \A e \in Events : Sent(e)' <=> Sent(e) \/ e \in batch[d]
    BY DEF Sent
  <2>4. \A e \in batch[d] : ~Sent(e) /\ e \notin published /\ e \in rows
    BY DEF LocksHeld, HoldsLocks, Sent
  <2>5. \A e \in Events : copies'[e] = IF e \in batch[d] THEN copies[e] + 1 ELSE copies[e]
    BY DEF Count
  <2>6. CopiesExplained' /\ DuplicatesNeedFaults'
    BY <2>3, <2>4, <2>5 DEF CopiesExplained, DuplicatesNeedFaults
  <2>7. PublishedWasSent'
    BY <2>4, <2>5 DEF PublishedWasSent
  <2> QED
    BY <2>2, <2>6, <2>7
<1>5. ASSUME NEW d \in Drainers, MarkPublished(d) PROVE CopyInv'
  <2> USE <1>5 DEF MarkPublished
  <2>1. Mark(d) /\ Move(d, "polling") /\ faults' >= faults /\ UNCHANGED <<rows, copies>>
    OBVIOUS
  <2>2. {} \in SUBSET batch[d] /\ batch' = [batch EXCEPT ![d] = {}]
    OBVIOUS
  <2> QED
    BY <2>1, <2>2, MarkFrame
<1>6. ASSUME NEW d \in Drainers,
             \/ ClaimNothing(d) \/ ClaimFails(d) \/ RecordFailure(d) \/ RecordFails(d)
             \/ Wake(d) \/ LeaveLoop(d) \/ Restart(d)
      PROVE  CopyInv'
  <2>1. ~HoldsLocks(d)
    BY <1>6 DEF ClaimNothing, ClaimFails, RecordFailure, RecordFails, Wake, LeaveLoop,
       Restart, HoldsLocks
  <2>2. \E p \in Places \ {"claimed", "sent"} : Move(d, p)
    BY <1>6 DEF ClaimNothing, ClaimFails, RecordFailure, RecordFails, Wake, LeaveLoop, Restart
  <2>3. \E b \in SUBSET batch[d] : batch' = [batch EXCEPT ![d] = b]
    BY <1>6 DEF ClaimNothing, ClaimFails, RecordFailure, RecordFails, Wake, LeaveLoop, Restart
  <2>4. UNCHANGED <<rows, published, copies>> /\ faults' >= faults
    BY <1>6 DEF ClaimNothing, ClaimFails, RecordFailure, RecordFails, Wake, LeaveLoop, Restart
  <2> QED
    BY <2>1, <2>2, <2>3, <2>4, UnlockedFrame
<1>7. ASSUME NEW d \in Drainers, MarkFails(d) PROVE CopyInv'
  <2> USE <1>7 DEF MarkFails
  <2>1. batch' = [batch EXCEPT ![d] = batch[d]] /\ Move(d, "failed") /\ faults' >= faults
    OBVIOUS
  <2>2. CASE Mark(d)
    BY <2>1, <2>2, MarkFrame
  <2>3. CASE UNCHANGED <<published, attempts>>
    <3>1. copies' = Count(copies, {}) /\ HoldsLocks(d)
      BY DEF Count, HoldsLocks
    <3>2. {} \in SUBSET batch[d] /\ faults' = faults + 1 /\ UNCHANGED <<rows, published>>
      BY <2>3
    <3> QED
      BY <2>1, <3>1, <3>2, RollbackFrame
  <2> QED
    BY <2>2, <2>3
<1>8. ASSUME NEW d \in Drainers, NEW out \in SUBSET batch[d],
             NEW p \in {"failed", "escaping"}, PublishFails(d, out, p)
      PROVE  CopyInv'
  <2> USE <1>8 DEF PublishFails
  <2>1. batch' = [batch EXCEPT ![d] = batch[d]] /\ HoldsLocks(d) /\ place[d] # "sent"
    BY DEF HoldsLocks
  <2> QED
    BY <2>1, RollbackFrame
<1>9. ASSUME NEW d \in Drainers, Crash(d) PROVE CopyInv'
  <2> USE <1>9 DEF Crash
  <2>1. CASE HoldsLocks(d)
    <3>1. copies' = Count(copies, {})
      BY DEF Count
    <3> QED
      BY <2>1, <3>1, RollbackFrame
  <2>2. CASE ~HoldsLocks(d)
    <3>1. faults' >= faults
      OBVIOUS
    <3> QED
      BY <2>2, <3>1, UnlockedFrame
  <2> QED
    BY <2>1, <2>2
<1>10. ASSUME NEW d \in Drainers, Stop(d) PROVE CopyInv'
  BY <1>10 DEF Stop, LocksHeld, HoldsLocks, CopiesExplained, Sent, PublishedWasSent,
     DuplicatesNeedFaults
<1>11. CASE UNCHANGED vars
  BY <1>11 DEF vars, LocksHeld, HoldsLocks, CopiesExplained, Sent, PublishedWasSent,
     DuplicatesNeedFaults
<1> QED
  BY <1>2, <1>3, <1>4, <1>5, <1>6, <1>7, <1>8, <1>9, <1>10, <1>11 DEF Next, Drain, Break

(* At most one drain has sent an event and not yet marked it.              *)
LEMMA SentByOne ==
    ASSUME CopyInv, NEW e \in Events
    PROVE  Cardinality({d \in Drainers : place[d] = "sent" /\ e \in batch[d]})
              = IF Sent(e) THEN 1 ELSE 0
<1> DEFINE senders == {d \in Drainers : place[d] = "sent" /\ e \in batch[d]}
<1>1. \A c, d \in senders : c = d
  BY DEF CopyInv, LocksHeld, HoldsLocks
<1>2. CASE Sent(e)
  <2>1. PICK d \in Drainers : place[d] = "sent" /\ e \in batch[d]
    BY <1>2 DEF Sent
  <2>2. senders = {d}
    BY <1>1, <2>1
  <2> QED
    BY <1>2, <2>2, FS_Singleton
<1>3. CASE ~Sent(e)
  <2>1. senders = {}
    BY <1>3 DEF Sent
  <2> QED
    BY <1>3, <2>1, FS_EmptySet
<1> QED
  BY <1>2, <1>3

(* Sending, marking, recording and failing keep the account of attempts: a *)
(* step that adds a copy or forgets a send adds an attempt or a fault.     *)
LEMMA NextAttempts == CopyInv /\ AttemptsExplained /\ TypeOK' /\ [Next]_vars => AttemptsExplained'
<1> SUFFICES ASSUME CopyInv, AttemptsExplained, TypeOK', [Next]_vars,
                    NEW e \in Events
             PROVE  /\ e \in published' => attempts'[e] > 0
                    /\ copies'[e] <= attempts'[e] + faults' + IF Sent(e)' THEN 1 ELSE 0
  BY DEF AttemptsExplained
<1> DEFINE Explained == /\ e \in published => attempts[e] > 0
                        /\ copies[e] <= attempts[e] + faults + IF Sent(e) THEN 1 ELSE 0
<1>0. /\ Explained
      /\ attempts[e] \in Nat /\ copies[e] \in Nat /\ faults \in Nat
      /\ attempts'[e] \in Nat /\ copies'[e] \in Nat /\ faults' \in Nat
  BY DEF AttemptsExplained, CopyInv, TypeOK
<1> USE DEF Move, Fault, table
<1>1. CASE UNCHANGED <<published, attempts, copies, place, batch>> /\ faults' >= faults
  BY <1>0, <1>1 DEF Sent
<1>2. ASSUME NEW d \in Drainers, Publish(d) PROVE Explained'
  <2>1. Sent(e)' <=> Sent(e) \/ e \in batch[d]
    BY <1>2 DEF Publish, Sent, CopyInv, TypeOK
  <2>2. e \in batch[d] => ~Sent(e)
    BY <1>2 DEF Publish, Sent, CopyInv, LocksHeld, HoldsLocks
  <2>3. /\ copies'[e] = IF e \in batch[d] THEN copies[e] + 1 ELSE copies[e]
        /\ UNCHANGED <<published, attempts, faults>>
    BY <1>2 DEF Publish, Count
  <2> QED
    BY <1>0, <2>1, <2>2, <2>3
<1> DEFINE OthersStay(d) ==
        \A c \in Drainers \ {d} : place'[c] = place[c] /\ batch'[c] = batch[c]
<1>3. ASSUME NEW d \in Drainers, Drain(d) \/ Break(d) \/ Restart(d) PROVE OthersStay(d)
  <2> USE DEF CopyInv, TypeOK
  <2>1. CASE Drain(d)
    BY <2>1 DEF Drain, ClaimBatch, ClaimNothing, Publish, MarkPublished, RecordFailure, Wake,
       LeaveLoop
  <2>2. CASE Break(d) \/ Restart(d)
    BY <2>2 DEF Break, ClaimFails, MarkFails, RecordFails, Stop, Crash, PublishFails, Restart
  <2> QED
    BY <1>3, <2>1, <2>2
<1> DEFINE Marks(d) ==
        /\ Mark(d) /\ place'[d] # "sent" /\ copies' = copies /\ faults' >= faults
<1>4. ASSUME NEW d \in Drainers, OthersStay(d), Marks(d) PROVE Explained'
  <2>1. e \notin batch[d] => (Sent(e)' <=> Sent(e))
    BY <1>4 DEF Sent
  <2>2. /\ attempts'[e] = IF e \in batch[d] THEN attempts[e] + 1 ELSE attempts[e]
        /\ published' = published \cup batch[d]
    BY <1>4 DEF Mark, Count
  <2> QED
    BY <1>0, <1>4, <2>1, <2>2
<1> DEFINE GivesUp(d, out) ==
        /\ place'[d] # "sent"
        /\ place[d] = "sent" => out = {}
        /\ copies' = Count(copies, out) /\ faults' = faults + 1
        /\ UNCHANGED <<published, attempts>>
<1>5. ASSUME NEW d \in Drainers, OthersStay(d), NEW out \in SUBSET batch[d], GivesUp(d, out)
      PROVE  Explained'
  <2>1. place[d] # "sent" => (Sent(e)' <=> Sent(e))
    BY <1>5 DEF Sent
  <2>2. copies'[e] = IF e \in out THEN copies[e] + 1 ELSE copies[e]
    BY <1>5 DEF Count
  <2> QED
    BY <1>0, <1>5, <2>1, <2>2
<1> DEFINE SendsNothing(d) ==
        /\ place[d] # "sent" /\ place'[d] # "sent" /\ faults' >= faults
        /\ attempts'[e] >= attempts[e] /\ UNCHANGED <<published, copies>>
<1>6. ASSUME NEW d \in Drainers, OthersStay(d), SendsNothing(d) PROVE Explained'
  <2>1. Sent(e)' <=> Sent(e)
    BY <1>6 DEF Sent
  <2> QED
    BY <1>0, <1>6, <2>1
<1> HIDE DEF Explained, OthersStay, Marks, GivesUp, SendsNothing
<1>7. ASSUME NEW d \in Drainers, Drain(d) \/ Restart(d) PROVE Explained'
  <2>1. CASE Publish(d)
    BY <1>2, <2>1
  <2>2. CASE MarkPublished(d)
    <3>1. Marks(d)
      BY <1>0, <2>2 DEF MarkPublished, Marks, CopyInv, TypeOK
    <3> QED
      BY <1>3, <1>4, <1>7, <3>1
  <2>3. CASE \/ ClaimBatch(d) \/ RecordFailure(d) \/ ClaimNothing(d) \/ Wake(d)
             \/ LeaveLoop(d) \/ Restart(d)
    <3>1. attempts'[e] >= attempts[e]
      BY <1>0, <2>3 DEF ClaimBatch, RecordFailure, ClaimNothing, Wake, LeaveLoop, Restart, Count
    <3>2. SendsNothing(d)
      BY <1>0, <2>3, <3>1 DEF ClaimBatch, RecordFailure, ClaimNothing, Wake, LeaveLoop, Restart,
         SendsNothing, CopyInv, TypeOK
    <3> QED
      BY <1>3, <1>6, <1>7, <3>2
  <2> QED
    BY <1>7, <2>1, <2>2, <2>3 DEF Drain
<1>8. ASSUME NEW d \in Drainers, Break(d) PROVE Explained'
  <2>0. OthersStay(d)
    BY <1>3, <1>8
  <2> USE DEF CopyInv, TypeOK
  <2>1. CASE Stop(d)
    BY <1>0, <1>1, <2>1 DEF Stop, Explained
  <2>2. CASE MarkFails(d) /\ Mark(d)
    <3>1. Marks(d)
      BY <1>0, <2>2 DEF MarkFails, Marks
    <3> QED
      BY <1>4, <2>0, <3>1
  <2>3. ASSUME NEW out \in SUBSET batch[d], NEW p \in {"failed", "escaping"},
               PublishFails(d, out, p)
        PROVE  Explained'
    <3>1. GivesUp(d, out)
      BY <2>3 DEF PublishFails, GivesUp
    <3> QED
      BY <1>5, <2>0, <3>1
  <2>4. CASE \/ MarkFails(d) /\ UNCHANGED <<published, attempts>>
             \/ Crash(d)
    <3>1. copies' = Count(copies, {})
      BY <2>4 DEF MarkFails, Crash, Count
    <3>2. GivesUp(d, {})
      BY <2>4, <3>1 DEF MarkFails, Crash, GivesUp
    <3> QED
      BY <1>5, <2>0, <3>2
  <2>5. CASE ClaimFails(d) \/ RecordFails(d)
    <3>1. SendsNothing(d)
      BY <1>0, <2>5 DEF ClaimFails, RecordFails, SendsNothing
    <3> QED
      BY <1>6, <2>0, <3>1
  <2> QED
    BY <1>8, <2>1, <2>2, <2>3, <2>4, <2>5 DEF Break, MarkFails
<1>9. CASE InsertEvent \/ UNCHANGED vars \/ \E r \in Events : CommitEvent(r) \/ RollBackEvent(r)
  BY <1>0, <1>1, <1>9 DEF InsertEvent, CommitEvent, RollBackEvent, vars, Explained
<1> QED
  BY <1>7, <1>8, <1>9 DEF Next, Explained

(* The invariant holds in every reachable state.                           *)
THEOREM Inductive == Spec => []IInv
<1>1. Init => IInv
  BY InitCopies DEF IInv, Init, AttemptsExplained, Events
<1>2. IInv /\ [Next]_vars => IInv'
  BY NextCopies, NextAttempts DEF IInv, CopyInv
<1> QED
  BY <1>1, <1>2, PTL DEF Spec

(* The drain is at least once: a row is marked only after it was sent, and *)
(* an event of a rolled back checkpoint never is in the stream.            *)
THEOREM AtLeastOnce == Spec => []PublishedWasSent
<1>1. IInv => PublishedWasSent
  BY DEF IInv, CopyInv
<1> QED
  BY <1>1, Inductive, PTL

(* Concurrent drains alone never publish an event twice: each extra copy   *)
(* is owed to a failure, a crash or a shutdown.                            *)
THEOREM DuplicatesOnlyByFaults == Spec => []DuplicatesNeedFaults
<1>1. IInv => DuplicatesNeedFaults
  BY DEF IInv, CopyInv
<1> QED
  BY <1>1, Inductive, PTL

(* attempts counts every publish but the one in progress and those whose   *)
(* record a failure took with it.                                          *)
THEOREM AttemptsCounted == Spec => []AttemptsAreCounted
<1>1. IInv => AttemptsAreCounted
  <2> SUFFICES ASSUME IInv, NEW e \in Events
               PROVE  /\ e \in published => attempts[e] > 0
                      /\ copies[e] <= attempts[e] + faults +
                            Cardinality({d \in Drainers : place[d] = "sent" /\ e \in batch[d]})
    BY DEF AttemptsAreCounted
  <2> QED
    BY SentByOne DEF IInv, AttemptsExplained
<1> QED
  BY <1>1, Inductive, PTL
=============================================================================
