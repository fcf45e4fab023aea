-------------------------- MODULE EvidenceStoreProofs --------------------------
(***************************************************************************)
(* Lemmas about the transactions of OutboxStore and EvidenceStore, for the *)
(* proofs about the modules that compose them.                             *)
(***************************************************************************)
EXTENDS EvidenceStore, FiniteSetTheorems, TLAPS

-----------------------------------------------------------------------------
(* The tables of the outbox. *)

\* Ids that were never given out have no row.
UnusedIds == \A e \in EventIds : e > outboxSeq => outbox[e] = NoRow

\* A row that still waits or is in flight has attempts to spare.
BudgetLeft ==
  \A e \in EventIds : outbox[e].status \in Undelivered => outbox[e].attempts < MaxAttempts

\* An attempt belongs to a row.
AttemptsHaveRows == \A a \in deliveryAttempts : outbox[a.outbox_id].status # "ABSENT"

OutboxInv == OutboxTypeOK /\ UnusedIds /\ BudgetLeft /\ AttemptsHaveRows

LEMMA OutboxInitInv == OutboxInit => OutboxInv
BY MaxAttemptsAssumption, MaxEventsAssumption
   DEF OutboxInit, OutboxInv, OutboxTypeOK, OutboxRow, NoRow, UnusedIds, BudgetLeft,
       AttemptsHaveRows, Undelivered, Waiting

\* The rows a promotion inserts are fresh, and everything else stays.
LEMMA InsertOutboxEffect ==
  ASSUME OutboxInv, NEW n \in Nat, NEW now \in Nat, InsertOutbox(n, now)
  PROVE  /\ \A e \in NextIds(n) : e \in EventIds /\ outbox[e] = NoRow
         /\ \A e \in EventIds :
              outbox'[e] = IF e \in NextIds(n)
                           THEN [status |-> "PENDING", attempts |-> 0, next_attempt_at |-> now]
                           ELSE outbox[e]
         /\ UNCHANGED <<deliveryAttempts, attemptSeq>>
<1>1. /\ outboxSeq \in Nat /\ MaxEvents \in Nat
      /\ outboxSeq + n <= MaxEvents
  BY MaxEventsAssumption DEF OutboxInv, OutboxTypeOK, InsertOutbox
<1>2. \A e \in NextIds(n) : e \in EventIds /\ e > outboxSeq
  BY <1>1 DEF NextIds, EventIds
<1> QED BY <1>2 DEF OutboxInv, UnusedIds, InsertOutbox, attemptVars

LEMMA InsertOutboxKeeps ==
  ASSUME OutboxInv, NEW n \in Nat, NEW now \in Nat, InsertOutbox(n, now),
         NEW e \in EventIds, outbox[e].status # "ABSENT"
  PROVE  outbox'[e] = outbox[e]
<1>1. /\ \A f \in NextIds(n) : outbox[f] = NoRow
      /\ e \notin NextIds(n) => outbox'[e] = outbox[e]
  BY InsertOutboxEffect
<1>2. NoRow.status = "ABSENT"
  BY DEF NoRow
<1> QED BY <1>1, <1>2

LEMMA InsertOutboxInv ==
  ASSUME OutboxInv, NEW n \in Nat, NEW now \in Nat, InsertOutbox(n, now), clock' = clock
  PROVE  OutboxInv'
<1> DEFINE row == [status |-> "PENDING", attempts |-> 0, next_attempt_at |-> now]
<1>1. row \in OutboxRow
  BY MaxAttemptsAssumption DEF OutboxRow, Undelivered, Waiting
<1>2. /\ outboxSeq \in Nat /\ MaxEvents \in Nat
      /\ outboxSeq' = outboxSeq + n /\ outboxSeq + n <= MaxEvents
      /\ outbox' = [e \in EventIds |-> IF e \in NextIds(n) THEN row ELSE outbox[e]]
      /\ UNCHANGED <<deliveryAttempts, attemptSeq>>
  BY MaxEventsAssumption DEF OutboxInv, OutboxTypeOK, InsertOutbox, attemptVars
<1>3. OutboxTypeOK'
  <2> HIDE DEF row
  <2> QED BY <1>1, <1>2 DEF OutboxInv, OutboxTypeOK
<1>4. UnusedIds'
  <2> SUFFICES ASSUME NEW e \in EventIds, e > outboxSeq + n PROVE outbox'[e] = NoRow
    BY <1>2 DEF UnusedIds
  <2>1. e > outboxSeq /\ e \notin NextIds(n)
    BY <1>2 DEF NextIds, EventIds
  <2> QED BY <1>2, <2>1 DEF OutboxInv, UnusedIds
<1>5. BudgetLeft'
  BY <1>2, MaxAttemptsAssumption DEF OutboxInv, BudgetLeft
<1>6. AttemptsHaveRows'
  BY <1>2 DEF OutboxInv, OutboxTypeOK, AttemptRow, AttemptsHaveRows
<1> QED BY <1>3, <1>4, <1>5, <1>6 DEF OutboxInv

\* Steps of a row that leave its attempts and its existence alone: recovery and claim.
LEMMA StatusStepInv ==
  ASSUME OutboxInv, UNCHANGED <<clock, outboxSeq, deliveryAttempts, attemptSeq>>,
         outbox' \in [EventIds -> OutboxRow],
         \A e \in EventIds :
           \/ outbox'[e] = outbox[e]
           \/ /\ outbox[e].status \in Undelivered /\ outbox'[e].status \in Undelivered
              /\ outbox'[e].attempts = outbox[e].attempts
  PROVE  OutboxInv'
<1>1. OutboxTypeOK'
  BY DEF OutboxInv, OutboxTypeOK
<1>2. UnusedIds'
  BY DEF OutboxInv, UnusedIds, NoRow, Undelivered, Waiting
<1>3. BudgetLeft'
  BY DEF OutboxInv, BudgetLeft
<1>4. AttemptsHaveRows'
  BY DEF OutboxInv, OutboxTypeOK, AttemptRow, AttemptsHaveRows, Undelivered, Waiting
<1> QED BY <1>1, <1>2, <1>3, <1>4 DEF OutboxInv

LEMMA RecoverEffect ==
  ASSUME OutboxInv, NEW now \in Nat, RecoverInFlight(now)
  PROVE  /\ outbox' \in [EventIds -> OutboxRow]
         /\ \A e \in EventIds :
              \/ outbox'[e] = outbox[e]
              \/ /\ outbox[e].status = "DELIVERING" /\ outbox'[e].status = "RETRY"
                 /\ outbox'[e].attempts = outbox[e].attempts
         /\ UNCHANGED <<outboxSeq, deliveryAttempts, attemptSeq>>
BY DEF RecoverInFlight, OutboxInv, OutboxTypeOK, OutboxRow, Undelivered, Waiting, attemptVars

\* claim_due selects waiting rows only.
LEMMA FirstDueWaiting ==
  ASSUME NEW now, NEW e \in FirstDue(now)
  PROVE  e \in EventIds /\ outbox[e].status \in Waiting
BY DEF FirstDue, DueAt, WithStatus

LEMMA ClaimEffect ==
  ASSUME OutboxInv, NEW now \in Nat, ClaimDue(now)
  PROVE  /\ outbox' \in [EventIds -> OutboxRow]
         /\ \A e \in FirstDue(now) :
              /\ e \in EventIds
              /\ outbox[e].status \in Waiting
              /\ outbox'[e].status = "DELIVERING"
              /\ outbox'[e].attempts = outbox[e].attempts
         /\ \A e \in EventIds \ FirstDue(now) : outbox'[e] = outbox[e]
         /\ UNCHANGED <<outboxSeq, deliveryAttempts, attemptSeq>>
         /\ ClaimsOf(FirstDue(now)) \subseteq ClaimedEvent
<1>1. \A e \in FirstDue(now) : e \in EventIds /\ outbox[e].status \in Waiting
  BY FirstDueWaiting
<1>2. \A e \in FirstDue(now) : [outbox_id |-> e, attempts |-> outbox[e].attempts] \in ClaimedEvent
  BY <1>1 DEF ClaimedEvent, OutboxInv, OutboxTypeOK, OutboxRow
<1>3. ClaimsOf(FirstDue(now)) \subseteq ClaimedEvent
  BY <1>2 DEF ClaimsOf
<1> QED BY <1>1, <1>3
           DEF ClaimDue, OutboxInv, OutboxTypeOK, OutboxRow, Undelivered, Waiting, attemptVars

\* The row and the attempt that an acknowledgement of claim c writes.
Acknowledged(c, row, attempt) ==
  /\ ClaimActive(c)
  /\ row.attempts = c.attempts + 1
  /\ row.status \in {"DELIVERED", "DEAD", "RETRY"}
  /\ row.status = "RETRY" => c.attempts + 1 < MaxAttempts
  /\ outbox' = [outbox EXCEPT ![c.outbox_id] = row]
  /\ attempt.outbox_id = c.outbox_id
  /\ deliveryAttempts' = deliveryAttempts \cup {attempt}
  /\ attemptSeq' = attemptSeq + 1
  /\ outboxSeq' = outboxSeq

LEMMA AckEffect ==
  ASSUME OutboxInv, NEW c \in ClaimedEvent, NEW retryAt \in Nat \cup {Null}, NEW now \in Nat,
         \/ RecordDeliverySuccess(c, now)
         \/ RecordDeliveryFailure(c, retryAt, now) /\ (retryAt # Null => c.attempts + 1 < MaxAttempts)
  PROVE  \E row \in OutboxRow, attempt \in AttemptRow : Acknowledged(c, row, attempt)
<1>1. ClaimActive(c)
  BY DEF RecordDeliverySuccess, RecordDeliveryFailure
<1>2. c.outbox_id \in EventIds /\ c.attempts \in Nat /\ c.attempts + 1 \in 1..MaxAttempts
  BY <1>1, MaxAttemptsAssumption
     DEF ClaimActive, ClaimedEvent, OutboxInv, OutboxTypeOK, OutboxRow, BudgetLeft, Undelivered
<1> DEFINE Attempt(s) == [attempt_id |-> attemptSeq + 1, outbox_id |-> c.outbox_id,
                          attempt_number |-> c.attempts + 1, status |-> s,
                          attempted_at |-> now]
           Row(s, t)  == [status |-> s, attempts |-> c.attempts + 1, next_attempt_at |-> t]
<1>3. Attempt("SUCCEEDED") \in AttemptRow /\ Attempt("FAILED") \in AttemptRow
  BY <1>2 DEF AttemptRow, OutboxInv, OutboxTypeOK
<1>4. /\ Row("DELIVERED", Null) \in OutboxRow
      /\ Row("DEAD", retryAt) \in OutboxRow /\ Row("RETRY", retryAt) \in OutboxRow
  BY <1>2 DEF OutboxRow, Undelivered, Waiting, Terminal
<1>5. CASE RecordDeliverySuccess(c, now)
  <2>1. Acknowledged(c, Row("DELIVERED", Null), Attempt("SUCCEEDED"))
    BY <1>1, <1>5 DEF Acknowledged, RecordDeliverySuccess, InsertAttempt
  <2> QED BY <1>3, <1>4, <2>1
<1>6. CASE RecordDeliveryFailure(c, retryAt, now) /\ retryAt = Null
  <2>1. Acknowledged(c, Row("DEAD", retryAt), Attempt("FAILED"))
    BY <1>1, <1>6 DEF Acknowledged, RecordDeliveryFailure, InsertAttempt
  <2> QED BY <1>3, <1>4, <2>1
<1>7. CASE /\ RecordDeliveryFailure(c, retryAt, now)
           /\ retryAt # Null
           /\ c.attempts + 1 < MaxAttempts
  <2>1. Acknowledged(c, Row("RETRY", retryAt), Attempt("FAILED"))
    BY <1>1, <1>7 DEF Acknowledged, RecordDeliveryFailure, InsertAttempt
  <2> QED BY <1>3, <1>4, <2>1
<1> QED BY <1>5, <1>6, <1>7

LEMMA AckInv ==
  ASSUME OutboxInv, NEW c \in ClaimedEvent, NEW row \in OutboxRow, NEW attempt \in AttemptRow,
         Acknowledged(c, row, attempt), clock' = clock
  PROVE  OutboxInv'
<1>1. c.outbox_id \in EventIds /\ outbox[c.outbox_id].status = "DELIVERING"
  BY DEF Acknowledged, ClaimActive, ClaimedEvent
<1>2. OutboxTypeOK'
  BY <1>1 DEF Acknowledged, OutboxInv, OutboxTypeOK
<1>3. UnusedIds'
  BY <1>1 DEF Acknowledged, OutboxInv, OutboxTypeOK, UnusedIds, NoRow
<1>4. BudgetLeft'
  BY <1>1 DEF Acknowledged, OutboxInv, OutboxTypeOK, BudgetLeft, Undelivered, Waiting
<1>5. AttemptsHaveRows'
  BY <1>1 DEF Acknowledged, OutboxInv, OutboxTypeOK, AttemptRow, AttemptsHaveRows
<1> QED BY <1>2, <1>3, <1>4, <1>5 DEF OutboxInv

-----------------------------------------------------------------------------
(* The evidence. *)

LEMMA EvidenceInitType == EvidenceInit => EvidenceTypeOK
BY DEF EvidenceInit, EvidenceTypeOK, NoWatch, NoObservation, NoEvent

LEMMA EnsuredType ==
  ASSUME EvidenceTypeOK, NEW w \in WatchIds
  PROVE  /\ Ensured(w) \in [run_status : {"IDLE", "RUNNING", "ERROR"},
                            execution_count : Nat]
         /\ watches[w].run_status # "ABSENT" => Ensured(w) = watches[w]
BY DEF EvidenceTypeOK, Ensured

LEMMA UpdateType ==
  ASSUME NEW S, NEW T, NEW f \in [S -> T], NEW x \in S, NEW y \in T
  PROVE  [f EXCEPT ![x] = y] \in [S -> T]
OBVIOUS

WatchRow == [run_status : {"ABSENT", "IDLE", "RUNNING", "ERROR"}, execution_count : Nat]

LEMMA StatusType ==
  ASSUME NEW row \in WatchRow, NEW s \in {"ABSENT", "IDLE", "RUNNING", "ERROR"}
  PROVE  [row EXCEPT !.run_status = s] \in WatchRow
BY DEF WatchRow

\* What the statements on the table watches write.
LEMMA WatchesType ==
  ASSUME EvidenceTypeOK, NEW w \in WatchIds
  PROVE  /\ MarkRunStarted(w) => watches' \in [WatchIds -> WatchRow]
         /\ MarkRunError(w) => watches' \in [WatchIds -> WatchRow]
         /\ \A r \in Runs, observation \in Observation, now \in Nat :
              WatchOf[r] = w /\ PersistObservation(r, observation, now) =>
                watches' \in [WatchIds -> WatchRow]
<1>1. watches \in [WatchIds -> WatchRow]
  BY DEF EvidenceTypeOK, WatchRow
<1>2. Ensured(w) \in WatchRow
  <2>1. [run_status |-> "IDLE", execution_count |-> 0] \in WatchRow
    BY DEF WatchRow
  <2> QED BY <1>1, <2>1 DEF Ensured
<1>3. ASSUME MarkRunStarted(w) PROVE watches' \in [WatchIds -> WatchRow]
  <2> DEFINE row == [Ensured(w) EXCEPT !.run_status = "RUNNING"]
  <2>1. row \in WatchRow
    BY <1>2, StatusType
  <2>2. watches' = [watches EXCEPT ![w] = row]
    BY <1>3, Zenon DEF MarkRunStarted
  <2> HIDE DEF row
  <2> QED BY <1>1, <2>1, <2>2, UpdateType
<1>4. ASSUME MarkRunError(w) PROVE watches' \in [WatchIds -> WatchRow]
  <2> DEFINE s   == IF watches[w].run_status = "ABSENT" THEN watches[w].run_status ELSE "ERROR"
             row == [watches[w] EXCEPT !.run_status = s]
  <2>1. s \in {"ABSENT", "IDLE", "RUNNING", "ERROR"}
    OBVIOUS
  <2>2. watches' = [watches EXCEPT ![w] = row]
    BY <1>4, Zenon DEF MarkRunError
  <2> HIDE DEF s
  <2>3. row \in WatchRow
    BY <1>1, <2>1, StatusType
  <2> HIDE DEF row
  <2> QED BY <1>1, <2>2, <2>3, UpdateType
<1>5. ASSUME NEW r \in Runs, NEW observation \in Observation, NEW now \in Nat,
             WatchOf[r] = w, PersistObservation(r, observation, now)
      PROVE  watches' \in [WatchIds -> WatchRow]
  <2> DEFINE row == [run_status |-> "IDLE", execution_count |-> Ensured(w).execution_count + 1]
  <2>1. Ensured(w).execution_count \in Nat
    BY <1>2 DEF WatchRow
  <2>2. row \in WatchRow
    BY <2>1 DEF WatchRow
  <2>3. watches' = [watches EXCEPT ![w] = row]
    BY <1>5 DEF PersistObservation
  <2> HIDE DEF row
  <2> QED BY <1>1, <2>2, <2>3, UpdateType
<1> QED BY <1>3, <1>4, <1>5

\* What a promotion writes.
LEMMA PromoteType ==
  ASSUME OutboxTypeOK, EvidenceTypeOK, NEW r \in Runs, NEW n \in Nat, NEW now \in Nat,
         PromoteValidObservation(r, n, now)
  PROVE  /\ outbox' \in [EventIds -> OutboxRow]
         /\ outboxSeq' \in 0..MaxEvents
         /\ events' \in [EventIds -> [run : Runs \cup {None}, created_at : Nat]]
         /\ authority' \in [WatchIds -> Runs \cup {None}]
         /\ ledger' \in [WatchIds -> Seq(Promotion)]
<1> USE DEF OutboxTypeOK, EvidenceTypeOK, PromoteValidObservation
<1>1. WatchOf[r] \in WatchIds
  BY RunsAssumption
<1>2. outbox' \in [EventIds -> OutboxRow] /\ outboxSeq' \in 0..MaxEvents
  BY <1>1, MaxAttemptsAssumption, MaxEventsAssumption
     DEF InsertOutbox, OutboxRow, Undelivered, Waiting
<1>3. events' \in [EventIds -> [run : Runs \cup {None}, created_at : Nat]]
  OBVIOUS
<1>4. Previous(WatchOf[r]) \in Runs \cup {None}
  BY <1>1 DEF Previous
<1>5. [previous |-> Previous(WatchOf[r]), current |-> r, drafts |-> n] \in Promotion
  BY <1>1, <1>4 DEF Promotion
<1>6. ledger' \in [WatchIds -> Seq(Promotion)]
  BY <1>1, <1>5
<1> QED BY <1>1, <1>2, <1>3, <1>6
================================================================================
