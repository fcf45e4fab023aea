----------------------------- MODULE OutboxStore -----------------------------
(***************************************************************************)
(* The outbox half of SQLiteStore (storage.py): the tables `outbox' and    *)
(* `delivery_attempts' and the transactions that write them.  Every        *)
(* transaction runs under BEGIN IMMEDIATE (or is a single UPDATE), so each *)
(* operation below is one atomic step of whichever module composes it.     *)
(*                                                                         *)
(* An event and its outbox row are inserted by one transaction and the     *)
(* event id is UNIQUE in the outbox, so one integer, the AUTOINCREMENT     *)
(* outbox_id, stands for both.  A row that does not exist (not inserted    *)
(* yet, or deleted) has status "ABSENT".                                   *)
(***************************************************************************)
EXTENDS Integers, FiniteSets

CONSTANTS
  MaxEvents,    \* bound: how many outbox rows are ever inserted
  MaxAttempts,  \* RetryPolicy.max_attempts of the delivery configuration
  BatchSize     \* DeliveryConfig.batch_size

ASSUME MaxEventsAssumption   == MaxEvents \in Nat
ASSUME MaxAttemptsAssumption == MaxAttempts \in Nat \ {0}
ASSUME BatchSizeAssumption   == BatchSize \in Nat \ {0}

VARIABLES
  clock,             \* the wall clock every component reads
  outbox,            \* the table outbox, by outbox_id
  deliveryAttempts,  \* the table delivery_attempts, a set of rows
  outboxSeq,         \* AUTOINCREMENT: the last outbox_id given out
  attemptSeq         \* AUTOINCREMENT: the last attempt_id given out

attemptVars == <<deliveryAttempts, attemptSeq>>
outboxVars  == <<outbox, outboxSeq, attemptVars>>

EventIds == 1..MaxEvents
Null     == -1         \* SQL NULL in a timestamp column

Waiting     == {"PENDING", "RETRY"}
Undelivered == Waiting \cup {"DELIVERING"}
Terminal    == {"DELIVERED", "DEAD"}

OutboxRow == [status          : Undelivered \cup Terminal \cup {"ABSENT"},
              attempts        : 0..MaxAttempts,
              next_attempt_at : Nat \cup {Null}]

NoRow == [status |-> "ABSENT", attempts |-> 0, next_attempt_at |-> Null]

AttemptRow == [attempt_id     : Nat,
               outbox_id      : EventIds,
               attempt_number : 1..MaxAttempts,
               status         : {"SUCCEEDED", "FAILED"},
               attempted_at   : Nat]

\* What claim_due returns for a row: its id and the attempts it then had.
ClaimedEvent == [outbox_id : EventIds, attempts : 0..MaxAttempts]

OutboxTypeOK ==
  /\ clock \in Nat
  /\ outbox \in [EventIds -> OutboxRow]
  /\ deliveryAttempts \in SUBSET AttemptRow
  /\ outboxSeq \in 0..MaxEvents
  /\ attemptSeq \in Nat

OutboxInit ==
  /\ clock = 0
  /\ outbox = [e \in EventIds |-> NoRow]
  /\ deliveryAttempts = {}
  /\ outboxSeq = 0
  /\ attemptSeq = 0

WithStatus(S) == {e \in EventIds : outbox[e].status \in S}

-----------------------------------------------------------------------------
\* Mutant: without AUTOINCREMENT, ids follow the largest that exists.
NextIds_AfterLargest(n) ==
  LET Row(e)  == e = 0 \/ outbox[e].status # "ABSENT"
      largest == CHOOSE e \in 0..MaxEvents : Row(e) /\ \A f \in (e + 1)..MaxEvents : ~Row(f)
  IN  (largest + 1)..(largest + n)

\* The ids the next n inserts of one transaction get.
NextIds(n) == (outboxSeq + 1)..(outboxSeq + n)

\* _insert_outbox, for the n drafts of one promotion.
InsertOutbox(n, now) ==
  /\ outboxSeq + n <= MaxEvents
  /\ outbox' = [e \in EventIds |->
                  IF e \in NextIds(n)
                  THEN [status |-> "PENDING", attempts |-> 0, next_attempt_at |-> now]
                  ELSE outbox[e]]
  /\ outboxSeq' = outboxSeq + n
  /\ UNCHANGED attemptVars

\* Mutant: recovery revives rows that were given up.
RecoverInFlight_RevivesDead(now) ==
  /\ outbox' = [e \in EventIds |->
                  IF outbox[e].status \in {"DELIVERING", "DEAD"}
                  THEN [outbox[e] EXCEPT !.status = "RETRY", !.next_attempt_at = now]
                  ELSE outbox[e]]
  /\ UNCHANGED <<outboxSeq, attemptVars>>

\* recover_in_flight: every DELIVERING row becomes due at `now'.
RecoverInFlight(now) ==
  /\ outbox' = [e \in EventIds |->
                  IF outbox[e].status = "DELIVERING"
                  THEN [outbox[e] EXCEPT !.status = "RETRY", !.next_attempt_at = now]
                  ELSE outbox[e]]
  /\ UNCHANGED <<outboxSeq, attemptVars>>

DueAt(now) == {e \in WithStatus(Waiting) : outbox[e].next_attempt_at <= now}

\* ORDER BY outbox_id LIMIT batch_size.
FirstDue(now) ==
  {e \in DueAt(now) : Cardinality({f \in DueAt(now) : f < e}) < BatchSize}

\* claim_due: the selected rows become DELIVERING in the transaction that
\* selects them.  next_attempt_at keeps its value.
ClaimDue(now) ==
  /\ outbox' = [e \in EventIds |->
                  IF e \in FirstDue(now)
                  THEN [outbox[e] EXCEPT !.status = "DELIVERING"]
                  ELSE outbox[e]]
  /\ UNCHANGED <<outboxSeq, attemptVars>>

ClaimsOf(S) == {[outbox_id |-> e, attempts |-> outbox[e].attempts] : e \in S}

\* Mutant: the WHERE clause forgets the attempts.
ClaimActive_AnyAttempt(c) == outbox[c.outbox_id].status = "DELIVERING"

\* The WHERE clause of both acknowledgements.
ClaimActive(c) ==
  /\ outbox[c.outbox_id].status = "DELIVERING"
  /\ outbox[c.outbox_id].attempts = c.attempts

\* Mutant: failures not recorded.
InsertAttempt_SuccessOnly(c, status, now) ==
  /\ attemptSeq' = attemptSeq + 1
  /\ deliveryAttempts' = deliveryAttempts \cup
       {r \in {[attempt_id |-> attemptSeq + 1, outbox_id |-> c.outbox_id,
                attempt_number |-> c.attempts + 1, status |-> status,
                attempted_at |-> now]} : r.status = "SUCCEEDED"}

\* _insert_attempt.  Nothing in the schema makes attempt_number unique.
InsertAttempt(c, status, now) ==
  /\ attemptSeq' = attemptSeq + 1
  /\ deliveryAttempts' = deliveryAttempts \cup
       {[attempt_id |-> attemptSeq + 1, outbox_id |-> c.outbox_id,
         attempt_number |-> c.attempts + 1, status |-> status, attempted_at |-> now]}

RecordDeliverySuccess(c, now) ==
  /\ ClaimActive(c)
  /\ outbox' = [outbox EXCEPT ![c.outbox_id] =
                  [status |-> "DELIVERED", attempts |-> c.attempts + 1,
                   next_attempt_at |-> Null]]
  /\ InsertAttempt(c, "SUCCEEDED", now)
  /\ UNCHANGED outboxSeq

\* retryAt = Null stands for retry_at=None: the row is given up.
RecordDeliveryFailure(c, retryAt, now) ==
  /\ ClaimActive(c)
  /\ outbox' = [outbox EXCEPT ![c.outbox_id] =
                  [status |-> IF retryAt = Null THEN "DEAD" ELSE "RETRY",
                   attempts |-> c.attempts + 1, next_attempt_at |-> retryAt]]
  /\ InsertAttempt(c, "FAILED", now)
  /\ UNCHANGED outboxSeq
=============================================================================
