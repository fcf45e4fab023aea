------------------------ MODULE OutboxDispatcherProofs ------------------------
(***************************************************************************)
(* Theorems about OutboxDispatcher, for every set of dispatchers and every *)
(* value of the other constants.                                           *)
(***************************************************************************)
EXTENDS OutboxDispatcherQueue, FiniteSetTheorems, WellFoundedInduction, TLAPS

USE DEF attemptVars

(* A claim that is still active names a row with attempts to spare. *)

\* TypeOK and AttemptBudget are proved together: an acknowledgement keeps
\* `attempts' within its type only because a row in flight has attempts left.
TypeInv == TypeOK /\ AttemptBudget

LEMMA ActiveClaimBudget ==
  ASSUME TypeInv, NEW d \in Dispatchers, NEW c \in batch[d], ClaimActive(c)
  PROVE  /\ c.outbox_id \in EventIds
         /\ c.attempts \in Nat
         /\ c.attempts + 1 \in 1..MaxAttempts
BY MaxAttemptsAssumption
   DEF TypeInv, TypeOK, OutboxTypeOK, AttemptBudget, ClaimActive, ClaimedEvent,
       OutboxRow, Undelivered

\* claim_due selects waiting rows only.
LEMMA FirstDueWaiting ==
  ASSUME NEW now, NEW e \in FirstDue(now)
  PROVE  /\ e \in EventIds
         /\ outbox[e].status \in Waiting
         /\ outbox[e].next_attempt_at <= now
BY DEF FirstDue, DueAt, WithStatus

LEMMA TypeInit == Init => TypeInv
<1> SUFFICES ASSUME Init PROVE TypeInv
  OBVIOUS
<1> USE DEF Init, OutboxInit, DispatcherInit
<1>1. OutboxTypeOK
  BY MaxAttemptsAssumption, MaxEventsAssumption DEF OutboxTypeOK, OutboxRow, NoRow
<1>2. TypeOK
  BY <1>1, BoundsAssumption DEF TypeOK, Phases, EventIds
<1>3. AttemptBudget
  BY DEF AttemptBudget, NoRow, Undelivered, Waiting
<1> QED BY <1>2, <1>3 DEF TypeInv

LEMMA TypeStep == TypeInv /\ [Next]_vars => TypeInv'
<1> SUFFICES ASSUME TypeInv, [Next]_vars PROVE TypeInv'
  OBVIOUS
<1> USE DEF TypeInv, TypeOK, OutboxTypeOK
<1>1. ASSUME NEW n \in 1..MaxDrafts, Publish(n) PROVE TypeInv'
  <2>1. outbox' \in [EventIds -> OutboxRow] /\ AttemptBudget'
    BY <1>1, MaxAttemptsAssumption
       DEF Publish, InsertOutbox, OutboxRow, AttemptBudget, Undelivered, Waiting, Terminal
  <2>2. outboxSeq' \in 0..MaxEvents
    BY <1>1, BoundsAssumption, MaxEventsAssumption DEF Publish, InsertOutbox
  <2> QED BY <1>1, <2>1, <2>2 DEF Publish, InsertOutbox, dispatcherVars
<1>2. CASE Tick
  BY <1>2 DEF Tick, outboxVars, dispatcherVars, AttemptBudget
<1>3. ASSUME NEW d \in Dispatchers, Start(d) PROVE TypeInv'
  BY <1>3 DEF Start, outboxVars, AttemptBudget, Phases
<1>4. ASSUME NEW d \in Dispatchers, Recover(d) PROVE TypeInv'
  <2>1. outbox' \in [EventIds -> OutboxRow] /\ AttemptBudget'
    BY <1>4 DEF Recover, RecoverInFlight, OutboxRow, AttemptBudget, Undelivered, Waiting, Terminal
  <2> QED BY <1>4, <2>1 DEF Recover, RecoverInFlight, Phases
<1>5. ASSUME NEW d \in Dispatchers, Claim(d) PROVE TypeInv'
  <2>1. ClaimsOf(FirstDue(claimTime[d])) \subseteq ClaimedEvent
    <3> SUFFICES ASSUME NEW e \in FirstDue(claimTime[d])
                 PROVE  [outbox_id |-> e, attempts |-> outbox[e].attempts] \in ClaimedEvent
      BY DEF ClaimsOf
    <3>1. e \in EventIds
      BY FirstDueWaiting
    <3> QED BY <3>1 DEF ClaimedEvent, OutboxRow
  <2>2. outbox' \in [EventIds -> OutboxRow] /\ AttemptBudget'
    BY <1>5, FirstDueWaiting
       DEF Claim, ClaimDue, OutboxRow, AttemptBudget, Undelivered, Waiting, Terminal
  <2> QED BY <1>5, <2>1, <2>2 DEF Claim, ClaimDue, Phases
<1>6. ASSUME NEW d \in Dispatchers, SinkAccepts(d) PROVE TypeInv'
  BY <1>6, BoundsAssumption DEF SinkAccepts, IsNext, ClaimedEvent, outboxVars, AttemptBudget, Phases
<1>7. ASSUME NEW d \in Dispatchers, SinkFails(d) PROVE TypeInv'
  BY <1>7 DEF SinkFails, outboxVars, AttemptBudget, Phases
<1>8. ASSUME NEW d \in Dispatchers, AckSuccess(d) PROVE TypeInv'
  <2>1. PICK c \in batch[d] : RecordDeliverySuccess(c, clock) /\ Advance(d, c)
    BY <1>8 DEF AckSuccess
  <2>2. /\ c.outbox_id \in EventIds
        /\ c.attempts + 1 \in 1..MaxAttempts
    BY <2>1, ActiveClaimBudget DEF RecordDeliverySuccess
  <2>3. deliveryAttempts' \subseteq AttemptRow
    BY <2>1, <2>2 DEF RecordDeliverySuccess, InsertAttempt, AttemptRow
  <2>4. outbox' \in [EventIds -> OutboxRow]
    BY <2>1, <2>2 DEF RecordDeliverySuccess, OutboxRow, Terminal, Null
  <2>5. AttemptBudget'
    BY <2>1, <2>2 DEF RecordDeliverySuccess, AttemptBudget, Undelivered, Waiting
  <2> QED BY <2>1, <2>3, <2>4, <2>5 DEF RecordDeliverySuccess, InsertAttempt, Advance, Phases
<1>9. ASSUME NEW d \in Dispatchers, AckDead(d) PROVE TypeInv'
  <2>1. PICK c \in batch[d] : /\ c.attempts + 1 >= MaxAttempts
                              /\ RecordDeliveryFailure(c, Null, clock)
                              /\ Advance(d, c)
    BY <1>9 DEF AckDead
  <2>2. /\ c.outbox_id \in EventIds
        /\ c.attempts + 1 \in 1..MaxAttempts
    BY <2>1, ActiveClaimBudget DEF RecordDeliveryFailure
  <2>3. deliveryAttempts' \subseteq AttemptRow
    BY <2>1, <2>2 DEF RecordDeliveryFailure, InsertAttempt, AttemptRow
  <2>4. outbox' = [outbox EXCEPT ![c.outbox_id] =
                     [status |-> "DEAD", attempts |-> c.attempts + 1,
                      next_attempt_at |-> Null]]
    BY <2>1 DEF RecordDeliveryFailure
  <2>5. outbox' \in [EventIds -> OutboxRow]
    BY <2>2, <2>4 DEF OutboxRow, Terminal, Null
  <2>6. c.attempts + 1 = MaxAttempts
    BY <2>1, <2>2, MaxAttemptsAssumption
  <2>7. AttemptBudget'
    BY <2>2, <2>4, <2>6 DEF AttemptBudget, Undelivered, Waiting
  <2> QED BY <2>1, <2>3, <2>5, <2>7 DEF RecordDeliveryFailure, InsertAttempt, Advance, Phases
<1>10. ASSUME NEW d \in Dispatchers, AckRetry(d) PROVE TypeInv'
  <2>1. PICK c \in batch[d] : /\ c.attempts + 1 < MaxAttempts
                              /\ RecordDeliveryFailure(c, RetryAt(c), clock)
                              /\ Advance(d, c)
    BY <1>10 DEF AckRetry
  <2>2. /\ c.outbox_id \in EventIds
        /\ c.attempts + 1 \in 1..MaxAttempts
    BY <2>1, ActiveClaimBudget DEF RecordDeliveryFailure
  <2>3. RetryAt(c) \in Nat /\ RetryAt(c) # Null
    BY <2>2, RetryDelayAssumption DEF RetryAt, Null
  <2>4. deliveryAttempts' \subseteq AttemptRow
    BY <2>1, <2>2 DEF RecordDeliveryFailure, InsertAttempt, AttemptRow
  <2>5. outbox' = [outbox EXCEPT ![c.outbox_id] =
                     [status |-> "RETRY", attempts |-> c.attempts + 1,
                      next_attempt_at |-> RetryAt(c)]]
    BY <2>1, <2>3 DEF RecordDeliveryFailure
  <2>6. outbox' \in [EventIds -> OutboxRow]
    BY <2>2, <2>3, <2>5 DEF OutboxRow, Undelivered, Waiting
  <2>7. AttemptBudget'
    BY <2>1, <2>2, <2>5 DEF AttemptBudget, Undelivered, Waiting
  <2> QED BY <2>1, <2>4, <2>6, <2>7 DEF RecordDeliveryFailure, InsertAttempt, Advance, Phases
<1>11. ASSUME NEW d \in Dispatchers, Abort(d), interruptions' \in 0..MaxInterruptions
       PROVE  TypeInv'
  BY <1>11 DEF Abort, outboxVars, AttemptBudget, Phases
<1>12. ASSUME NEW d \in Dispatchers, Return(d) PROVE TypeInv'
  BY <1>12 DEF Return, outboxVars, AttemptBudget, Phases
<1>13. CASE UNCHANGED vars
  BY <1>13 DEF vars, outboxVars, dispatcherVars, AttemptBudget
<1> QED
  BY <1>1, <1>2, <1>3, <1>4, <1>5, <1>6, <1>7, <1>8, <1>9, <1>10, <1>11, <1>12, <1>13,
     BoundsAssumption
     DEF Next, Step, AckLost, RetryUnschedulable, Interrupt

\* TypeOK and AttemptBudget hold in every state: attempts never pass
\* max_attempts, and a row is DEAD exactly with its attempts used up.
THEOREM TypeCorrect == Spec => [](TypeOK /\ AttemptBudget)
<1>1. Init => TypeInv
  BY TypeInit
<1>2. TypeInv /\ [Next]_vars => TypeInv'
  BY TypeStep
<1> QED BY <1>1, <1>2, PTL DEF Spec, TypeInv

-----------------------------------------------------------------------------
(* The two kinds of step: acknowledgements, and those that record nothing. *)

Acknowledge(d) == AckSuccess(d) \/ AckDead(d) \/ AckRetry(d)

\* The row and the attempt an acknowledgement of claim c writes.
Acknowledged(c, row, attempt) ==
  /\ c.outbox_id \in EventIds
  /\ ClaimActive(c)
  /\ row.attempts = c.attempts + 1
  /\ row.status \in {"DELIVERED", "DEAD", "RETRY"}
  /\ outbox' = [outbox EXCEPT ![c.outbox_id] = row]
  /\ attempt \in AttemptRow
  /\ attempt.outbox_id = c.outbox_id
  /\ attempt.attempt_number = c.attempts + 1
  /\ attempt.attempted_at = clock
  /\ attempt.status = "SUCCEEDED" <=> row.status = "DELIVERED"
  /\ row.status = "RETRY" =>
       row.next_attempt_at = clock + RetryDelay[attempt.attempt_number]
  /\ deliveryAttempts' = deliveryAttempts \cup {attempt}
  /\ outboxSeq' = outboxSeq

LEMMA AckEffect ==
  ASSUME TypeInv, NEW d \in Dispatchers, Acknowledge(d)
  PROVE  \E c \in batch[d], row \in OutboxRow, attempt \in AttemptRow :
           /\ IsNext(d, c)
           /\ Acknowledged(c, row, attempt)
           /\ Advance(d, c)
           /\ row.status = "DELIVERED" => phase[d] = "succeeded"
<1>1. CASE AckSuccess(d)
  <2>1. PICK c \in batch[d] : /\ IsNext(d, c)
                              /\ RecordDeliverySuccess(c, clock)
                              /\ Advance(d, c)
    BY <1>1 DEF AckSuccess
  <2>2. ClaimActive(c)
    BY <2>1 DEF RecordDeliverySuccess
  <2>3. /\ c.outbox_id \in EventIds
        /\ c.attempts + 1 \in 1..MaxAttempts
    BY <2>2, ActiveClaimBudget
  <2> DEFINE row == [status |-> "DELIVERED", attempts |-> c.attempts + 1,
                     next_attempt_at |-> Null]
             attempt == [attempt_id |-> attemptSeq + 1, outbox_id |-> c.outbox_id,
                         attempt_number |-> c.attempts + 1, status |-> "SUCCEEDED",
                         attempted_at |-> clock]
  <2>4. attempt \in AttemptRow /\ row \in OutboxRow
    BY <2>3 DEF AttemptRow, OutboxRow, Terminal, Null, TypeInv, TypeOK, OutboxTypeOK
  <2>5. Acknowledged(c, row, attempt)
    BY <2>1, <2>2, <2>3, <2>4 DEF Acknowledged, RecordDeliverySuccess, InsertAttempt
  <2>6. phase[d] = "succeeded"
    BY <1>1 DEF AckSuccess
  <2> QED BY <2>1, <2>4, <2>5, <2>6
<1>2. CASE AckDead(d)
  <2>1. PICK c \in batch[d] : /\ IsNext(d, c)
                              /\ RecordDeliveryFailure(c, Null, clock)
                              /\ Advance(d, c)
    BY <1>2 DEF AckDead
  <2>2. ClaimActive(c)
    BY <2>1 DEF RecordDeliveryFailure
  <2>3. /\ c.outbox_id \in EventIds
        /\ c.attempts + 1 \in 1..MaxAttempts
    BY <2>2, ActiveClaimBudget
  <2> DEFINE row == [status |-> "DEAD", attempts |-> c.attempts + 1,
                     next_attempt_at |-> Null]
             attempt == [attempt_id |-> attemptSeq + 1, outbox_id |-> c.outbox_id,
                         attempt_number |-> c.attempts + 1, status |-> "FAILED",
                         attempted_at |-> clock]
  <2>4. attempt \in AttemptRow /\ row \in OutboxRow
    BY <2>3 DEF AttemptRow, OutboxRow, Terminal, Null, TypeInv, TypeOK, OutboxTypeOK
  <2>5. Acknowledged(c, row, attempt)
    BY <2>1, <2>2, <2>3, <2>4 DEF Acknowledged, RecordDeliveryFailure, InsertAttempt
  <2> QED BY <2>1, <2>4, <2>5
<1>3. CASE AckRetry(d)
  <2>1. PICK c \in batch[d] : /\ IsNext(d, c)
                              /\ RecordDeliveryFailure(c, RetryAt(c), clock)
                              /\ Advance(d, c)
    BY <1>3 DEF AckRetry
  <2>2. ClaimActive(c)
    BY <2>1 DEF RecordDeliveryFailure
  <2>3. /\ c.outbox_id \in EventIds
        /\ c.attempts + 1 \in 1..MaxAttempts
    BY <2>2, ActiveClaimBudget
  <2>4. RetryAt(c) \in Nat /\ RetryAt(c) # Null
    BY <2>3, RetryDelayAssumption DEF RetryAt, Null, TypeInv, TypeOK, OutboxTypeOK
  <2> DEFINE row == [status |-> "RETRY", attempts |-> c.attempts + 1,
                     next_attempt_at |-> RetryAt(c)]
             attempt == [attempt_id |-> attemptSeq + 1, outbox_id |-> c.outbox_id,
                         attempt_number |-> c.attempts + 1, status |-> "FAILED",
                         attempted_at |-> clock]
  <2>5. attempt \in AttemptRow /\ row \in OutboxRow
    BY <2>3, <2>4 DEF AttemptRow, OutboxRow, Undelivered, Waiting, TypeInv, TypeOK, OutboxTypeOK
  <2>6. outbox' = [outbox EXCEPT ![c.outbox_id] = row]
    BY <2>1, <2>4 DEF RecordDeliveryFailure
  <2>7. Acknowledged(c, row, attempt)
    BY <2>1, <2>2, <2>3, <2>5, <2>6
       DEF Acknowledged, RecordDeliveryFailure, InsertAttempt, RetryAt
  <2> QED BY <2>1, <2>5, <2>7
<1> QED BY <1>1, <1>2, <1>3 DEF Acknowledge

\* Ids that were never given out have no row.
UnusedIds == \A e \in EventIds : e > outboxSeq => outbox[e] = NoRow

\* Every other step leaves the attempts and the terminal rows as they are.
Quiet ==
  /\ deliveryAttempts' = deliveryAttempts
  /\ \A e \in EventIds :
       /\ outbox'[e].attempts = outbox[e].attempts
       /\ outbox'[e].status \in Terminal \/ outbox[e].status \in Terminal
            => outbox'[e] = outbox[e]
  /\ UnusedIds'

LEMMA QuietIfUndelivered ==
  ASSUME UnusedIds, UNCHANGED <<deliveryAttempts, outboxSeq>>,
         \A e \in EventIds :
           \/ outbox'[e] = outbox[e]
           \/ /\ outbox[e].status \in Undelivered
              /\ outbox'[e].status \in Undelivered
              /\ outbox'[e].attempts = outbox[e].attempts
  PROVE  Quiet
<1>1. \A e \in EventIds : outbox[e] = NoRow => outbox'[e] = outbox[e]
  BY DEF NoRow, Undelivered, Waiting
<1>2. UnusedIds'
  BY <1>1 DEF UnusedIds
<1>3. \A e \in EventIds : /\ outbox'[e].attempts = outbox[e].attempts
                          /\ outbox'[e].status \in Terminal \/ outbox[e].status \in Terminal
                               => outbox'[e] = outbox[e]
  BY DEF Undelivered, Waiting, Terminal
<1> QED BY <1>2, <1>3 DEF Quiet

LEMMA QuietOrAck ==
  ASSUME TypeInv, UnusedIds, [Next]_vars
  PROVE  Quiet \/ \E d \in Dispatchers : Acknowledge(d)
<1>1. ASSUME NEW n \in 1..MaxDrafts, Publish(n) PROVE Quiet
  <2> PICK now \in 0..clock : InsertOutbox(n, now)
    BY <1>1 DEF Publish
  <2>1. /\ deliveryAttempts' = deliveryAttempts
        /\ outboxSeq' = outboxSeq + n
        /\ outbox' = [e \in EventIds |->
                        IF e \in NextIds(n)
                        THEN [status |-> "PENDING", attempts |-> 0, next_attempt_at |-> now]
                        ELSE outbox[e]]
    BY DEF InsertOutbox
  <2>2. n \in Nat /\ n > 0 /\ outboxSeq \in Nat /\ EventIds \subseteq Nat
    BY BoundsAssumption, MaxEventsAssumption DEF EventIds, TypeInv, TypeOK, OutboxTypeOK
  <2>3. \A e \in EventIds : e \in NextIds(n) => outbox[e] = NoRow
    BY <2>2 DEF NextIds, UnusedIds
  <2>4. UnusedIds'
    <3> SUFFICES ASSUME NEW e \in EventIds, e > outboxSeq + n PROVE outbox'[e] = NoRow
      BY <2>1 DEF UnusedIds
    <3>1. e > outboxSeq /\ e \notin NextIds(n)
      BY <2>2 DEF NextIds
    <3> QED BY <2>1, <3>1 DEF UnusedIds
  <2> QED BY <2>1, <2>3, <2>4 DEF Quiet, NoRow, Terminal
<1>2. ASSUME UNCHANGED outboxVars PROVE Quiet
  BY <1>2 DEF outboxVars, Quiet, UnusedIds
<1>3. ASSUME NEW d \in Dispatchers, Recover(d) PROVE Quiet
  <2>1. /\ deliveryAttempts' = deliveryAttempts /\ outboxSeq' = outboxSeq
        /\ outbox' = [e \in EventIds |->
                        IF outbox[e].status = "DELIVERING"
                        THEN [outbox[e] EXCEPT !.status = "RETRY",
                                               !.next_attempt_at = claimTime[d]]
                        ELSE outbox[e]]
    BY <1>3 DEF Recover, RecoverInFlight
  <2>2. ASSUME NEW e \in EventIds
        PROVE  \/ outbox'[e] = outbox[e]
               \/ /\ outbox[e].status = "DELIVERING" /\ outbox'[e].status = "RETRY"
                  /\ outbox'[e].attempts = outbox[e].attempts
    BY <2>1 DEF OutboxRow, TypeInv, TypeOK, OutboxTypeOK
  <2> QED BY <2>1, <2>2, QuietIfUndelivered DEF Undelivered, Waiting
<1>4. ASSUME NEW d \in Dispatchers, Claim(d) PROVE Quiet
  <2>1. /\ deliveryAttempts' = deliveryAttempts /\ outboxSeq' = outboxSeq
        /\ outbox' = [e \in EventIds |->
                        IF e \in FirstDue(claimTime[d])
                        THEN [outbox[e] EXCEPT !.status = "DELIVERING"] ELSE outbox[e]]
    BY <1>4 DEF Claim, ClaimDue
  <2>2. \A e \in FirstDue(claimTime[d]) : outbox[e].status \in {"PENDING", "RETRY"}
    BY FirstDueWaiting DEF Waiting
  <2>3. ASSUME NEW e \in EventIds
        PROVE  \/ outbox'[e] = outbox[e]
               \/ /\ outbox[e].status \in {"PENDING", "RETRY"}
                  /\ outbox'[e].status = "DELIVERING"
                  /\ outbox'[e].attempts = outbox[e].attempts
    BY <2>1, <2>2 DEF OutboxRow, TypeInv, TypeOK, OutboxTypeOK
  <2> QED BY <2>1, <2>3, QuietIfUndelivered DEF Undelivered, Waiting
<1> QED BY <1>1, <1>2, <1>3, <1>4
           DEF Next, Step, Acknowledge, vars, Tick, Start, SinkAccepts, SinkFails, Return,
               AckLost, RetryUnschedulable, Interrupt, Abort

-----------------------------------------------------------------------------
(* The audit trail. *)

AuditInv == TypeInv /\ UnusedIds /\ AuditTrail

LEMMA AuditInit == Init => AuditInv
<1> SUFFICES ASSUME Init PROVE AuditInv
  OBVIOUS
<1>1. UnusedIds
  BY DEF Init, OutboxInit, UnusedIds
<1>2. \A e \in EventIds : AttemptsOf(e) = {} /\ outbox[e].attempts = 0
  BY DEF Init, OutboxInit, AttemptsOf, NoRow
<1>3. 1..0 = {}
  OBVIOUS
<1>4. AuditTrail
  BY <1>2, <1>3 DEF AuditTrail
<1> QED BY <1>1, <1>4, TypeInit DEF AuditInv

\* A step that records nothing keeps the trail: DELIVERED rows stay, no other
\* row becomes DELIVERED, and no row gains or loses attempts.
LEMMA AuditQuiet ==
  ASSUME TypeInv, AuditTrail, Quiet
  PROVE  AuditTrail'
<1> SUFFICES ASSUME NEW e \in EventIds
             PROVE  /\ {r.attempt_number : r \in AttemptsOf(e)'} = 1..outbox'[e].attempts
                    /\ \A r, s \in AttemptsOf(e)' :
                         r.attempt_number = s.attempt_number => r = s
                    /\ \A r \in AttemptsOf(e)' :
                         r.status = "SUCCEEDED" <=>
                           /\ outbox'[e].status = "DELIVERED"
                           /\ r.attempt_number = outbox'[e].attempts
  BY DEF AuditTrail
<1>1. AttemptsOf(e)' = AttemptsOf(e)
  BY DEF AttemptsOf, Quiet
<1>2. outbox'[e].attempts = outbox[e].attempts
  BY DEF Quiet
<1>3. outbox'[e].status = "DELIVERED" <=> outbox[e].status = "DELIVERED"
  BY DEF Quiet, Terminal
<1> QED BY <1>1, <1>2, <1>3 DEF AuditTrail

LEMMA AckKeepsUnused ==
  ASSUME TypeInv, UnusedIds, NEW d \in Dispatchers, Acknowledge(d)
  PROVE  UnusedIds'
<1>1. PICK c \in batch[d], row \in OutboxRow, attempt \in AttemptRow :
        Acknowledged(c, row, attempt)
  BY AckEffect
<1>2. outbox[c.outbox_id] # NoRow
  BY <1>1 DEF Acknowledged, ClaimActive, NoRow
<1> QED BY <1>1, <1>2 DEF UnusedIds, Acknowledged, TypeInv, TypeOK, OutboxTypeOK

LEMMA UnusedStep == TypeInv /\ UnusedIds /\ [Next]_vars => UnusedIds'
<1> SUFFICES ASSUME TypeInv, UnusedIds, [Next]_vars PROVE UnusedIds'
  OBVIOUS
<1>1. CASE Quiet
  BY <1>1 DEF Quiet
<1>2. ASSUME NEW d \in Dispatchers, Acknowledge(d) PROVE UnusedIds'
  BY <1>2, AckKeepsUnused
<1> QED BY <1>1, <1>2, QuietOrAck

\* An acknowledgement appends the next attempt of one row that was in flight.
LEMMA AuditAck ==
  ASSUME AuditInv, NEW d \in Dispatchers, Acknowledge(d)
  PROVE  AuditTrail'
<1>1. PICK c \in batch[d], row \in OutboxRow, attempt \in AttemptRow :
        Acknowledged(c, row, attempt)
  BY AckEffect DEF AuditInv
<1> DEFINE id == c.outbox_id
           n  == c.attempts
<1>2. /\ id \in EventIds /\ n \in Nat
      /\ outbox[id].status = "DELIVERING" /\ outbox[id].attempts = n
  BY <1>1, ActiveClaimBudget DEF Acknowledged, ClaimActive, AuditInv
<1>3. /\ outbox'[id] = row
      /\ \A e \in EventIds : e # id => outbox'[e] = outbox[e]
  BY <1>1, <1>2 DEF Acknowledged, AuditInv, TypeInv, TypeOK, OutboxTypeOK
<1>4. /\ \A e \in EventIds : e # id => AttemptsOf(e)' = AttemptsOf(e)
      /\ AttemptsOf(id)' = AttemptsOf(id) \cup {attempt}
  BY <1>1 DEF AttemptsOf, Acknowledged
<1>5. ASSUME NEW e \in EventIds
      PROVE  /\ {r.attempt_number : r \in AttemptsOf(e)'} = 1..outbox'[e].attempts
             /\ \A r, s \in AttemptsOf(e)' :
                  r.attempt_number = s.attempt_number => r = s
             /\ \A r \in AttemptsOf(e)' :
                  r.status = "SUCCEEDED" <=>
                    /\ outbox'[e].status = "DELIVERED"
                    /\ r.attempt_number = outbox'[e].attempts
  <2>1. CASE e # id
    BY <2>1, <1>3, <1>4 DEF AuditTrail, AuditInv
  <2>2. CASE e = id
    <3>1. {r.attempt_number : r \in AttemptsOf(id)} = 1..n
      BY <1>2 DEF AuditTrail, AuditInv
    <3>2. \A r \in AttemptsOf(id) : r.attempt_number \in 1..n /\ r.status # "SUCCEEDED"
      BY <3>1, <1>2 DEF AuditTrail, AuditInv
    <3>3. attempt.attempt_number = n + 1 /\ row.attempts = n + 1
      BY <1>1 DEF Acknowledged
    <3>4. {r.attempt_number : r \in AttemptsOf(id)'} = (1..n) \cup {n + 1}
      BY <3>1, <3>3, <1>4
    <3>5. (1..n) \cup {n + 1} = 1..(n + 1)
      BY <1>2
    <3>6. \A r, s \in AttemptsOf(id)' : r.attempt_number = s.attempt_number => r = s
      BY <3>2, <3>3, <1>2, <1>4 DEF AuditTrail, AuditInv
    <3>7. attempt.status = "SUCCEEDED" <=> row.status = "DELIVERED"
      BY <1>1 DEF Acknowledged
    <3>8. \A r \in AttemptsOf(id)' :
            r.status = "SUCCEEDED" <=> row.status = "DELIVERED" /\ r.attempt_number = n + 1
      BY <3>2, <3>3, <3>7, <1>2, <1>4
    <3> QED BY <2>2, <1>3, <3>3, <3>4, <3>5, <3>6, <3>8
  <2> QED BY <2>1, <2>2
<1> QED BY <1>5 DEF AuditTrail

LEMMA AuditStep == AuditInv /\ [Next]_vars => AuditInv'
<1> SUFFICES ASSUME AuditInv, [Next]_vars PROVE AuditInv'
  OBVIOUS
<1>1. CASE Quiet
  BY <1>1, AuditQuiet, TypeStep DEF AuditInv, Quiet
<1>2. ASSUME NEW d \in Dispatchers, Acknowledge(d) PROVE AuditInv'
  BY <1>2, AuditAck, AckKeepsUnused, TypeStep DEF AuditInv
<1> QED BY <1>1, <1>2, QuietOrAck DEF AuditInv

\* The attempts of every row are numbered 1..attempts, once each, and a row is
\* DELIVERED exactly when its last attempt SUCCEEDED, however many dispatchers
\* race for its claim.
THEOREM AuditTrailCorrect == Spec => []AuditTrail
<1>1. Init => AuditInv
  BY AuditInit
<1>2. AuditInv /\ [Next]_vars => AuditInv'
  BY AuditStep
<1>3. AuditInv => AuditTrail
  BY DEF AuditInv
<1> QED BY <1>1, <1>2, <1>3, PTL DEF Spec

LEMMA HistoryStep ==
  ASSUME AuditInv, [Next]_vars
  PROVE  /\ deliveryAttempts \subseteq deliveryAttempts'
         /\ \A e \in WithStatus(Terminal) : outbox'[e] = outbox[e]
<1>1. CASE Quiet
  BY <1>1 DEF Quiet, WithStatus
<1>2. ASSUME NEW d \in Dispatchers, Acknowledge(d)
      PROVE  /\ deliveryAttempts \subseteq deliveryAttempts'
             /\ \A e \in WithStatus(Terminal) : outbox'[e] = outbox[e]
  <2>1. PICK c \in batch[d], row \in OutboxRow, attempt \in AttemptRow :
          Acknowledged(c, row, attempt)
    BY <1>2, AckEffect DEF AuditInv
  <2>2. outbox[c.outbox_id].status = "DELIVERING"
    BY <2>1 DEF Acknowledged, ClaimActive
  <2> QED BY <2>1, <2>2
             DEF Acknowledged, WithStatus, Terminal, AuditInv, TypeInv, TypeOK, OutboxTypeOK
<1> QED BY <1>1, <1>2, QuietOrAck DEF AuditInv

\* Terminal rows never change and the attempt history only grows.
THEOREM HistoryFinal == Spec => HistoryIsFinal
<1>1. ASSUME AuditInv, [Next]_vars
      PROVE  /\ deliveryAttempts \subseteq deliveryAttempts'
             /\ \A e \in WithStatus(Terminal) : outbox'[e] = outbox[e]
  BY <1>1, HistoryStep
<1>2. Init => AuditInv
  BY AuditInit
<1>3. AuditInv /\ [Next]_vars => AuditInv'
  BY AuditStep
<1> QED BY <1>1, <1>2, <1>3, PTL DEF Spec, HistoryIsFinal

-----------------------------------------------------------------------------
(* DELIVERED means the sink returned None. *)

\* The position "succeeded" is reached only by the sink's acceptance of the
\* claim that is acknowledged next.
SucceededWasAccepted ==
  \A d \in Dispatchers : phase[d] = "succeeded" =>
    \A c \in batch[d] : IsNext(d, c) => accepted[c.outbox_id] > 0

AcceptedInv == TypeInv /\ UnusedIds /\ DeliveredWasAccepted /\ SucceededWasAccepted

\* Two claims that are both next name the same row.
LEMMA NextRowUnique ==
  ASSUME TypeInv, NEW d \in Dispatchers, NEW b \in batch[d], NEW c \in batch[d],
         IsNext(d, b), IsNext(d, c)
  PROVE  b.outbox_id = c.outbox_id
<1>1. b.outbox_id \in Nat /\ c.outbox_id \in Nat
  BY MaxEventsAssumption DEF TypeInv, TypeOK, ClaimedEvent, EventIds
<1>2. b.outbox_id <= c.outbox_id /\ c.outbox_id <= b.outbox_id
  BY DEF IsNext
<1> QED BY <1>1, <1>2

LEMMA AcceptedGrows ==
  ASSUME TypeInv, [Next]_vars, NEW e \in EventIds, accepted[e] > 0
  PROVE  accepted'[e] > 0
<1>1. CASE UNCHANGED accepted
  BY <1>1
<1>2. ASSUME NEW d \in Dispatchers, SinkAccepts(d) PROVE accepted'[e] > 0
  BY <1>2, BoundsAssumption DEF SinkAccepts, TypeInv, TypeOK
<1> QED BY <1>1, <1>2
           DEF Next, Step, vars, dispatcherVars, Publish, Tick, Start, Recover, Claim,
               SinkFails, AckSuccess, AckDead, AckRetry, Advance, AckLost,
               RetryUnschedulable, Return, Interrupt, Abort

LEMMA SucceededStep ==
  ASSUME AcceptedInv, [Next]_vars
  PROVE  SucceededWasAccepted'
<1> SUFFICES ASSUME NEW d \in Dispatchers, phase'[d] = "succeeded",
                    NEW c \in batch'[d], IsNext(d, c)'
             PROVE  accepted'[c.outbox_id] > 0
  BY DEF SucceededWasAccepted
<1>1. CASE phase[d] = "succeeded" /\ batch'[d] = batch[d]
  <2>1. accepted[c.outbox_id] > 0
    BY <1>1 DEF AcceptedInv, SucceededWasAccepted, IsNext
  <2>2. c.outbox_id \in EventIds
    BY <1>1 DEF AcceptedInv, TypeInv, TypeOK, ClaimedEvent
  <2> QED BY <2>1, <2>2, AcceptedGrows DEF AcceptedInv
<1>2. CASE SinkAccepts(d)
  <2>1. PICK b \in batch[d] :
          /\ IsNext(d, b)
          /\ accepted' = [accepted EXCEPT ![b.outbox_id] =
                             IF @ < MaxAcceptances THEN @ + 1 ELSE @]
    BY <1>2 DEF SinkAccepts
  <2>2. batch' = batch
    BY <1>2 DEF SinkAccepts
  <2>3. b.outbox_id \in EventIds /\ b.outbox_id = c.outbox_id
    BY <2>1, <2>2, NextRowUnique DEF IsNext, AcceptedInv, TypeInv, TypeOK, ClaimedEvent
  <2>4. accepted[b.outbox_id] \in 0..MaxAcceptances
    BY <2>3 DEF AcceptedInv, TypeInv, TypeOK
  <2> QED BY <2>1, <2>3, <2>4, BoundsAssumption DEF AcceptedInv, TypeInv, TypeOK
<1>3. phase \in [Dispatchers -> Phases] /\ batch \in [Dispatchers -> SUBSET ClaimedEvent]
  BY DEF AcceptedInv, TypeInv, TypeOK
<1> QED BY <1>1, <1>2, <1>3
           DEF Next, Step, vars, dispatcherVars, Publish, Tick, Start, Recover, Claim,
               SinkAccepts, SinkFails, AckSuccess, AckDead, AckRetry, Advance, AckLost,
               RetryUnschedulable, Return, Interrupt, Abort

LEMMA DeliveredStep ==
  ASSUME AcceptedInv, [Next]_vars
  PROVE  DeliveredWasAccepted'
<1> SUFFICES ASSUME NEW e \in EventIds, outbox'[e].status = "DELIVERED"
             PROVE  accepted'[e] > 0
  BY DEF DeliveredWasAccepted
<1> SUFFICES accepted[e] > 0
  BY AcceptedGrows DEF AcceptedInv
<1>1. CASE Quiet
  BY <1>1 DEF Quiet, Terminal, AcceptedInv, DeliveredWasAccepted
<1>2. ASSUME NEW d \in Dispatchers, Acknowledge(d) PROVE accepted[e] > 0
  <2>1. PICK c \in batch[d], row \in OutboxRow, attempt \in AttemptRow :
          /\ IsNext(d, c)
          /\ Acknowledged(c, row, attempt)
          /\ row.status = "DELIVERED" => phase[d] = "succeeded"
    BY <1>2, AckEffect DEF AcceptedInv
  <2>2. CASE e = c.outbox_id
    <3>1. row.status = "DELIVERED"
      BY <2>1, <2>2 DEF Acknowledged, AcceptedInv, TypeInv, TypeOK, OutboxTypeOK
    <3> QED BY <2>1, <2>2, <3>1 DEF AcceptedInv, SucceededWasAccepted
  <2>3. CASE e # c.outbox_id
    BY <2>1, <2>3
       DEF Acknowledged, AcceptedInv, DeliveredWasAccepted, TypeInv, TypeOK, OutboxTypeOK
  <2> QED BY <2>2, <2>3
<1> QED BY <1>1, <1>2, QuietOrAck DEF AcceptedInv

LEMMA AcceptedInit == Init => AcceptedInv
BY TypeInit DEF Init, OutboxInit, DispatcherInit, AcceptedInv, UnusedIds, NoRow,
                DeliveredWasAccepted, SucceededWasAccepted

LEMMA AcceptedStep == AcceptedInv /\ [Next]_vars => AcceptedInv'
<1> SUFFICES ASSUME AcceptedInv, [Next]_vars PROVE AcceptedInv'
  OBVIOUS
<1>1. UnusedIds'
  BY UnusedStep DEF AcceptedInv
<1> QED BY <1>1, TypeStep, DeliveredStep, SucceededStep DEF AcceptedInv

\* No event is recorded as delivered that the sink did not accept.
THEOREM DeliveredCorrect == Spec => []DeliveredWasAccepted
<1>1. Init => AcceptedInv
  BY AcceptedInit
<1>2. AcceptedInv /\ [Next]_vars => AcceptedInv'
  BY AcceptedStep
<1>3. AcceptedInv => DeliveredWasAccepted
  BY DEF AcceptedInv
<1> QED BY <1>1, <1>2, <1>3, PTL DEF Spec

-----------------------------------------------------------------------------
(* No row is stuck in DELIVERING. *)

\* Claims are held only between the claim and the end of the call.
NothingHeld ==
  \A d \in Dispatchers : phase[d] \in {"idle", "recover", "claim"} => batch[d] = {}

OrphanInv == TypeInv /\ NothingHeld /\ NoOrphanedClaim

LEMMA NothingHeldStep == TypeInv /\ NothingHeld /\ [Next]_vars => NothingHeld'
BY DEF TypeInv, TypeOK, NothingHeld, Next, Step, vars, dispatcherVars, Publish, Tick, Start,
       Recover, Claim, SinkAccepts, SinkFails, AckSuccess, AckDead, AckRetry, Advance,
       AckLost, RetryUnschedulable, Return, Interrupt, Abort

\* Row e is covered by dispatcher d.
Covers(d, e) ==
  \/ ~recovered[d]
  \/ [outbox_id |-> e, attempts |-> outbox[e].attempts] \in batch[d]

LEMMA OrphanStep ==
  ASSUME OrphanInv, [Next]_vars
  PROVE  NoOrphanedClaim'
<1> SUFFICES ASSUME NEW e \in EventIds, outbox'[e].status = "DELIVERING"
             PROVE  \E d \in Dispatchers : Covers(d, e)'
  BY DEF NoOrphanedClaim, WithStatus, Covers
<1> USE DEF OrphanInv, TypeInv, TypeOK, OutboxTypeOK
<1>1. ASSUME outbox[e].status = "DELIVERING"
      PROVE  \E d \in Dispatchers : Covers(d, e)
  BY <1>1 DEF NoOrphanedClaim, WithStatus, Covers
<1>2. ASSUME NEW n \in 1..MaxDrafts, Publish(n) PROVE \E d \in Dispatchers : Covers(d, e)'
  BY <1>1, <1>2 DEF Publish, InsertOutbox, dispatcherVars, Covers
<1>3. ASSUME UNCHANGED <<outbox, recovered, batch>>
      PROVE  \E d \in Dispatchers : Covers(d, e)'
  BY <1>1, <1>3 DEF Covers
<1>4. ASSUME NEW d \in Dispatchers, Recover(d)
      PROVE  \E b \in Dispatchers : Covers(b, e)'
  <2>1. outbox'[e].status # "DELIVERING"
    BY <1>4 DEF Recover, RecoverInFlight, OutboxRow
  <2> QED BY <2>1
<1>5. ASSUME NEW d \in Dispatchers, Claim(d)
      PROVE  \E b \in Dispatchers : Covers(b, e)'
  <2>1. outbox' = [f \in EventIds |-> IF f \in FirstDue(claimTime[d])
                                     THEN [outbox[f] EXCEPT !.status = "DELIVERING"]
                                     ELSE outbox[f]]
    BY <1>5 DEF Claim, ClaimDue
  <2>2. outbox'[e].attempts = outbox[e].attempts
    BY <2>1 DEF OutboxRow
  <2>3. recovered' = recovered /\ batch' = [batch EXCEPT ![d] = ClaimsOf(FirstDue(claimTime[d]))]
    BY <1>5 DEF Claim
  <2>4. CASE e \in FirstDue(claimTime[d])
    <3>1. [outbox_id |-> e, attempts |-> outbox[e].attempts] \in batch'[d]
      BY <2>3, <2>4 DEF ClaimsOf
    <3> QED BY <2>2, <3>1 DEF Covers
  <2>5. CASE e \notin FirstDue(claimTime[d])
    <3>1. outbox[e].status = "DELIVERING"
      BY <2>1, <2>5
    <3>2. PICK b \in Dispatchers : Covers(b, e)
      BY <1>1, <3>1
    <3>3. batch[d] = {}
      BY <1>5 DEF Claim, NothingHeld
    <3> QED BY <2>2, <2>3, <3>2, <3>3 DEF Covers
  <2> QED BY <2>4, <2>5
<1>6. ASSUME NEW d \in Dispatchers, Acknowledge(d)
      PROVE  \E b \in Dispatchers : Covers(b, e)'
  <2>1. PICK c \in batch[d], row \in OutboxRow, attempt \in AttemptRow :
          Acknowledged(c, row, attempt) /\ Advance(d, c)
    BY <1>6, AckEffect
  <2>2. e # c.outbox_id
    BY <2>1 DEF Acknowledged
  <2>3. outbox'[e] = outbox[e]
    BY <2>1, <2>2 DEF Acknowledged
  <2>4. PICK b \in Dispatchers : Covers(b, e)
    BY <1>1, <2>3
  <2>5. [outbox_id |-> e, attempts |-> outbox[e].attempts] # c
    BY <2>2
  <2> QED BY <2>1, <2>3, <2>4, <2>5 DEF Advance, Covers
<1>7. ASSUME NEW d \in Dispatchers, Abort(d)
      PROVE  \E b \in Dispatchers : Covers(b, e)'
  BY <1>7 DEF Abort, Covers
<1> QED BY <1>2, <1>3, <1>4, <1>5, <1>6, <1>7
           DEF Next, Step, Acknowledge, vars, outboxVars, dispatcherVars, Tick, Start,
               SinkAccepts, SinkFails, Return, AckLost, RetryUnschedulable, Interrupt

LEMMA OrphanInit == Init => OrphanInv
BY TypeInit DEF Init, OutboxInit, DispatcherInit, OrphanInv, NothingHeld,
                NoOrphanedClaim, WithStatus, NoRow

LEMMA OrphanInvStep == OrphanInv /\ [Next]_vars => OrphanInv'
BY TypeStep, NothingHeldStep, OrphanStep DEF OrphanInv

\* A row in flight always has a dispatcher that holds its claim or that will
\* recover it, wherever calls are cut short.
THEOREM NoOrphanedClaimCorrect == Spec => []NoOrphanedClaim
<1>1. Init => OrphanInv
  BY OrphanInit
<1>2. OrphanInv /\ [Next]_vars => OrphanInv'
  BY OrphanInvStep
<1>3. OrphanInv => NoOrphanedClaim
  BY DEF OrphanInv
<1> QED BY <1>1, <1>2, <1>3, PTL DEF Spec

-----------------------------------------------------------------------------
(* Backoff. *)

\* When the backoff of a failed attempt is over.
Due(r) == r.attempted_at + RetryDelay[r.attempt_number]

\* claim_time is read before the claim and never lies in the future; a waiting
\* row is scheduled after its backoff, or its backoff is over already (recovery
\* moves next_attempt_at of rows that had been claimed when due).
ClaimTimePast == \A d \in Dispatchers : claimTime[d] <= clock

WaitsForBackoff ==
  \A e \in WithStatus(Waiting) : \A r \in AttemptsOf(e) :
    Due(r) <= clock \/ Due(r) <= outbox[e].next_attempt_at

BackoffInv == AuditInv /\ ClaimTimePast /\ WaitsForBackoff /\ BackoffHonoured

\* What both conjuncts say of one row.
RowBackoff(e) ==
  \A r \in AttemptsOf(e) :
    /\ outbox[e].status = "DELIVERING" => Due(r) <= clock
    /\ outbox[e].status \in Waiting =>
         Due(r) <= clock \/ Due(r) <= outbox[e].next_attempt_at

LEMMA RowBackoffAll ==
  WaitsForBackoff /\ BackoffHonoured <=> \A e \in EventIds : RowBackoff(e)
BY DEF WaitsForBackoff, BackoffHonoured, RowBackoff, WithStatus, Due, Waiting

LEMMA DueInt == ASSUME TypeInv, NEW r \in deliveryAttempts PROVE Due(r) \in Nat
BY RetryDelayAssumption DEF Due, TypeInv, TypeOK, OutboxTypeOK, AttemptRow

LEMMA BackoffStep ==
  ASSUME BackoffInv, [Next]_vars
  PROVE  ClaimTimePast' /\ WaitsForBackoff' /\ BackoffHonoured'
<1> USE DEF BackoffInv, AuditInv
<1>1. clock \in Nat /\ clock' \in Nat /\ clock <= clock'
  BY TypeStep
     DEF TypeInv, TypeOK, OutboxTypeOK, Next, Step, vars, Publish, Tick, Start, Recover, Claim,
         SinkAccepts, SinkFails, AckSuccess, AckDead, AckRetry, Advance, AckLost,
         RetryUnschedulable, Return, Interrupt, Abort
<1>2. ClaimTimePast'
  <2> SUFFICES ASSUME NEW d \in Dispatchers PROVE claimTime'[d] <= clock'
    BY DEF ClaimTimePast
  <2>1. claimTime'[d] = claimTime[d] \/ claimTime'[d] = clock
    BY DEF TypeInv, TypeOK, Next, Step, vars, dispatcherVars, Publish, Tick, Start, Recover,
           Claim, SinkAccepts, SinkFails, AckSuccess, AckDead, AckRetry, Advance, AckLost,
           RetryUnschedulable, Return, Interrupt, Abort
  <2> QED BY <1>1, <2>1 DEF ClaimTimePast, TypeInv, TypeOK
<1>3. ASSUME NEW e \in EventIds PROVE RowBackoff(e)'
  <2>1. RowBackoff(e)
    BY RowBackoffAll
  <2>2. \A r \in AttemptsOf(e) : Due(r) \in Nat
    BY DueInt DEF AttemptsOf
  <2>3. ASSUME outbox'[e] = outbox[e], AttemptsOf(e)' = AttemptsOf(e) PROVE RowBackoff(e)'
    BY <1>1, <2>1, <2>2, <2>3 DEF RowBackoff, Due
  <2>4. ASSUME NEW n \in 1..MaxDrafts, Publish(n) PROVE RowBackoff(e)'
    <3>1. AttemptsOf(e)' = AttemptsOf(e)
      BY <2>4 DEF Publish, InsertOutbox, AttemptsOf
    <3>2. CASE e \in NextIds(n)
      <4>1. outbox[e].attempts = 0
        BY <3>2, BoundsAssumption, MaxEventsAssumption
           DEF NextIds, UnusedIds, NoRow, EventIds, TypeInv, TypeOK, OutboxTypeOK
      <4>2. AttemptsOf(e) = {}
        BY <4>1 DEF AuditTrail
      <4> QED BY <3>1, <4>2 DEF RowBackoff
    <3>3. CASE e \notin NextIds(n)
      BY <2>3, <2>4, <3>1, <3>3 DEF Publish, InsertOutbox
    <3> QED BY <3>2, <3>3
  <2>5. ASSUME NEW d \in Dispatchers, Recover(d) PROVE RowBackoff(e)'
    <3>1. AttemptsOf(e)' = AttemptsOf(e)
      BY <2>5 DEF Recover, RecoverInFlight, AttemptsOf
    <3>2. CASE outbox[e].status = "DELIVERING"
      <4>1. \A r \in AttemptsOf(e) : Due(r) <= clock
        BY <2>1, <3>2 DEF RowBackoff
      <4> QED BY <1>1, <2>2, <3>1, <4>1 DEF RowBackoff, Due
    <3>3. CASE outbox[e].status # "DELIVERING"
      BY <2>3, <2>5, <3>1, <3>3 DEF Recover, RecoverInFlight
    <3> QED BY <3>2, <3>3
  <2>6. ASSUME NEW d \in Dispatchers, Claim(d) PROVE RowBackoff(e)'
    <3>1. AttemptsOf(e)' = AttemptsOf(e)
      BY <2>6 DEF Claim, ClaimDue, AttemptsOf
    <3>2. CASE e \in FirstDue(claimTime[d])
      <4>1. outbox[e].next_attempt_at <= claimTime[d] /\ outbox[e].status \in Waiting
        BY <3>2, FirstDueWaiting
      <4>2. claimTime[d] <= clock /\ claimTime[d] \in Nat
        BY DEF ClaimTimePast, TypeInv, TypeOK
      <4>3. outbox[e].next_attempt_at \in Int
        BY DEF TypeInv, TypeOK, OutboxTypeOK, OutboxRow, Null
      <4>4. \A r \in AttemptsOf(e) : Due(r) <= clock
        BY <1>1, <2>1, <2>2, <4>1, <4>2, <4>3 DEF RowBackoff
      <4> QED BY <1>1, <2>2, <3>1, <4>4 DEF RowBackoff, Due
    <3>3. CASE e \notin FirstDue(claimTime[d])
      BY <2>3, <2>6, <3>1, <3>3 DEF Claim, ClaimDue
    <3> QED BY <3>2, <3>3
  <2>7. ASSUME NEW d \in Dispatchers, Acknowledge(d) PROVE RowBackoff(e)'
    <3>1. PICK c \in batch[d], row \in OutboxRow, attempt \in AttemptRow :
            Acknowledged(c, row, attempt)
      BY <2>7, AckEffect
    <3>2. CASE e = c.outbox_id
      <4>1. AttemptsOf(e)' = AttemptsOf(e) \cup {attempt}
        BY <3>1, <3>2 DEF Acknowledged, AttemptsOf
      <4>2. \A r \in AttemptsOf(e) : Due(r) <= clock
        BY <2>1, <3>1, <3>2 DEF RowBackoff, Acknowledged, ClaimActive
      <4>3. outbox'[e] = row
        BY <3>1, <3>2 DEF Acknowledged, TypeInv, TypeOK, OutboxTypeOK
      <4>4. row.status = "RETRY" => Due(attempt) = row.next_attempt_at
        BY <3>1 DEF Acknowledged, Due
      <4>5. Due(attempt) \in Nat
        BY <3>1, <1>1, RetryDelayAssumption DEF Acknowledged, Due, AttemptRow
      <4>6. row.status \in {"DELIVERED", "DEAD", "RETRY"}
        BY <3>1 DEF Acknowledged
      <4>7. ASSUME NEW r \in AttemptsOf(e)'
            PROVE  row.status = "RETRY" => Due(r) <= clock' \/ Due(r) <= row.next_attempt_at
        BY <1>1, <2>2, <4>1, <4>2, <4>4, <4>5, <4>7
      <4> QED BY <4>3, <4>6, <4>7 DEF RowBackoff, Waiting, Due
    <3>3. CASE e # c.outbox_id
      <4>1. AttemptsOf(e)' = AttemptsOf(e)
        BY <3>1, <3>3 DEF Acknowledged, AttemptsOf
      <4>2. outbox'[e] = outbox[e]
        BY <3>1, <3>3 DEF Acknowledged, TypeInv, TypeOK, OutboxTypeOK
      <4> QED BY <2>3, <4>1, <4>2
    <3> QED BY <3>2, <3>3
  <2>8. CASE UNCHANGED outboxVars
    BY <2>3, <2>8 DEF outboxVars, AttemptsOf
  <2> QED BY <2>4, <2>5, <2>6, <2>7, <2>8
             DEF Next, Step, Acknowledge, vars, Tick, Start, SinkAccepts, SinkFails, Return,
                 AckLost, RetryUnschedulable, Interrupt, Abort
<1>4. WaitsForBackoff' /\ BackoffHonoured'
  <2>1. (WaitsForBackoff /\ BackoffHonoured <=> \A e \in EventIds : RowBackoff(e))'
    BY DEF WaitsForBackoff, BackoffHonoured, RowBackoff, WithStatus, Due, Waiting
  <2> QED BY <1>3, <2>1
<1> QED BY <1>2, <1>4

LEMMA BackoffInit == Init => BackoffInv
BY AuditInit DEF Init, OutboxInit, DispatcherInit, BackoffInv, ClaimTimePast,
                 WaitsForBackoff, BackoffHonoured, WithStatus, NoRow, Waiting

LEMMA BackoffInvStep == BackoffInv /\ [Next]_vars => BackoffInv'
BY AuditStep, BackoffStep DEF BackoffInv

\* No event is in flight before the backoff of its last failure is over,
\* whatever recovery and overlapping dispatchers did to its row in between.
THEOREM BackoffCorrect == Spec => []BackoffHonoured
<1>1. Init => BackoffInv
  BY BackoffInit
<1>2. BackoffInv /\ [Next]_vars => BackoffInv'
  BY BackoffInvStep
<1>3. BackoffInv => BackoffHonoured
  BY DEF BackoffInv
<1> QED BY <1>1, <1>2, <1>3, PTL DEF Spec
-----------------------------------------------------------------------------
(* claim_due takes at most one batch. *)

\* A bounded, non-empty set of naturals has a largest element.
LEMMA LargestExists ==
  ASSUME NEW S \in SUBSET Nat, NEW b \in Nat, \A x \in S : x <= b, S # {}
  PROVE  \E m \in S : \A x \in S : x <= m
<1> DEFINE T == {b - x : x \in S}
<1>1. T \in SUBSET Nat /\ T # {}
  <2>1. \A x \in S : b - x \in Nat
    OBVIOUS
  <2> QED BY <2>1
<1>2. PICK t \in T : \A y \in T : <<y, t>> \notin OpToRel(<, Nat)
  <2> HIDE DEF T
  <2> QED BY <1>1, NatLessThanWellFounded, WFMin
<1>3. \A y \in T : ~(y < t)
  BY <1>1, <1>2 DEF OpToRel
<1>4. PICK m \in S : t = b - m
  BY <1>2
<1>5. ASSUME NEW x \in S PROVE x <= m
  <2>1. b - x \in T
    OBVIOUS
  <2>2. ~(b - x < t)
    BY <1>3, <2>1
  <2> QED BY <1>4, <2>2
<1> QED BY <1>5

\* claim_due selects at most batch_size rows.
LEMMA FirstDueBounded ==
  ASSUME NEW now
  PROVE  IsFiniteSet(FirstDue(now)) /\ Cardinality(FirstDue(now)) <= BatchSize
<1> DEFINE F == FirstDue(now)
           D == DueAt(now)
<1>1. F \subseteq D /\ D \subseteq 1..MaxEvents
  BY DEF FirstDue, DueAt, WithStatus, EventIds
<1>2. IsFiniteSet(1..MaxEvents)
  BY FS_Interval, MaxEventsAssumption
<1>3. IsFiniteSet(D) /\ IsFiniteSet(F)
  BY <1>1, <1>2, FS_Subset
<1>4. CASE F = {}
  BY <1>4, FS_EmptySet, BatchSizeAssumption
<1>5. CASE F # {}
  <2>1. F \in SUBSET Nat /\ \A x \in F : x <= MaxEvents
    BY <1>1, MaxEventsAssumption
  <2>2. PICK m \in F : \A x \in F : x <= m
    <3> HIDE DEF F
    <3> QED BY <1>5, <2>1, LargestExists, MaxEventsAssumption
  <2> DEFINE Before == {f \in D : f < m}
  <2>3. Cardinality(Before) < BatchSize
    BY <2>2 DEF FirstDue
  <2>4. F \ {m} \subseteq Before
    BY <1>1, <2>1, <2>2
  <2>5. IsFiniteSet(Before)
    BY <1>3, FS_Subset
  <2>6. Cardinality(F \ {m}) <= Cardinality(Before)
    BY <2>4, <2>5, FS_Subset
  <2>7. Cardinality(F \ {m}) = Cardinality(F) - 1
    BY <1>3, <2>2, FS_RemoveElement
  <2>8. Cardinality(F) \in Nat /\ Cardinality(Before) \in Nat
    BY <1>3, <2>5, FS_CardinalityType
  <2>9. IsFiniteSet(F) /\ Cardinality(F) <= BatchSize
    <3> HIDE DEF F, Before
    <3> QED BY <1>3, <2>3, <2>6, <2>7, <2>8, BatchSizeAssumption
  <2> QED BY <2>9
<1> QED BY <1>4, <1>5

-----------------------------------------------------------------------------
(* With a single owner: at most one batch is in flight. *)

\* Only a dispatcher that has recovered claims and delivers, and while it does it
\* claims all rows in flight, and no others unless their rows are gone.
RecoversFirst ==
  \A d \in Dispatchers :
    IF recovered[d] THEN phase[d] # "recover" ELSE phase[d] \in {"idle", "recover"}

HoldsWhatIsInFlight ==
  \A d \in Dispatchers : recovered[d] =>
    /\ ClaimsOf(WithStatus({"DELIVERING"})) \subseteq batch[d]
    /\ \A c \in batch[d] : ClaimActive(c) \/ outbox[c.outbox_id].status = "ABSENT"

\* Claims name ids that were given out.
ClaimsGivenOut == \A d \in Dispatchers : \A c \in batch[d] : c.outbox_id <= outboxSeq

OwnerInv ==
  /\ TypeInv /\ UnusedIds /\ NothingHeld
  /\ RecoversFirst /\ ClaimsGivenOut
  /\ HoldsWhatIsInFlight
  /\ InFlightBounded

LEMMA RecoversFirstStep == TypeInv /\ RecoversFirst /\ [Next]_vars => RecoversFirst'
BY DEF TypeInv, TypeOK, RecoversFirst, Next, Step, vars, dispatcherVars, Publish, Tick, Start,
       Recover, Claim, SinkAccepts, SinkFails, AckSuccess, AckDead, AckRetry, Advance,
       AckLost, RetryUnschedulable, Return, Interrupt, Abort

LEMMA SmallerInFlight ==
  ASSUME InFlightBounded, WithStatus({"DELIVERING"})' \subseteq WithStatus({"DELIVERING"})
  PROVE  InFlightBounded'
<1> DEFINE W == WithStatus({"DELIVERING"})
<1>1. IsFiniteSet(W)
  <2>1. W \subseteq 1..MaxEvents
    BY DEF WithStatus, EventIds
  <2>2. IsFiniteSet(1..MaxEvents)
    BY FS_Interval, MaxEventsAssumption
  <2> QED BY <2>1, <2>2, FS_Subset
<1>2. Cardinality(W') <= Cardinality(W) /\ Cardinality(W') \in Nat /\ Cardinality(W) \in Nat
  BY <1>1, FS_Subset, FS_CardinalityType
<1> QED BY <1>2, BatchSizeAssumption DEF InFlightBounded

\* The ids given out stay given out, and only rows that exist are claimed.
LEMMA GivenOutStep ==
  ASSUME TypeInv, UnusedIds, ClaimsGivenOut, [Next]_vars
  PROVE  outboxSeq <= outboxSeq' /\ ClaimsGivenOut'
<1> USE DEF TypeInv, TypeOK, OutboxTypeOK
<1>1. outboxSeq \in Nat /\ outboxSeq' \in Nat /\ outboxSeq <= outboxSeq'
  <2>1. outboxSeq \in Nat
    BY MaxEventsAssumption
  <2>2. ASSUME NEW n \in 1..MaxDrafts, Publish(n) PROVE outboxSeq' = outboxSeq + n /\ n \in Nat
    BY <2>2, BoundsAssumption DEF Publish, InsertOutbox
  <2>3. ASSUME NEW d \in Dispatchers, Acknowledge(d) PROVE outboxSeq' = outboxSeq
    BY <2>3, AckEffect DEF Acknowledged
  <2>4. ASSUME NEW d \in Dispatchers, Recover(d) \/ Claim(d) PROVE outboxSeq' = outboxSeq
    BY <2>4 DEF Recover, RecoverInFlight, Claim, ClaimDue
  <2>5. outboxSeq' = outboxSeq \/ \E n \in Nat : outboxSeq' = outboxSeq + n
    BY <2>2, <2>3, <2>4
       DEF Next, Step, Acknowledge, vars, outboxVars, Tick, Start, SinkAccepts, SinkFails, AckLost,
           RetryUnschedulable, Return, Interrupt, Abort
  <2> QED BY <2>1, <2>5
<1>2. ASSUME NEW d \in Dispatchers, batch'[d] \subseteq batch[d], NEW c \in batch'[d]
      PROVE  c.outbox_id <= outboxSeq'
  BY <1>1, <1>2, MaxEventsAssumption DEF ClaimsGivenOut, ClaimedEvent, EventIds
<1>3. ASSUME NEW d \in Dispatchers, Claim(d), NEW c \in batch'[d]
      PROVE  c.outbox_id <= outboxSeq'
  <2>1. PICK e \in FirstDue(claimTime[d]) : c.outbox_id = e
    BY <1>3 DEF Claim, ClaimsOf
  <2>2. e \in EventIds /\ outbox[e] # NoRow
    BY FirstDueWaiting DEF Waiting, NoRow
  <2> QED BY <1>1, <2>1, <2>2, MaxEventsAssumption DEF UnusedIds, EventIds
<1>4. \A d \in Dispatchers : batch'[d] \subseteq batch[d] \/ Claim(d)
  BY DEF Next, Step, vars, dispatcherVars, Publish, Tick, Start, Recover, Claim, SinkAccepts,
         SinkFails, AckSuccess, AckDead, AckRetry, Advance, AckLost, RetryUnschedulable, Return,
         Interrupt, Abort
<1> QED BY <1>1, <1>2, <1>3, <1>4 DEF ClaimsGivenOut

LEMMA OwnerStep ==
  ASSUME \A a, b \in Dispatchers : a = b, OwnerInv, [Next]_vars
  PROVE  HoldsWhatIsInFlight' /\ InFlightBounded'
<1> DEFINE W == WithStatus({"DELIVERING"})
<1> USE DEF OwnerInv
<1>types. /\ outbox \in [EventIds -> OutboxRow]
          /\ recovered \in [Dispatchers -> BOOLEAN]
          /\ batch \in [Dispatchers -> SUBSET ClaimedEvent]
  BY DEF TypeInv, TypeOK, OutboxTypeOK
<1>1. ASSUME W' = W, \A e \in W : outbox'[e] = outbox[e],
             \A d \in Dispatchers : \A c \in batch[d] :
               outbox[c.outbox_id].status = "ABSENT" => outbox'[c.outbox_id] = outbox[c.outbox_id],
             UNCHANGED <<recovered, batch>>
      PROVE  HoldsWhatIsInFlight' /\ InFlightBounded'
  <2>1. ClaimsOf(W)' = ClaimsOf(W)
    BY <1>1 DEF ClaimsOf
  <2>2. ASSUME NEW d \in Dispatchers, recovered[d], NEW c \in batch[d]
        PROVE  ClaimActive(c)' \/ outbox'[c.outbox_id].status = "ABSENT"
    <3>1. c.outbox_id \in EventIds
      BY <1>types DEF ClaimedEvent
    <3> QED BY <1>1, <2>2, <3>1 DEF HoldsWhatIsInFlight, ClaimActive, WithStatus
  <2> QED BY <1>1, <2>1, <2>2, SmallerInFlight DEF HoldsWhatIsInFlight
<1>2. ASSUME NEW n \in 1..MaxDrafts, Publish(n) PROVE HoldsWhatIsInFlight' /\ InFlightBounded'
  <2> PICK now \in 0..clock : InsertOutbox(n, now)
    BY <1>2 DEF Publish
  <2>1. outbox' = [e \in EventIds |->
                     IF e \in NextIds(n)
                     THEN [status |-> "PENDING", attempts |-> 0, next_attempt_at |-> now]
                     ELSE outbox[e]]
    BY DEF InsertOutbox
  <2>2. \A e \in EventIds : e \in NextIds(n) => outbox[e] = NoRow /\ e > outboxSeq
    BY BoundsAssumption, MaxEventsAssumption
       DEF NextIds, UnusedIds, EventIds, TypeInv, TypeOK, OutboxTypeOK
  <2>3. W' = W /\ \A e \in W : outbox'[e] = outbox[e]
    BY <2>1, <2>2 DEF WithStatus, NoRow
  <2>4. ASSUME NEW d \in Dispatchers, NEW c \in batch[d]
        PROVE  outbox'[c.outbox_id] = outbox[c.outbox_id]
    <3>1. c.outbox_id \in EventIds /\ c.outbox_id <= outboxSeq /\ outboxSeq \in Nat
      BY <1>types, MaxEventsAssumption DEF ClaimedEvent, ClaimsGivenOut, TypeInv, TypeOK, OutboxTypeOK
    <3>2. c.outbox_id \notin NextIds(n)
      BY <2>2, <3>1, MaxEventsAssumption DEF EventIds
    <3> QED BY <2>1, <3>1, <3>2
  <2> QED BY <1>1, <1>2, <2>3, <2>4 DEF Publish, dispatcherVars
<1>3. ASSUME UNCHANGED <<outbox, recovered, batch>>
      PROVE  HoldsWhatIsInFlight' /\ InFlightBounded'
  BY <1>1, <1>3 DEF WithStatus
<1>4. ASSUME NEW d \in Dispatchers, Recover(d)
      PROVE  HoldsWhatIsInFlight' /\ InFlightBounded'
  <2>1. W' = {}
    BY <1>4, <1>types DEF Recover, RecoverInFlight, WithStatus, OutboxRow
  <2>2. batch'[d] = {}
    BY <1>4 DEF Recover, NothingHeld
  <2>3. ClaimsOf(W)' = {}
    BY <2>1 DEF ClaimsOf
  <2> QED BY <2>1, <2>2, <2>3, SmallerInFlight DEF HoldsWhatIsInFlight
<1>5. ASSUME NEW d \in Dispatchers, Claim(d)
      PROVE  HoldsWhatIsInFlight' /\ InFlightBounded'
  <2> DEFINE F == FirstDue(claimTime[d])
  <2>1. outbox' = [e \in EventIds |-> IF e \in F
                                     THEN [outbox[e] EXCEPT !.status = "DELIVERING"]
                                     ELSE outbox[e]]
    BY <1>5 DEF Claim, ClaimDue
  <2>2. batch[d] = {} /\ recovered[d]
    BY <1>5, <1>types DEF Claim, NothingHeld, RecoversFirst
  <2>3. W = {}
    BY <2>2 DEF HoldsWhatIsInFlight, ClaimsOf
  <2>4. F \subseteq EventIds
    BY FirstDueWaiting
  <2>5. /\ W' = F
        /\ \A e \in F : outbox'[e].status = "DELIVERING" /\ outbox'[e].attempts = outbox[e].attempts
    <3> HIDE DEF F
    <3>1. \A e \in EventIds :
            /\ outbox'[e].status = IF e \in F THEN "DELIVERING" ELSE outbox[e].status
            /\ outbox'[e].attempts = outbox[e].attempts
      BY <2>1, <1>types DEF OutboxRow
    <3> QED BY <2>3, <2>4, <3>1 DEF WithStatus
  <2>6. ClaimsOf(W)' = ClaimsOf(F)
    BY <2>5 DEF ClaimsOf
  <2>7. batch'[d] = ClaimsOf(F)
    BY <1>5, <1>types DEF Claim
  <2>8. \A c \in ClaimsOf(F) : ClaimActive(c)'
    BY <2>5 DEF ClaimsOf, ClaimActive
  <2>9. InFlightBounded'
    BY <2>5, FirstDueBounded DEF InFlightBounded
  <2> QED BY <2>6, <2>7, <2>8, <2>9 DEF HoldsWhatIsInFlight
<1>6. ASSUME NEW d \in Dispatchers, Acknowledge(d)
      PROVE  HoldsWhatIsInFlight' /\ InFlightBounded'
  <2>1. PICK c \in batch[d], row \in OutboxRow, attempt \in AttemptRow :
          Acknowledged(c, row, attempt) /\ Advance(d, c)
    BY <1>6, AckEffect
  <2>2. W' = W \ {c.outbox_id}
    BY <2>1, <1>types DEF Acknowledged, WithStatus
  <2>3. \A e \in EventIds \ {c.outbox_id} : outbox'[e] = outbox[e]
    BY <2>1, <1>types DEF Acknowledged
  <2>4. batch'[d] = batch[d] \ {c} /\ recovered' = recovered
    BY <2>1, <1>types DEF Advance
  <2>5. recovered[d] => ClaimsOf(W)' \subseteq batch'[d]
    <3> SUFFICES ASSUME recovered[d], NEW e \in W \ {c.outbox_id}
                 PROVE  [outbox_id |-> e, attempts |-> outbox'[e].attempts] \in batch'[d]
      BY <2>2 DEF ClaimsOf
    <3>1. e \in EventIds /\ e # c.outbox_id /\ e \in W
      BY DEF WithStatus
    <3>2. [outbox_id |-> e, attempts |-> outbox[e].attempts] \in batch[d]
      BY <3>1 DEF HoldsWhatIsInFlight, ClaimsOf
    <3> QED BY <2>3, <2>4, <3>1, <3>2
  <2>6. ASSUME recovered[d], NEW o \in batch'[d]
        PROVE  ClaimActive(o)' \/ outbox'[o.outbox_id].status = "ABSENT"
    <3>1. /\ o \in batch[d] /\ o # c /\ o \in ClaimedEvent /\ c \in ClaimedEvent
          /\ ClaimActive(o) \/ outbox[o.outbox_id].status = "ABSENT"
      BY <2>4, <2>6, <1>types DEF HoldsWhatIsInFlight
    <3>2. o.outbox_id \in EventIds \ {c.outbox_id}
      BY <2>1, <3>1 DEF Acknowledged, ClaimActive, ClaimedEvent
    <3> QED BY <2>3, <3>1, <3>2 DEF ClaimActive
  <2>7. InFlightBounded'
    BY <2>2, SmallerInFlight
  <2> QED BY <2>4, <2>5, <2>6, <2>7 DEF HoldsWhatIsInFlight
<1>7. ASSUME NEW d \in Dispatchers, Abort(d)
      PROVE  HoldsWhatIsInFlight' /\ InFlightBounded'
  <2>1. ~recovered'[d] /\ W' = W
    BY <1>7, <1>types DEF Abort, outboxVars, WithStatus
  <2> QED BY <2>1, SmallerInFlight DEF HoldsWhatIsInFlight
<1> QED BY <1>2, <1>3, <1>4, <1>5, <1>6, <1>7
           DEF Next, Step, Acknowledge, vars, outboxVars, dispatcherVars, Tick, Start,
               SinkAccepts, SinkFails, Return, AckLost, RetryUnschedulable, Interrupt

LEMMA OwnerInit == Init => OwnerInv
<1> SUFFICES ASSUME Init PROVE OwnerInv
  OBVIOUS
<1>1. WithStatus({"DELIVERING"}) = {}
  BY DEF Init, OutboxInit, NoRow, WithStatus
<1>2. InFlightBounded
  BY <1>1, FS_EmptySet, BatchSizeAssumption DEF InFlightBounded
<1> QED BY <1>2, TypeInit DEF Init, OutboxInit, DispatcherInit, OwnerInv, UnusedIds, NothingHeld,
                 RecoversFirst, ClaimsGivenOut, HoldsWhatIsInFlight, ClaimsOf

LEMMA OwnerInvStep ==
  ASSUME \A a, b \in Dispatchers : a = b
  PROVE  OwnerInv /\ [Next]_vars => OwnerInv'
BY TypeStep, UnusedStep, NothingHeldStep, RecoversFirstStep, GivenOutStep, OwnerStep DEF OwnerInv

\* With one owner, never more than one batch is in flight: whatever an interrupted
\* call had claimed is recovered before the next claim.
THEOREM InFlightCorrect ==
  ASSUME \A a, b \in Dispatchers : a = b
  PROVE  Spec => []InFlightBounded
<1>1. Init => OwnerInv
  BY OwnerInit
<1>2. OwnerInv /\ [Next]_vars => OwnerInv'
  BY OwnerInvStep
<1>3. OwnerInv => InFlightBounded
  BY DEF OwnerInv
<1> QED BY <1>1, <1>2, <1>3, PTL DEF Spec
-----------------------------------------------------------------------------
(* With a single owner: repeated acceptances cost interruptions. *)

\* A batch holds one claim for each of its rows.
OneClaimEach ==
  \A d \in Dispatchers : \A b, c \in batch[d] : b.outbox_id = c.outbox_id => b = c

LEMMA OneClaimEachStep == TypeInv /\ OneClaimEach /\ [Next]_vars => OneClaimEach'
<1> SUFFICES ASSUME TypeInv, OneClaimEach, [Next]_vars, NEW d \in Dispatchers,
                    NEW b \in batch'[d], NEW c \in batch'[d], b.outbox_id = c.outbox_id
             PROVE  b = c
  BY DEF OneClaimEach
<1>1. CASE batch'[d] \subseteq batch[d]
  BY <1>1 DEF OneClaimEach
<1>2. CASE Claim(d)
  <2>1. batch'[d] = ClaimsOf(FirstDue(claimTime[d]))
    BY <1>2 DEF Claim, TypeInv, TypeOK
  <2> QED BY <2>1 DEF ClaimsOf
<1>3. batch \in [Dispatchers -> SUBSET ClaimedEvent]
  BY DEF TypeInv, TypeOK
<1> QED BY <1>1, <1>2, <1>3
           DEF Next, Step, vars, dispatcherVars, Publish, Tick, Start, Recover, Claim,
               SinkAccepts, SinkFails, AckSuccess, AckDead, AckRetry, Advance, AckLost,
               RetryUnschedulable, Return, Interrupt, Abort

\* Row e is the one whose acceptance is about to be acknowledged.
BeingConfirmed(e) ==
  \E d \in Dispatchers : \E c \in batch[d] :
    phase[d] = "succeeded" /\ IsNext(d, c) /\ c.outbox_id = e

\* Event e is not offered again: it is DELIVERED, or its row is gone for good.
Settled(e) ==
  /\ outbox[e].status \in {"DELIVERED", "ABSENT"}
  /\ e <= outboxSeq
  /\ \A d \in Dispatchers : \A c \in batch[d] : c.outbox_id # e

\* The last acceptance that the interruptions allow is on its way to be final.
LastAcceptanceCounts ==
  \A e \in EventIds : accepted[e] > interruptions => BeingConfirmed(e) \/ Settled(e)

DuplicateInv ==
  OwnerInv /\ OneClaimEach /\ DuplicatesNeedInterruptions /\ LastAcceptanceCounts

LEMMA DuplicateStep ==
  ASSUME \A a, b \in Dispatchers : a = b, DuplicateInv, [Next]_vars
  PROVE  DuplicatesNeedInterruptions' /\ LastAcceptanceCounts'
<1> USE DEF DuplicateInv
<1>types. /\ accepted \in [EventIds -> 0..MaxAcceptances]
          /\ interruptions \in Nat
          /\ phase \in [Dispatchers -> Phases]
          /\ batch \in [Dispatchers -> SUBSET ClaimedEvent]
          /\ outbox \in [EventIds -> OutboxRow]
  BY BoundsAssumption DEF OwnerInv, TypeInv, TypeOK, OutboxTypeOK
<1>seq. /\ outboxSeq \in Nat /\ outboxSeq' \in Nat /\ outboxSeq <= outboxSeq'
        /\ EventIds \subseteq Nat
  <2>1. TypeInv /\ TypeInv' /\ outboxSeq <= outboxSeq'
    BY GivenOutStep, TypeStep DEF OwnerInv
  <2> QED BY <2>1, MaxEventsAssumption DEF TypeInv, TypeOK, OutboxTypeOK, EventIds
<1>1. ASSUME NEW e \in EventIds, Settled(e) PROVE Settled(e)'
  <2>1. e <= outboxSeq'
    BY <1>1, <1>seq DEF Settled
  <2>2. outbox[e].status \notin Waiting \cup {"DELIVERING"}
    BY <1>1 DEF Settled, Waiting
  <2>3. ASSUME NEW n \in 1..MaxDrafts, Publish(n) PROVE outbox'[e] = outbox[e]
    <3>1. e \notin NextIds(n)
      BY <1>1, <1>seq, BoundsAssumption DEF Settled, NextIds
    <3> QED BY <2>3, <3>1 DEF Publish, InsertOutbox
  <2>4. ASSUME NEW d \in Dispatchers, Recover(d) \/ Claim(d) PROVE outbox'[e] = outbox[e]
    BY <2>2, <2>4, FirstDueWaiting DEF Recover, RecoverInFlight, Claim, ClaimDue
  <2>5. ASSUME NEW d \in Dispatchers, Acknowledge(d) PROVE outbox'[e] = outbox[e]
    <3>1. PICK c \in batch[d], row \in OutboxRow, attempt \in AttemptRow :
            Acknowledged(c, row, attempt)
      BY <2>5, AckEffect DEF OwnerInv
    <3> QED BY <1>1, <3>1 DEF Settled, Acknowledged
  <2>6. outbox'[e] = outbox[e]
    BY <2>3, <2>4, <2>5
       DEF Next, Step, Acknowledge, vars, outboxVars, Tick, Start, SinkAccepts, SinkFails, AckLost,
           RetryUnschedulable, Return, Interrupt, Abort
  <2>7. ASSUME NEW d \in Dispatchers, NEW c \in batch'[d] PROVE c.outbox_id # e
    <3>1. CASE c \in batch[d]
      BY <1>1, <3>1 DEF Settled
    <3>2. CASE Claim(d)
      BY <2>2, <2>7, <3>2, <1>types, FirstDueWaiting DEF Claim, ClaimsOf
    <3> QED BY <2>7, <3>1, <3>2, <1>types
            DEF Next, Step, vars, dispatcherVars, Publish, Tick, Start, Recover, Claim, SinkAccepts,
                SinkFails, AckSuccess, AckDead, AckRetry, Advance, AckLost, RetryUnschedulable,
                Return, Interrupt, Abort
  <2> QED BY <1>1, <2>1, <2>6, <2>7 DEF Settled
<1>2. ASSUME UNCHANGED <<accepted, interruptions>>,
             \A e \in EventIds : BeingConfirmed(e) => BeingConfirmed(e)' \/ Settled(e)'
      PROVE  DuplicatesNeedInterruptions' /\ LastAcceptanceCounts'
  BY <1>1, <1>2 DEF DuplicatesNeedInterruptions, LastAcceptanceCounts
<1>3. ASSUME UNCHANGED <<accepted, interruptions, phase, batch>>
      PROVE  DuplicatesNeedInterruptions' /\ LastAcceptanceCounts'
  <2>1. \A e \in EventIds : BeingConfirmed(e) => BeingConfirmed(e)'
    BY <1>3 DEF BeingConfirmed, IsNext
  <2> QED BY <1>2, <1>3, <2>1
<1>4. ASSUME NEW d \in Dispatchers, phase[d] # "succeeded"
      PROVE  \A e \in EventIds : ~BeingConfirmed(e)
  BY <1>4 DEF BeingConfirmed
<1>5. ASSUME NEW d \in Dispatchers, SinkAccepts(d)
      PROVE  DuplicatesNeedInterruptions' /\ LastAcceptanceCounts'
  <2>1. PICK c \in batch[d] :
          /\ IsNext(d, c)
          /\ accepted' = [accepted EXCEPT ![c.outbox_id] =
                             IF @ < MaxAcceptances THEN @ + 1 ELSE @]
    BY <1>5 DEF SinkAccepts
  <2>2. /\ UNCHANGED <<batch, interruptions>>
        /\ phase'[d] = "succeeded" /\ phase[d] = "deliver"
    BY <1>5, <1>types DEF SinkAccepts
  <2>3. c.outbox_id \in EventIds
    BY <1>types DEF ClaimedEvent
  <2>4. \A e \in EventIds : accepted[e] > interruptions => Settled(e)
    BY <1>4, <2>2 DEF LastAcceptanceCounts
  <2>5. \A e \in EventIds :
          \/ accepted'[e] = accepted[e]
          \/ e = c.outbox_id /\ accepted'[e] = accepted[e] + 1
    BY <2>1, <2>3, <1>types
  <2>6. BeingConfirmed(c.outbox_id)'
    BY <2>1, <2>2 DEF BeingConfirmed, IsNext
  <2>7. accepted[c.outbox_id] <= interruptions
    <3>1. ~Settled(c.outbox_id)
      BY DEF Settled
    <3> QED BY <2>3, <2>4, <3>1, <1>types
  <2>8. DuplicatesNeedInterruptions'
    BY <2>2, <2>5, <2>7, <1>types DEF DuplicatesNeedInterruptions
  <2>9. LastAcceptanceCounts'
    BY <1>1, <2>2, <2>4, <2>5, <2>6 DEF LastAcceptanceCounts
  <2> QED BY <2>8, <2>9
<1>6. ASSUME NEW d \in Dispatchers, AckSuccess(d)
      PROVE  DuplicatesNeedInterruptions' /\ LastAcceptanceCounts'
  <2>1. PICK c \in batch[d] : /\ IsNext(d, c)
                              /\ RecordDeliverySuccess(c, clock)
                              /\ Advance(d, c)
    BY <1>6 DEF AckSuccess
  <2>2. c.outbox_id \in EventIds /\ c.outbox_id \in Nat /\ c.outbox_id <= outboxSeq
    BY <1>types, MaxEventsAssumption DEF ClaimedEvent, EventIds, OwnerInv, ClaimsGivenOut
  <2>3. outbox'[c.outbox_id].status = "DELIVERED"
    BY <2>1, <2>2, <1>types DEF RecordDeliverySuccess
  <2>4. \A b \in Dispatchers : \A o \in batch'[b] : o.outbox_id # c.outbox_id
    BY <2>1, <1>types DEF Advance, OneClaimEach
  <2>5. Settled(c.outbox_id)'
    <3>1. c.outbox_id <= outboxSeq'
      BY <2>2, <1>seq
    <3> QED BY <2>3, <2>4, <3>1 DEF Settled
  <2>6. \A e \in EventIds : BeingConfirmed(e) => e = c.outbox_id
    BY <2>1, NextRowUnique DEF BeingConfirmed, OwnerInv
  <2>7. UNCHANGED <<accepted, interruptions>>
    BY <2>1 DEF Advance
  <2> QED BY <1>2, <2>5, <2>6, <2>7
<1>7. ASSUME NEW d \in Dispatchers, AckLost(d)
      PROVE  DuplicatesNeedInterruptions' /\ LastAcceptanceCounts'
  <2>1. PICK c \in batch[d] : IsNext(d, c) /\ ~ClaimActive(c)
    BY <1>7 DEF AckLost
  <2>2. /\ UNCHANGED <<outbox, outboxSeq, accepted, interruptions>>
        /\ batch' = [batch EXCEPT ![d] = {}]
        /\ phase[d] \in {"succeeded", "failed"}
    BY <1>7 DEF AckLost, Abort, outboxVars
  <2>3. recovered[d]
    BY <2>2, <1>types DEF OwnerInv, RecoversFirst, TypeInv, TypeOK
  <2>4. /\ outbox[c.outbox_id].status = "ABSENT"
        /\ c.outbox_id <= outboxSeq
    BY <2>1, <2>3 DEF OwnerInv, HoldsWhatIsInFlight, ClaimsGivenOut
  <2>5. Settled(c.outbox_id)'
    BY <2>2, <2>4, <1>types DEF Settled
  <2>6. \A e \in EventIds : BeingConfirmed(e) => e = c.outbox_id
    BY <2>1, NextRowUnique DEF BeingConfirmed, OwnerInv
  <2> QED BY <1>2, <2>2, <2>5, <2>6
<1>8. ASSUME NEW d \in Dispatchers, Interrupt(d)
      PROVE  DuplicatesNeedInterruptions' /\ LastAcceptanceCounts'
  <2>1. accepted' = accepted /\ interruptions' = interruptions + 1
    BY <1>8 DEF Interrupt, Abort
  <2>2. \A e \in EventIds : accepted[e] <= interruptions + 1 /\ accepted[e] \in Nat
    BY <1>types DEF DuplicatesNeedInterruptions
  <2> QED BY <2>1, <2>2, <1>types DEF DuplicatesNeedInterruptions, LastAcceptanceCounts
<1>9. ASSUME NEW d \in Dispatchers,
             \/ Start(d) \/ Recover(d) \/ Claim(d) \/ SinkFails(d) \/ AckDead(d) \/ AckRetry(d)
             \/ RetryUnschedulable(d) \/ Return(d)
      PROVE  phase[d] # "succeeded" /\ UNCHANGED <<accepted, interruptions>>
  BY <1>9 DEF Start, Recover, Claim, SinkFails, AckDead, AckRetry, Advance,
              RetryUnschedulable, Return, Abort
<1>10. ASSUME UNCHANGED dispatcherVars
       PROVE  DuplicatesNeedInterruptions' /\ LastAcceptanceCounts'
  BY <1>3, <1>10 DEF dispatcherVars
<1> QED BY <1>2, <1>4, <1>5, <1>6, <1>7, <1>8, <1>9, <1>10
           DEF Next, Step, vars, Publish, Tick

LEMMA DuplicateInit == Init => DuplicateInv
BY OwnerInit DEF DuplicateInv, DuplicatesNeedInterruptions, LastAcceptanceCounts, OneClaimEach,
                 Init, DispatcherInit

LEMMA DuplicateInvStep ==
  ASSUME \A a, b \in Dispatchers : a = b
  PROVE  DuplicateInv /\ [Next]_vars => DuplicateInv'
<1>1. OwnerInv => TypeInv
  BY DEF OwnerInv
<1> QED BY <1>1, OwnerInvStep, OneClaimEachStep, DuplicateStep DEF DuplicateInv

\* With one owner, the sink accepts an event n + 1 times only if n calls were cut
\* short: without interruptions delivery is exactly once.
THEOREM DuplicatesCorrect ==
  ASSUME \A a, b \in Dispatchers : a = b
  PROVE  Spec => []DuplicatesNeedInterruptions
<1>1. Init => DuplicateInv
  BY DuplicateInit
<1>2. DuplicateInv /\ [Next]_vars => DuplicateInv'
  BY DuplicateInvStep
<1>3. DuplicateInv => DuplicatesNeedInterruptions
  BY DEF DuplicateInv
<1> QED BY <1>1, <1>2, <1>3, PTL DEF Spec

-----------------------------------------------------------------------------
(* Every failure the dispatcher caught is recorded. *)

LEMMA AckIsNew ==
  ASSUME AuditInv, NEW d \in Dispatchers, Acknowledge(d)
  PROVE  deliveryAttempts' # deliveryAttempts
<1>1. PICK c \in batch[d], row \in OutboxRow, attempt \in AttemptRow :
        Acknowledged(c, row, attempt)
  BY AckEffect DEF AuditInv
<1>2. /\ c.outbox_id \in EventIds /\ c.attempts \in Nat
      /\ outbox[c.outbox_id].attempts = c.attempts
  BY <1>1, ActiveClaimBudget DEF Acknowledged, ClaimActive, AuditInv
<1>3. \A r \in AttemptsOf(c.outbox_id) : r.attempt_number \in 1..c.attempts
  BY <1>2 DEF AuditInv, AuditTrail
<1>4. attempt \notin AttemptsOf(c.outbox_id)
  BY <1>1, <1>2, <1>3 DEF Acknowledged
<1> QED BY <1>1, <1>4 DEF Acknowledged, AttemptsOf

\* A failure caught under an active claim ends as an attempt row unless the call
\* is interrupted or the retry lies beyond datetime.max: the overflow is the one
\* way to lose a failure, whatever other dispatchers do.
THEOREM FailureRecordedUnlessOverflow ==
  Spec /\ [][\A d \in Dispatchers : ~RetryUnschedulable(d)]_vars => FailureRecorded
<1> DEFINE Inv == AuditInv /\ OneClaimEach
           NoOverflow == \A d \in Dispatchers : ~RetryUnschedulable(d)
           Recorded ==
             \A d \in Dispatchers :
               ( /\ phase[d] = "failed" /\ phase'[d] # "failed"
                 /\ \E c \in batch[d] : IsNext(d, c) /\ ClaimActive(c)
                 /\ interruptions' = interruptions )
               => deliveryAttempts' # deliveryAttempts
<1>1. Init => Inv
  BY AuditInit DEF Init, DispatcherInit, OneClaimEach
<1>2. Inv /\ [Next]_vars => Inv'
  BY AuditStep, OneClaimEachStep DEF AuditInv
<1>3. Inv /\ [Next]_vars /\ [NoOverflow]_vars => [Recorded]_vars
  <2> SUFFICES ASSUME Inv, Next, NoOverflow, NEW d \in Dispatchers,
                      phase[d] = "failed", phase'[d] # "failed",
                      NEW c \in batch[d], IsNext(d, c), ClaimActive(c),
                      interruptions' = interruptions
               PROVE  deliveryAttempts' # deliveryAttempts
    BY DEF vars
  <2>1. phase \in [Dispatchers -> Phases] /\ interruptions \in Nat
    BY BoundsAssumption DEF AuditInv, TypeInv, TypeOK
  <2>2. ASSUME NEW b \in Dispatchers, Acknowledge(b)
        PROVE  deliveryAttempts' # deliveryAttempts
    BY <2>2, AckIsNew
  <2>3. ~AckLost(d)
    <3>1. \A b \in batch[d] : IsNext(d, b) => b = c
      BY NextRowUnique DEF AuditInv, OneClaimEach
    <3> QED BY <3>1 DEF AckLost
  <2>4. \A b \in Dispatchers : ~Interrupt(b)
    BY <2>1 DEF Interrupt
  <2>5. ASSUME NEW b \in Dispatchers, b # d, Step(b)
        PROVE  Acknowledge(b)
    BY <2>1, <2>5 DEF Step, Acknowledge, Start, Recover, Claim, SinkAccepts, SinkFails, AckLost,
                RetryUnschedulable, Return, Abort
  <2>6. Step(d) => Acknowledge(d)
    BY <2>3 DEF Step, Acknowledge, Start, Recover, Claim, SinkAccepts, SinkFails,
                      RetryUnschedulable, Return
  <2>7. \E b \in Dispatchers : Step(b)
    BY <2>4 DEF Next, Publish, Tick, dispatcherVars
  <2> QED BY <2>2, <2>5, <2>6, <2>7
<1> HIDE DEF Inv
<1> QED BY <1>1, <1>2, <1>3, PTL DEF Spec, FailureRecorded
-----------------------------------------------------------------------------
(* The dispatcher implements the abstract at-least-once queue. *)

\* The failures on record are the attempts of a row that is not delivered.
FailuresCounted ==
  \A e \in EventIds :
    /\ IsFiniteSet(FailuresOf(e))
    /\ outbox[e].status # "DELIVERED" => Cardinality(FailuresOf(e)) = outbox[e].attempts

\* No row disappears while it is claimed.
ClaimsHaveRows ==
  \A d \in Dispatchers : \A c \in batch[d] : outbox[c.outbox_id].status # "ABSENT"

QueueInv == AuditInv /\ AcceptedInv /\ OwnerInv /\ ClaimsHaveRows /\ FailuresCounted

LEMMA ClaimsHaveRowsStep ==
  ASSUME TypeInv, ClaimsHaveRows, [Next]_vars
  PROVE  ClaimsHaveRows'
<1> SUFFICES ASSUME NEW d \in Dispatchers, NEW c \in batch'[d]
             PROVE  outbox'[c.outbox_id].status # "ABSENT"
  BY DEF ClaimsHaveRows
<1>types. /\ outbox \in [EventIds -> OutboxRow]
          /\ batch \in [Dispatchers -> SUBSET ClaimedEvent]
          /\ batch' \in [Dispatchers -> SUBSET ClaimedEvent]
  BY TypeStep DEF TypeInv, TypeOK, OutboxTypeOK
<1>1. c.outbox_id \in EventIds
  BY <1>types DEF ClaimedEvent
<1>2. outbox[c.outbox_id].status # "ABSENT"
  <2>1. CASE c \in batch[d]
    BY <2>1 DEF ClaimsHaveRows
  <2>2. CASE Claim(d)
    BY <2>2, <1>types, FirstDueWaiting DEF Claim, ClaimsOf, Waiting
  <2> QED BY <2>1, <2>2, <1>types
          DEF Next, Step, vars, dispatcherVars, Publish, Tick, Start, Recover, Claim, SinkAccepts,
              SinkFails, AckSuccess, AckDead, AckRetry, Advance, AckLost, RetryUnschedulable,
              Return, Interrupt, Abort
<1>3. ASSUME NEW n \in 1..MaxDrafts, Publish(n) PROVE outbox'[c.outbox_id].status # "ABSENT"
  BY <1>1, <1>2, <1>3 DEF Publish, InsertOutbox
<1>4. ASSUME NEW b \in Dispatchers, Recover(b) \/ Claim(b)
      PROVE  outbox'[c.outbox_id].status # "ABSENT"
  <2>1. outbox[c.outbox_id] \in OutboxRow
    BY <1>1, <1>types
  <2>2. CASE Recover(b)
    BY <1>1, <1>2, <2>1, <2>2 DEF Recover, RecoverInFlight, OutboxRow
  <2>3. CASE Claim(b)
    BY <1>1, <1>2, <2>1, <2>3 DEF Claim, ClaimDue, OutboxRow
  <2> QED BY <1>4, <2>2, <2>3
<1>5. ASSUME NEW b \in Dispatchers, Acknowledge(b) PROVE outbox'[c.outbox_id].status # "ABSENT"
  <2>1. PICK o \in batch[b], row \in OutboxRow, attempt \in AttemptRow :
          Acknowledged(o, row, attempt)
    BY <1>5, AckEffect
  <2> QED BY <1>1, <1>2, <2>1, <1>types DEF Acknowledged
<1> QED BY <1>2, <1>3, <1>4, <1>5
        DEF Next, Step, Acknowledge, vars, outboxVars, Tick, Start, SinkAccepts, SinkFails, AckLost,
            RetryUnschedulable, Return, Interrupt, Abort

\* A dispatcher holds active claims only.
LEMMA HeldIsActive ==
  ASSUME OwnerInv, ClaimsHaveRows, NEW d \in Dispatchers, NEW c \in batch[d]
  PROVE  c.outbox_id \in EventIds /\ ClaimActive(c)
<1>1. phase[d] \notin {"idle", "recover", "claim"}
  BY DEF OwnerInv, NothingHeld
<1>2. recovered[d]
  BY <1>1 DEF OwnerInv, RecoversFirst, TypeInv, TypeOK
<1>3. c.outbox_id \in EventIds
  BY DEF OwnerInv, TypeInv, TypeOK, ClaimedEvent
<1> QED BY <1>2, <1>3 DEF OwnerInv, HoldsWhatIsInFlight, ClaimsHaveRows

LEMMA FailuresQuiet ==
  ASSUME Quiet, NEW e \in EventIds
  PROVE  FailuresOf(e)' = FailuresOf(e)
BY DEF Quiet, FailuresOf, AttemptsOf

\* What an acknowledgement adds to the failures of its row.
LEMMA FailuresAck ==
  ASSUME AuditInv, FailuresCounted, NEW d \in Dispatchers,
         NEW c \in batch[d], NEW row \in OutboxRow, NEW attempt \in AttemptRow,
         Acknowledged(c, row, attempt)
  PROVE  /\ \A e \in EventIds : e # c.outbox_id => FailuresOf(e)' = FailuresOf(e)
         /\ IF row.status = "DELIVERED"
            THEN FailuresOf(c.outbox_id)' = FailuresOf(c.outbox_id)
            ELSE /\ IsFiniteSet(FailuresOf(c.outbox_id)')
                 /\ Cardinality(FailuresOf(c.outbox_id)')
                      = Cardinality(FailuresOf(c.outbox_id)) + 1
<1> DEFINE e == c.outbox_id
<1>1. \A f \in EventIds : f # e => FailuresOf(f)' = FailuresOf(f)
  BY DEF Acknowledged, FailuresOf, AttemptsOf
<1>2. CASE row.status = "DELIVERED"
  <2>1. FailuresOf(e)' = FailuresOf(e)
    BY <1>2 DEF Acknowledged, FailuresOf, AttemptsOf
  <2> QED BY <1>1, <1>2, <2>1
<1>3. CASE row.status # "DELIVERED"
  <2>1. /\ e \in EventIds /\ c.attempts \in Nat
        /\ outbox[e].attempts = c.attempts
    BY ActiveClaimBudget DEF Acknowledged, ClaimActive, AuditInv
  <2>2. \A r \in AttemptsOf(e) : r.attempt_number \in 1..c.attempts
    BY <2>1 DEF AuditInv, AuditTrail
  <2>3. attempt \notin FailuresOf(e)
    BY <2>1, <2>2 DEF Acknowledged, FailuresOf
  <2>4. FailuresOf(e)' = FailuresOf(e) \cup {attempt}
    BY <1>3 DEF Acknowledged, FailuresOf, AttemptsOf, AttemptRow
  <2>5. IsFiniteSet(FailuresOf(e))
    BY <2>1 DEF FailuresCounted
  <2>6. /\ IsFiniteSet(FailuresOf(e)')
        /\ Cardinality(FailuresOf(e)') = Cardinality(FailuresOf(e)) + 1
    BY <2>3, <2>4, <2>5, FS_AddElement
  <2> QED BY <1>1, <1>3, <2>6
<1> QED BY <1>2, <1>3

LEMMA FailuresStep ==
  ASSUME AuditInv, FailuresCounted, [Next]_vars
  PROVE  FailuresCounted'
<1>1. CASE Quiet
  <2>1. \A e \in EventIds : /\ FailuresOf(e)' = FailuresOf(e)
                            /\ outbox'[e].attempts = outbox[e].attempts
                            /\ outbox[e].status = "DELIVERED" => outbox'[e].status = "DELIVERED"
    BY <1>1, FailuresQuiet DEF Quiet, Terminal
  <2> QED BY <2>1 DEF FailuresCounted
<1>2. ASSUME NEW d \in Dispatchers, Acknowledge(d) PROVE FailuresCounted'
  <2>1. PICK c \in batch[d], row \in OutboxRow, attempt \in AttemptRow :
          Acknowledged(c, row, attempt)
    BY <1>2, AckEffect DEF AuditInv
  <2>2. /\ \A e \in EventIds : e # c.outbox_id => FailuresOf(e)' = FailuresOf(e)
        /\ IF row.status = "DELIVERED"
           THEN FailuresOf(c.outbox_id)' = FailuresOf(c.outbox_id)
           ELSE /\ IsFiniteSet(FailuresOf(c.outbox_id)')
                /\ Cardinality(FailuresOf(c.outbox_id)')
                     = Cardinality(FailuresOf(c.outbox_id)) + 1
    BY <2>1, FailuresAck
  <2>3. /\ c.outbox_id \in EventIds
        /\ outbox'[c.outbox_id] = row /\ row.attempts = c.attempts + 1
        /\ outbox[c.outbox_id].attempts = c.attempts
        /\ outbox[c.outbox_id].status = "DELIVERING"
        /\ \A e \in EventIds : e # c.outbox_id => outbox'[e] = outbox[e]
    BY <2>1 DEF Acknowledged, ClaimActive, AuditInv, TypeInv, TypeOK, OutboxTypeOK
  <2> QED BY <2>2, <2>3 DEF FailuresCounted
<1> QED BY <1>1, <1>2, QuietOrAck DEF AuditInv

LEMMA QueueInvInit == Init => QueueInv
<1> SUFFICES ASSUME Init PROVE QueueInv
  OBVIOUS
<1>1. AcceptedInv
  BY AcceptedInit
<1>2. \A e \in EventIds : FailuresOf(e) = {} /\ outbox[e].attempts = 0
  BY DEF Init, OutboxInit, NoRow, FailuresOf, AttemptsOf
<1>3. FailuresCounted
  BY <1>2, FS_EmptySet DEF FailuresCounted
<1>4. ClaimsHaveRows
  BY DEF Init, DispatcherInit, ClaimsHaveRows
<1> QED BY <1>1, <1>3, <1>4, AuditInit, OwnerInit DEF QueueInv

LEMMA QueueInvStep ==
  ASSUME \A a, b \in Dispatchers : a = b
  PROVE  QueueInv /\ [Next]_vars => QueueInv'
<1> SUFFICES ASSUME QueueInv, [Next]_vars PROVE QueueInv'
  OBVIOUS
<1>1. AcceptedInv'
  BY AcceptedStep DEF QueueInv
<1>2. ClaimsHaveRows'
  BY ClaimsHaveRowsStep DEF QueueInv, AuditInv
<1> QED BY <1>1, <1>2, AuditStep, OwnerInvStep, FailuresStep DEF QueueInv

\* The abstract state of an event whose row is r.
Standing(r) ==
  CASE r.status = "ABSENT"       -> "new"
    [] r.status \in Undelivered  -> "queued"
    [] r.status = "DELIVERED"    -> "delivered"
    [] r.status = "DEAD"         -> "dead"

Standings == [e \in EventIds |-> Standing(outbox[e])]
Failures  == [e \in EventIds |-> Cardinality(FailuresOf(e))]

\* A step that keeps every row's standing, its failures and the acceptances is a
\* stutter of the queue.
QueueStutter == Standings' = Standings /\ Failures' = Failures /\ accepted' = accepted

LEMMA QueueUnchanged == QueueStutter => UNCHANGED Queue!vars
BY DEF QueueStutter, Standings, Standing, Failures, Queue!vars

LEMMA StandingOfUndelivered ==
  ASSUME NEW r, r.status \in Undelivered PROVE Standing(r) = "queued"
BY DEF Standing, Undelivered, Waiting

LEMMA StandingOfAbsent ==
  ASSUME NEW r, r.status = "ABSENT" PROVE Standing(r) = "new"
BY DEF Standing, Undelivered, Waiting

LEMMA QueueStep ==
  ASSUME \A a, b \in Dispatchers : a = b, QueueInv, [Next]_vars
  PROVE  [Queue!Next]_Queue!vars
<1> USE DEF QueueInv
<1>types. /\ accepted \in [EventIds -> 0..MaxAcceptances]
          /\ phase \in [Dispatchers -> Phases]
          /\ batch \in [Dispatchers -> SUBSET ClaimedEvent]
          /\ outbox \in [EventIds -> OutboxRow]
  BY DEF AuditInv, TypeInv, TypeOK, OutboxTypeOK
<1>1. ASSUME UNCHANGED <<deliveryAttempts, accepted>>,
             \A e \in EventIds : \/ outbox'[e] = outbox[e]
                                 \/ /\ outbox[e].status \in Undelivered
                                    /\ outbox'[e].status \in Undelivered
      PROVE  QueueStutter
  <2>1. \A e \in EventIds : Standing(outbox'[e]) = Standing(outbox[e])
    BY <1>1, StandingOfUndelivered
  <2>2. \A e \in EventIds : FailuresOf(e)' = FailuresOf(e)
    BY <1>1 DEF FailuresOf, AttemptsOf
  <2>3. Standings' = Standings /\ Failures' = Failures
    BY <2>1, <2>2 DEF Standings, Failures
  <2> QED BY <1>1, <2>3 DEF QueueStutter
<1>2. ASSUME UNCHANGED <<outboxVars, accepted>> PROVE QueueStutter
  BY <1>1, <1>2 DEF outboxVars
<1>3. ASSUME NEW n \in 1..MaxDrafts, Publish(n)
      PROVE  \E S \in SUBSET EventIds : Queue!Enqueue(S)
  <2> PICK now \in 0..clock : InsertOutbox(n, now)
    BY <1>3 DEF Publish
  <2>1. /\ deliveryAttempts' = deliveryAttempts /\ accepted' = accepted
        /\ outbox' = [e \in EventIds |->
                        IF e \in NextIds(n)
                        THEN [status |-> "PENDING", attempts |-> 0, next_attempt_at |-> now]
                        ELSE outbox[e]]
        /\ outboxSeq + n <= MaxEvents
    BY <1>3 DEF Publish, InsertOutbox, dispatcherVars
  <2>2. outboxSeq \in Nat /\ n \in Nat /\ n > 0
    BY BoundsAssumption, MaxEventsAssumption DEF AuditInv, TypeInv, TypeOK, OutboxTypeOK
  <2>3. \A e \in NextIds(n) : e \in EventIds /\ outbox[e] = NoRow
    BY <2>1, <2>2, MaxEventsAssumption DEF NextIds, EventIds, AuditInv, UnusedIds
  <2>4. \A e \in NextIds(n) : Standings[e] = "new"
    BY <2>3, StandingOfAbsent DEF Standings, NoRow
  <2>5. Standings' = [e \in EventIds |-> IF e \in NextIds(n) THEN "queued" ELSE Standings[e]]
    <3>1. \A e \in EventIds : e \in NextIds(n) => outbox'[e].status \in Undelivered
      BY <2>1 DEF Undelivered, Waiting
    <3>2. \A e \in EventIds : e \notin NextIds(n) => outbox'[e] = outbox[e]
      BY <2>1
    <3> QED BY <3>1, <3>2, StandingOfUndelivered DEF Standings
  <2>6. \A e \in EventIds : FailuresOf(e)' = FailuresOf(e)
    BY <2>1 DEF FailuresOf, AttemptsOf
  <2>7. Failures' = Failures
    BY <2>6 DEF Failures
  <2>8. PICK S \in SUBSET EventIds : S = NextIds(n)
    BY <2>3
  <2>9. Queue!Enqueue(S)
    <3>1. /\ \A e \in S : e \in EventIds /\ Standings[e] = "new"
          /\ Standings' = [e \in EventIds |-> IF e \in S THEN "queued" ELSE Standings[e]]
      BY <2>4, <2>5, <2>8
    <3>2. Failures' = Failures /\ accepted' = accepted
      BY <2>1, <2>7
    <3> QED BY <3>1, <3>2 DEF Queue!Enqueue, Standings, Standing, Failures
  <2> QED BY <2>9
<1>4. ASSUME NEW d \in Dispatchers, Recover(d) PROVE QueueStutter
  <2>1. \A e \in EventIds : \/ outbox'[e] = outbox[e]
                            \/ /\ outbox[e].status \in Undelivered
                               /\ outbox'[e].status \in Undelivered
    BY <1>4, <1>types DEF Recover, RecoverInFlight, OutboxRow, Undelivered, Waiting
  <2> QED BY <1>1, <1>4, <2>1 DEF Recover, RecoverInFlight, attemptVars
<1>5. ASSUME NEW d \in Dispatchers, Claim(d) PROVE QueueStutter
  <2>1. \A e \in EventIds : \/ outbox'[e] = outbox[e]
                            \/ /\ outbox[e].status \in Undelivered
                               /\ outbox'[e].status \in Undelivered
    BY <1>5, <1>types, FirstDueWaiting DEF Claim, ClaimDue, OutboxRow, Undelivered, Waiting
  <2> QED BY <1>1, <1>5, <2>1 DEF Claim, ClaimDue, attemptVars
<1>6. ASSUME NEW d \in Dispatchers, SinkAccepts(d)
      PROVE  QueueStutter \/ \E e \in EventIds : Queue!Accept(e)
  <2>1. PICK c \in batch[d] :
          /\ accepted' = [accepted EXCEPT ![c.outbox_id] =
                             IF @ < MaxAcceptances THEN @ + 1 ELSE @]
    BY <1>6 DEF SinkAccepts
  <2>2. UNCHANGED <<outbox, deliveryAttempts>>
    BY <1>6 DEF SinkAccepts, outboxVars
  <2>3. c.outbox_id \in EventIds /\ Standings[c.outbox_id] = "queued"
    BY HeldIsActive DEF ClaimActive, Standings, Standing, Undelivered
  <2>4. Standings' = Standings /\ Failures' = Failures
    BY <2>2 DEF Standings, Standing, Failures, FailuresOf, AttemptsOf
  <2>5. CASE accepted[c.outbox_id] < MaxAcceptances
    <3>1. accepted' = [accepted EXCEPT ![c.outbox_id] = @ + 1]
      BY <2>1, <2>5
    <3>2. Queue!Accept(c.outbox_id)
      BY <2>3, <2>4, <3>1 DEF Queue!Accept, Standings, Standing, Failures
    <3> QED BY <2>3, <3>2
  <2>6. CASE ~(accepted[c.outbox_id] < MaxAcceptances)
    <3>1. accepted' = accepted
      BY <2>1, <2>6, <1>types
    <3> QED BY <2>4, <3>1 DEF QueueStutter
  <2> QED BY <2>5, <2>6
<1>7. ASSUME NEW d \in Dispatchers, Acknowledge(d)
      PROVE  \E e \in EventIds : Queue!Confirm(e) \/ Queue!Fail(e)
  <2>1. PICK c \in batch[d], row \in OutboxRow, attempt \in AttemptRow :
          /\ IsNext(d, c)
          /\ Acknowledged(c, row, attempt)
          /\ Advance(d, c)
          /\ row.status = "DELIVERED" => phase[d] = "succeeded"
    BY <1>7, AckEffect DEF AuditInv
  <2> DEFINE e == c.outbox_id
  <2>2. /\ \A f \in EventIds : f # e => FailuresOf(f)' = FailuresOf(f)
        /\ IF row.status = "DELIVERED"
           THEN FailuresOf(e)' = FailuresOf(e)
           ELSE /\ IsFiniteSet(FailuresOf(e)')
                /\ Cardinality(FailuresOf(e)') = Cardinality(FailuresOf(e)) + 1
    BY <2>1, FailuresAck
  <2>3. /\ e \in EventIds
        /\ outbox' = [outbox EXCEPT ![e] = row]
        /\ outbox[e].status = "DELIVERING"
        /\ outbox[e].attempts = c.attempts
        /\ row.attempts = c.attempts + 1
        /\ row.status \in {"DELIVERED", "DEAD", "RETRY"}
    BY <2>1 DEF Acknowledged, ClaimActive
  <2>4. Standings[e] = "queued"
    BY <2>3 DEF Standings, Standing, Undelivered
  <2>5. Standings' = [Standings EXCEPT ![e] = Standing(row)]
    BY <2>3, <1>types DEF Standings
  <2>6. accepted' = accepted
    BY <2>1 DEF Advance
  <2>7. CASE row.status = "DELIVERED"
    <3>1. Failures' = Failures
      BY <2>2, <2>7 DEF Failures
    <3>2. accepted[e] > 0
      BY <2>1, <2>7 DEF AcceptedInv, SucceededWasAccepted
    <3>3. Standing(row) = "delivered"
      BY <2>7 DEF Standing, Undelivered, Waiting
    <3>4. Queue!Confirm(e)
      BY <2>4, <2>5, <2>6, <3>1, <3>2, <3>3
         DEF Queue!Confirm, Standings, Standing, Failures
    <3> QED BY <2>3, <3>4
  <2>8. CASE row.status # "DELIVERED"
    <3>1. Failures' = [Failures EXCEPT ![e] = @ + 1]
      BY <2>2, <2>3, <2>8 DEF Failures
    <3>2. Failures[e] = c.attempts
      BY <2>3 DEF Failures, FailuresCounted
    <3>3. TypeInv'
      BY TypeStep DEF AuditInv
    <3>4. outbox'[e] = row
      BY <2>3, <1>types
    <3>5. row.status = "DEAD" <=> c.attempts + 1 = MaxAttempts
      <4>1. AttemptBudget' /\ MaxAttempts \in Nat /\ c.attempts \in Nat
        BY <2>3, <3>3, <1>types, MaxAttemptsAssumption DEF TypeInv, OutboxRow
      <4>2. row.status = "DEAD" => row.attempts = MaxAttempts
        BY <2>3, <3>4, <4>1 DEF AttemptBudget
      <4>3. row.status = "RETRY" => row.attempts < MaxAttempts
        BY <2>3, <3>4, <4>1 DEF AttemptBudget, Undelivered, Waiting
      <4> QED BY <2>3, <2>8, <4>1, <4>2, <4>3
    <3>6. Standings' = IF Failures[e] + 1 = MaxAttempts
                       THEN [Standings EXCEPT ![e] = "dead"] ELSE Standings
      <4>1. CASE row.status = "DEAD"
        <5>1. Standing(row) = "dead"
          BY <4>1 DEF Standing, Undelivered, Waiting
        <5> QED BY <2>5, <3>2, <3>5, <4>1, <5>1
      <4>2. CASE row.status # "DEAD"
        <5>1. Standing(row) = "queued"
          BY <2>3, <2>8, <4>2 DEF Standing, Undelivered, Waiting
        <5>2. Standings' = Standings
          BY <2>4, <2>5, <5>1 DEF Standings
        <5> QED BY <3>2, <3>5, <4>2, <5>2
      <4> QED BY <4>1, <4>2
    <3>7. Queue!Fail(e)
      BY <2>4, <2>6, <3>1, <3>6 DEF Queue!Fail, Standings, Standing, Failures
    <3> QED BY <2>3, <3>7
  <2> QED BY <2>7, <2>8
<1>8. Queue!Next \/ QueueStutter
  <2>1. ASSUME NEW n \in 1..MaxDrafts, Publish(n) PROVE Queue!Next
    BY <1>3, <2>1 DEF Queue!Next
  <2>2. ASSUME NEW d \in Dispatchers, SinkAccepts(d) PROVE Queue!Next \/ QueueStutter
    BY <1>6, <2>2 DEF Queue!Next
  <2>3. ASSUME NEW d \in Dispatchers, Acknowledge(d) PROVE Queue!Next
    BY <1>7, <2>3 DEF Queue!Next
  <2> QED BY <1>2, <1>4, <1>5, <2>1, <2>2, <2>3
             DEF Next, Step, Acknowledge, vars, dispatcherVars, Tick, Start, SinkFails, Return,
                 AckLost, RetryUnschedulable, Interrupt, Abort
<1> QED BY <1>8, QueueUnchanged

\* With one owner the outbox and its dispatcher implement the at-least-once
\* queue: an event stays queued until the sink has accepted it or has failed
\* max_attempts times, and is offered only while it is queued.
THEOREM ImplementsQueue ==
  ASSUME \A a, b \in Dispatchers : a = b
  PROVE  Spec => ImplementsAtLeastOnce
<1>1. Init => QueueInv
  BY QueueInvInit
<1>2. QueueInv /\ [Next]_vars => QueueInv'
  BY QueueInvStep
<1>3. Init => Queue!Init
  <2> SUFFICES ASSUME Init PROVE Queue!Init
    OBVIOUS
  <2>1. \A e \in EventIds : FailuresOf(e) = {} /\ outbox[e].status = "ABSENT"
    BY DEF Init, OutboxInit, NoRow, FailuresOf, AttemptsOf
  <2>2. Standings = [e \in EventIds |-> "new"] /\ Failures = [e \in EventIds |-> 0]
    BY <2>1, FS_EmptySet, StandingOfAbsent DEF Standings, Failures
  <2> QED BY <2>2 DEF Queue!Init, Init, DispatcherInit, Standings, Standing, Failures
<1>4. QueueInv /\ [Next]_vars => [Queue!Next]_Queue!vars
  BY QueueStep
<1> QED BY <1>1, <1>2, <1>3, <1>4, PTL DEF Spec, ImplementsAtLeastOnce, Queue!Spec

-----------------------------------------------------------------------------
(* With rows deleted between the steps, as module WatchEngine does. *)

\* purge_before and delete_watch take rows with their attempts and reuse no id.
Remove(E) ==
  /\ outbox' = [e \in EventIds |-> IF e \in E THEN NoRow ELSE outbox[e]]
  /\ deliveryAttempts' = {a \in deliveryAttempts : a.outbox_id \notin E}
  /\ UNCHANGED <<clock, outboxSeq, attemptSeq, dispatcherVars>>

MaintainedNext == Next \/ \E E \in SUBSET EventIds : Remove(E)
MaintainedSpec == Init /\ [][MaintainedNext]_vars

\* A row that is gone stays gone.
LEMMA AbsentStep ==
  ASSUME TypeInv, [Next]_vars, NEW e \in EventIds, e <= outboxSeq,
         outbox[e].status = "ABSENT"
  PROVE  outbox'[e] = outbox[e]
<1>1. ASSUME NEW n \in 1..MaxDrafts, Publish(n) PROVE outbox'[e] = outbox[e]
  <2>1. e \notin NextIds(n)
    BY BoundsAssumption, MaxEventsAssumption DEF NextIds, EventIds, TypeInv, TypeOK, OutboxTypeOK
  <2> QED BY <1>1, <2>1 DEF Publish, InsertOutbox
<1>2. ASSUME NEW d \in Dispatchers, Recover(d) \/ Claim(d) PROVE outbox'[e] = outbox[e]
  BY <1>2, FirstDueWaiting DEF Recover, RecoverInFlight, Claim, ClaimDue, Waiting
<1>3. ASSUME NEW d \in Dispatchers, Acknowledge(d) PROVE outbox'[e] = outbox[e]
  <2>1. PICK c \in batch[d], row \in OutboxRow, attempt \in AttemptRow :
          Acknowledged(c, row, attempt)
    BY <1>3, AckEffect
  <2> QED BY <2>1 DEF Acknowledged, ClaimActive, TypeInv, TypeOK, OutboxTypeOK
<1> QED BY <1>1, <1>2, <1>3
        DEF Next, Step, Acknowledge, vars, outboxVars, Tick, Start, SinkAccepts, SinkFails, AckLost,
            RetryUnschedulable, Return, Interrupt, Abort

LEMMA RemoveRows ==
  ASSUME TypeInv, NEW E, Remove(E)
  PROVE  /\ TypeInv'
         /\ UnusedIds => UnusedIds'
         /\ \A e \in EventIds :
              \/ outbox'[e] = NoRow /\ AttemptsOf(e)' = {}
              \/ outbox'[e] = outbox[e] /\ AttemptsOf(e)' = AttemptsOf(e)
<1> USE DEF Remove
<1>1. NoRow \in OutboxRow
  BY MaxAttemptsAssumption DEF NoRow, OutboxRow
<1>2. TypeOK'
  BY <1>1 DEF TypeInv, TypeOK, OutboxTypeOK, dispatcherVars
<1>3. AttemptBudget' /\ (UnusedIds => UnusedIds')
  BY DEF TypeInv, AttemptBudget, UnusedIds, NoRow, Undelivered, Waiting
<1>4. ASSUME NEW e \in EventIds
      PROVE  \/ outbox'[e] = NoRow /\ AttemptsOf(e)' = {}
             \/ outbox'[e] = outbox[e] /\ AttemptsOf(e)' = AttemptsOf(e)
  BY DEF AttemptsOf
<1> QED BY <1>2, <1>3, <1>4 DEF TypeInv

LEMMA RemoveAudit ==
  ASSUME AuditInv, NEW E, Remove(E)
  PROVE  AuditInv'
<1>1. TypeInv' /\ UnusedIds'
  BY RemoveRows DEF AuditInv
<1>2. ASSUME NEW e \in EventIds
      PROVE  /\ {r.attempt_number : r \in AttemptsOf(e)'} = 1..outbox'[e].attempts
             /\ \A r, s \in AttemptsOf(e)' : r.attempt_number = s.attempt_number => r = s
             /\ \A r \in AttemptsOf(e)' :
                  r.status = "SUCCEEDED" <=>
                    /\ outbox'[e].status = "DELIVERED"
                    /\ r.attempt_number = outbox'[e].attempts
  <2>1. CASE outbox'[e] = NoRow /\ AttemptsOf(e)' = {}
    <3>1. 1..0 = {}
      OBVIOUS
    <3> QED BY <2>1, <3>1 DEF NoRow
  <2>2. CASE outbox'[e] = outbox[e] /\ AttemptsOf(e)' = AttemptsOf(e)
    BY <2>2 DEF AuditInv, AuditTrail
  <2> QED BY <2>1, <2>2, RemoveRows DEF AuditInv
<1>3. AuditTrail'
  BY <1>2 DEF AuditTrail
<1> QED BY <1>1, <1>3 DEF AuditInv

LEMMA RemoveAccepted ==
  ASSUME AcceptedInv, NEW E, Remove(E)
  PROVE  AcceptedInv'
<1>1. TypeInv' /\ UnusedIds'
  BY RemoveRows DEF AcceptedInv
<1>2. UNCHANGED <<phase, batch, accepted>>
  BY DEF Remove, dispatcherVars
<1>3. DeliveredWasAccepted'
  BY <1>2, RemoveRows DEF AcceptedInv, DeliveredWasAccepted, NoRow
<1>4. SucceededWasAccepted'
  BY <1>2 DEF AcceptedInv, SucceededWasAccepted, IsNext
<1> QED BY <1>1, <1>3, <1>4 DEF AcceptedInv

LEMMA RemoveOrphan ==
  ASSUME OrphanInv, NEW E, Remove(E)
  PROVE  OrphanInv'
<1>1. TypeInv'
  BY RemoveRows DEF OrphanInv
<1>2. UNCHANGED <<phase, recovered, batch>>
  BY DEF Remove, dispatcherVars
<1>3. NothingHeld'
  BY <1>2 DEF OrphanInv, NothingHeld
<1>4. ASSUME NEW e \in EventIds, outbox'[e].status = "DELIVERING"
      PROVE  \E d \in Dispatchers : Covers(d, e)'
  <2>1. outbox'[e] = outbox[e]
    BY <1>4, RemoveRows DEF OrphanInv, NoRow
  <2>2. \E d \in Dispatchers : Covers(d, e)
    BY <1>4, <2>1 DEF OrphanInv, NoOrphanedClaim, WithStatus, Covers
  <2> QED BY <1>2, <2>1, <2>2 DEF Covers
<1>5. NoOrphanedClaim'
  BY <1>4 DEF NoOrphanedClaim, WithStatus, Covers
<1> QED BY <1>1, <1>3, <1>5 DEF OrphanInv

LEMMA RemoveBackoff ==
  ASSUME BackoffInv, NEW E, Remove(E)
  PROVE  BackoffInv'
<1>1. AuditInv'
  BY RemoveAudit DEF BackoffInv
<1>2. UNCHANGED <<clock, claimTime>>
  BY DEF Remove, dispatcherVars
<1>3. ClaimTimePast'
  BY <1>2 DEF BackoffInv, ClaimTimePast
<1>4. ASSUME NEW e \in EventIds PROVE RowBackoff(e)'
  <2>1. RowBackoff(e)
    BY RowBackoffAll DEF BackoffInv
  <2> QED BY <1>2, <2>1, RemoveRows DEF BackoffInv, AuditInv, RowBackoff, Due
<1>5. (WaitsForBackoff /\ BackoffHonoured <=> \A e \in EventIds : RowBackoff(e))'
  BY DEF WaitsForBackoff, BackoffHonoured, RowBackoff, WithStatus, Due, Waiting
<1> QED BY <1>1, <1>3, <1>4, <1>5 DEF BackoffInv

\* The rules of delivery also hold while rows are deleted between the transactions
\* of the dispatchers, whichever rows those are.
THEOREM MaintainedCorrect ==
  MaintainedSpec => [](/\ AttemptBudget /\ AuditTrail /\ DeliveredWasAccepted
                       /\ NoOrphanedClaim /\ BackoffHonoured)
<1> DEFINE Inv  == AuditInv /\ AcceptedInv /\ OrphanInv /\ BackoffInv
           Safe == /\ AttemptBudget /\ AuditTrail /\ DeliveredWasAccepted
                   /\ NoOrphanedClaim /\ BackoffHonoured
<1>1. Init => Inv
  BY AuditInit, AcceptedInit, OrphanInit, BackoffInit
<1>2. Inv /\ [MaintainedNext]_vars => Inv'
  BY AuditStep, AcceptedStep, OrphanInvStep, BackoffInvStep, RemoveAudit, RemoveAccepted,
     RemoveOrphan, RemoveBackoff DEF MaintainedNext
<1>3. Inv => Safe
  BY DEF AuditInv, TypeInv, AcceptedInv, OrphanInv, BackoffInv
<1> QED BY <1>1, <1>2, <1>3, PTL DEF MaintainedSpec

LEMMA RemoveOwner ==
  ASSUME OwnerInv, NEW E, Remove(E)
  PROVE  OwnerInv'
<1> DEFINE W == WithStatus({"DELIVERING"})
<1>1. /\ TypeInv' /\ UnusedIds'
      /\ UNCHANGED <<phase, recovered, batch, outboxSeq>>
  BY RemoveRows DEF OwnerInv, Remove, dispatcherVars
<1>2. NothingHeld' /\ RecoversFirst' /\ ClaimsGivenOut'
  BY <1>1 DEF OwnerInv, NothingHeld, RecoversFirst, ClaimsGivenOut
<1>3. W' \subseteq W /\ \A e \in W' : outbox'[e] = outbox[e]
  BY RemoveRows DEF OwnerInv, WithStatus, NoRow
<1>4. ClaimsOf(W)' \subseteq ClaimsOf(W)
  BY <1>3 DEF ClaimsOf
<1>5. ASSUME NEW d \in Dispatchers, recovered[d], NEW c \in batch[d]
      PROVE  ClaimActive(c)' \/ outbox'[c.outbox_id].status = "ABSENT"
  <2>1. c.outbox_id \in EventIds
    BY DEF OwnerInv, TypeInv, TypeOK, ClaimedEvent
  <2> QED BY <1>5, <2>1, RemoveRows DEF OwnerInv, HoldsWhatIsInFlight, ClaimActive, NoRow
<1>6. HoldsWhatIsInFlight'
  BY <1>1, <1>4, <1>5 DEF OwnerInv, HoldsWhatIsInFlight
<1>7. InFlightBounded'
  BY <1>3, SmallerInFlight DEF OwnerInv
<1> QED BY <1>1, <1>2, <1>6, <1>7 DEF OwnerInv

LEMMA RemoveDuplicate ==
  ASSUME DuplicateInv, NEW E, Remove(E)
  PROVE  DuplicateInv'
<1>1. OwnerInv' /\ UNCHANGED <<phase, batch, accepted, interruptions, outboxSeq>>
  BY RemoveOwner DEF DuplicateInv, Remove, dispatcherVars
<1>2. OneClaimEach' /\ DuplicatesNeedInterruptions'
  BY <1>1 DEF DuplicateInv, OneClaimEach, DuplicatesNeedInterruptions
<1>3. ASSUME NEW e \in EventIds
      PROVE  (BeingConfirmed(e) => BeingConfirmed(e)') /\ (Settled(e) => Settled(e)')
  <2>1. outbox'[e] = outbox[e] \/ outbox'[e].status = "ABSENT"
    BY RemoveRows DEF DuplicateInv, OwnerInv, NoRow
  <2> QED BY <1>1, <2>1 DEF BeingConfirmed, IsNext, Settled
<1>4. LastAcceptanceCounts'
  BY <1>1, <1>3 DEF DuplicateInv, LastAcceptanceCounts
<1> QED BY <1>1, <1>2, <1>4 DEF DuplicateInv

\* With one owner, deletions neither let a second batch into flight nor make the sink
\* see an accepted event again.
THEOREM MaintainedOwner ==
  ASSUME \A a, b \in Dispatchers : a = b
  PROVE  MaintainedSpec => [](InFlightBounded /\ DuplicatesNeedInterruptions)
<1>1. Init => DuplicateInv
  BY DuplicateInit
<1>2. DuplicateInv /\ [MaintainedNext]_vars => DuplicateInv'
  BY DuplicateInvStep, RemoveDuplicate DEF MaintainedNext
<1>3. DuplicateInv => InFlightBounded /\ DuplicatesNeedInterruptions
  BY DEF DuplicateInv, OwnerInv
<1> QED BY <1>1, <1>2, <1>3, PTL DEF MaintainedSpec

\* Terminal rows and recorded attempts change only by being deleted, a row with its
\* attempts, and no event comes back under the id of a deleted one.
HistoryOnlyShrinks ==
  [][ \A e \in EventIds :
        /\ outbox[e].status \in Terminal => outbox'[e] = outbox[e] \/ outbox'[e] = NoRow
        /\ \/ AttemptsOf(e) \subseteq AttemptsOf(e)'
           \/ outbox'[e] = NoRow /\ AttemptsOf(e)' = {}
        /\ e <= outboxSeq /\ outbox[e] = NoRow => outbox'[e] = NoRow ]_vars

\* A late acknowledgement of an overlapping or interrupted dispatcher neither rewrites
\* history nor revives a row that a purge or a deletion took.
THEOREM MaintainedHistory == MaintainedSpec => HistoryOnlyShrinks
<1> DEFINE Shrinks ==
      \A e \in EventIds :
        /\ outbox[e].status \in Terminal => outbox'[e] = outbox[e] \/ outbox'[e] = NoRow
        /\ \/ AttemptsOf(e) \subseteq AttemptsOf(e)'
           \/ outbox'[e] = NoRow /\ AttemptsOf(e)' = {}
        /\ e <= outboxSeq /\ outbox[e] = NoRow => outbox'[e] = NoRow
<1>1. ASSUME AuditInv, [Next]_vars, NEW e \in EventIds
      PROVE  /\ outbox[e].status \in Terminal => outbox'[e] = outbox[e]
             /\ AttemptsOf(e) \subseteq AttemptsOf(e)'
             /\ e <= outboxSeq /\ outbox[e] = NoRow => outbox'[e] = NoRow
  <2>1. deliveryAttempts \subseteq deliveryAttempts'
        /\ (outbox[e].status \in Terminal => outbox'[e] = outbox[e])
    BY <1>1, HistoryStep DEF WithStatus
  <2>2. ASSUME e <= outboxSeq, outbox[e] = NoRow PROVE outbox'[e] = NoRow
    BY <1>1, <2>2, AbsentStep DEF AuditInv, NoRow
  <2> QED BY <2>1, <2>2 DEF AttemptsOf
<1>2. ASSUME AuditInv, NEW E, Remove(E), NEW e \in EventIds
      PROVE  /\ outbox'[e] = outbox[e] \/ outbox'[e] = NoRow
             /\ \/ AttemptsOf(e)' = AttemptsOf(e)
                \/ outbox'[e] = NoRow /\ AttemptsOf(e)' = {}
  BY <1>2, RemoveRows DEF AuditInv
<1>3. AuditInv /\ [MaintainedNext]_vars => [Shrinks]_vars
  BY <1>1, <1>2 DEF MaintainedNext
<1>4. AuditInv /\ [MaintainedNext]_vars => AuditInv'
  BY AuditStep, RemoveAudit DEF MaintainedNext
<1> QED BY <1>3, <1>4, AuditInit, PTL DEF MaintainedSpec, HistoryOnlyShrinks
=============================================================================
