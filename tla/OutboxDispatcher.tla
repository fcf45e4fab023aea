--------------------------- MODULE OutboxDispatcher ---------------------------
(***************************************************************************)
(* OutboxDispatcher.dispatch_ready (delivery.py) over the outbox, for a    *)
(* set of dispatchers on one database.  The supported deployment has one   *)
(* owner at a time (Dispatchers a singleton); the module also describes    *)
(* overlapping ones, where the compare-and-set of the acknowledgements is  *)
(* all that protects the rows.                                             *)
(*                                                                         *)
(* One dispatcher is one thread of control; `phase' is its position in     *)
(* dispatch_ready.  Its steps are the transactions and the sink calls, so  *)
(* every interleaving of those, and an interruption between any two, is a  *)
(* behaviour of Spec.                                                      *)
(***************************************************************************)
EXTENDS OutboxStore

CONSTANTS
  Dispatchers,       \* the dispatcher objects that share the database
  RetryDelay,        \* delay_for_failure, by failure number (module RetryPolicy)
  MaxDate,           \* datetime.max: no later instant can be represented
  MaxDrafts,         \* bound: events inserted by one transaction
  MaxInterruptions,  \* bound: how often a dispatcher is cut short
  MaxAcceptances,    \* bound: where the history `accepted' stops counting
  IdleClock          \* bound: how far the clock runs with nothing to wait for

ASSUME RetryDelayAssumption == RetryDelay \in [1..MaxAttempts -> Nat]
ASSUME MaxDateAssumption    == MaxDate \in Nat
ASSUME BoundsAssumption     == /\ MaxDrafts \in Nat
                               /\ MaxInterruptions \in Nat
                               /\ MaxAcceptances \in Nat \ {0}
                               /\ IdleClock \in Nat

VARIABLES
  phase,          \* where each dispatcher is in dispatch_ready
  recovered,      \* its _recovered attribute
  claimTime,      \* its local claim_time
  batch,          \* the claimed events it has not finished with
  accepted,       \* history: how often the sink returned None for an event,
                  \* counted up to MaxAcceptances
  interruptions   \* history: how often a dispatcher was cut short

dispatcherVars == <<phase, recovered, claimTime, batch, accepted, interruptions>>
vars           == <<clock, outboxVars, dispatcherVars>>

Phases == {"idle", "recover", "claim", "deliver", "succeeded", "failed"}

TypeOK ==
  /\ OutboxTypeOK
  /\ phase \in [Dispatchers -> Phases]
  /\ recovered \in [Dispatchers -> BOOLEAN]
  /\ claimTime \in [Dispatchers -> Nat]
  /\ batch \in [Dispatchers -> SUBSET ClaimedEvent]
  /\ accepted \in [EventIds -> 0..MaxAcceptances]
  /\ interruptions \in 0..MaxInterruptions

DispatcherInit ==
  /\ phase = [d \in Dispatchers |-> "idle"]
  /\ recovered = [d \in Dispatchers |-> FALSE]
  /\ claimTime = [d \in Dispatchers |-> 0]
  /\ batch = [d \in Dispatchers |-> {}]
  /\ accepted = [e \in EventIds |-> 0]
  /\ interruptions = 0

Init == OutboxInit /\ DispatcherInit

-----------------------------------------------------------------------------
(* Outside dispatch_ready: promotions that queue events, and time. *)

\* A promotion (storage.py) commits between one and MaxDrafts events, due since the
\* time that record_observation read before its transactions.
Publish(n) ==
  /\ \E now \in 0..clock : InsertOutbox(n, now)
  /\ UNCHANGED <<clock, dispatcherVars>>

\* Time passes freely up to IdleClock, and beyond it while a row waits.
Tick ==
  /\ \/ clock < IdleClock
     \/ \E e \in WithStatus(Waiting) : clock < outbox[e].next_attempt_at
  /\ clock' = clock + 1
  /\ UNCHANGED <<outboxVars, dispatcherVars>>

-----------------------------------------------------------------------------
(* dispatch_ready *)

\* Mutant: the call claims without recovering first.
Start_NeverRecovers(d) ==
  /\ phase[d] = "idle"
  /\ claimTime' = [claimTime EXCEPT ![d] = clock]
  /\ phase' = [phase EXCEPT ![d] = "claim"]
  /\ UNCHANGED <<clock, outboxVars, recovered, batch, accepted, interruptions>>

\* The call: claim_time is read once, and used for recovery and claim both.
Start(d) ==
  /\ phase[d] = "idle"
  /\ claimTime' = [claimTime EXCEPT ![d] = clock]
  /\ phase' = [phase EXCEPT ![d] = IF recovered[d] THEN "claim" ELSE "recover"]
  /\ UNCHANGED <<clock, outboxVars, recovered, batch, accepted, interruptions>>

Recover(d) ==
  /\ phase[d] = "recover"
  /\ RecoverInFlight(claimTime[d])
  /\ recovered' = [recovered EXCEPT ![d] = TRUE]
  /\ phase' = [phase EXCEPT ![d] = "claim"]
  /\ UNCHANGED <<clock, claimTime, batch, accepted, interruptions>>

Claim(d) ==
  /\ phase[d] = "claim"
  /\ ClaimDue(claimTime[d])
  /\ batch' = [batch EXCEPT ![d] = ClaimsOf(FirstDue(claimTime[d]))]
  /\ phase' = [phase EXCEPT ![d] = "deliver"]
  /\ UNCHANGED <<clock, recovered, claimTime, accepted, interruptions>>

\* `for claimed in claimed_events': ascending outbox_id.
IsNext(d, c) == c \in batch[d] /\ \A o \in batch[d] : c.outbox_id <= o.outbox_id

\* Mutant: the check of the sink's result is inverted.
SinkAccepts_ThenFails(d) ==
  /\ phase[d] = "deliver"
  /\ \E c \in batch[d] :
       /\ IsNext(d, c)
       /\ accepted' = [accepted EXCEPT ![c.outbox_id] =
                         IF @ < MaxAcceptances THEN @ + 1 ELSE @]
  /\ phase' = [phase EXCEPT ![d] = "failed"]
  /\ UNCHANGED <<clock, outboxVars, recovered, claimTime, batch, interruptions>>

\* sink.deliver returned None: the sink has the event.
SinkAccepts(d) ==
  /\ phase[d] = "deliver"
  /\ \E c \in batch[d] :
       /\ IsNext(d, c)
       /\ accepted' = [accepted EXCEPT ![c.outbox_id] =
                         IF @ < MaxAcceptances THEN @ + 1 ELSE @]
  /\ phase' = [phase EXCEPT ![d] = "succeeded"]
  /\ UNCHANGED <<clock, outboxVars, recovered, claimTime, batch, interruptions>>

\* Mutant: the sink's result is not checked.
SinkFails_Unnoticed(d) ==
  /\ phase[d] = "deliver"
  /\ batch[d] # {}
  /\ phase' = [phase EXCEPT ![d] = "succeeded"]
  /\ UNCHANGED <<clock, outboxVars, recovered, claimTime, batch, accepted, interruptions>>

\* sink.deliver raised an Exception, or returned something else than None.
SinkFails(d) ==
  /\ phase[d] = "deliver"
  /\ batch[d] # {}
  /\ phase' = [phase EXCEPT ![d] = "failed"]
  /\ UNCHANGED <<clock, outboxVars, recovered, claimTime, batch, accepted, interruptions>>

\* The loop is done with c.
Advance(d, c) ==
  /\ batch' = [batch EXCEPT ![d] = @ \ {c}]
  /\ phase' = [phase EXCEPT ![d] = "deliver"]
  /\ UNCHANGED <<clock, recovered, claimTime, accepted, interruptions>>

AckSuccess(d) ==
  /\ phase[d] = "succeeded"
  /\ \E c \in batch[d] :
       /\ IsNext(d, c)
       /\ RecordDeliverySuccess(c, clock)
       /\ Advance(d, c)

\* Mutant: every retry waits as long as the first.
RetryAt_FirstDelay(c) == clock + RetryDelay[1]

RetryAt(c) == clock + RetryDelay[c.attempts + 1]

\* Mutant: delivery is given up one failure too early.
AckDead_OneEarly(d) ==
  /\ phase[d] = "failed"
  /\ \E c \in batch[d] :
       /\ IsNext(d, c)
       /\ c.attempts + 2 >= MaxAttempts
       /\ RecordDeliveryFailure(c, Null, clock)
       /\ Advance(d, c)

\* failure_number = max_attempts: retry_at stays None.
AckDead(d) ==
  /\ phase[d] = "failed"
  /\ \E c \in batch[d] :
       /\ IsNext(d, c)
       /\ c.attempts + 1 >= MaxAttempts
       /\ RecordDeliveryFailure(c, Null, clock)
       /\ Advance(d, c)

\* Mutant: one retry too many.
AckRetry_OneMore(d) ==
  /\ phase[d] = "failed"
  /\ \E c \in batch[d] :
       /\ IsNext(d, c)
       /\ c.attempts + 1 <= MaxAttempts
       /\ RetryAt(c) <= MaxDate
       /\ RecordDeliveryFailure(c, RetryAt(c), clock)
       /\ Advance(d, c)

AckRetry(d) ==
  /\ phase[d] = "failed"
  /\ \E c \in batch[d] :
       /\ IsNext(d, c)
       /\ c.attempts + 1 < MaxAttempts
       /\ RetryAt(c) <= MaxDate
       /\ RecordDeliveryFailure(c, RetryAt(c), clock)
       /\ Advance(d, c)

\* Mutant: the flag is not reset when the call is cut short.
Abort_StaysRecovered(d) ==
  /\ phase' = [phase EXCEPT ![d] = "idle"]
  /\ batch' = [batch EXCEPT ![d] = {}]
  /\ UNCHANGED <<clock, outboxVars, recovered, claimTime, accepted>>

\* The `finally' of a dispatch_ready that did not complete.
Abort(d) ==
  /\ phase' = [phase EXCEPT ![d] = "idle"]
  /\ recovered' = [recovered EXCEPT ![d] = FALSE]
  /\ batch' = [batch EXCEPT ![d] = {}]
  /\ UNCHANGED <<clock, outboxVars, claimTime, accepted>>

\* An acknowledgement that finds its claim gone raises RuntimeError.
AckLost(d) ==
  /\ phase[d] \in {"succeeded", "failed"}
  /\ \E c \in batch[d] : IsNext(d, c) /\ ~ClaimActive(c)
  /\ Abort(d)
  /\ UNCHANGED interruptions

\* completed_at + timedelta(...) raises OverflowError before the failure is
\* recorded, and nothing between it and the `finally' handles it.
RetryUnschedulable(d) ==
  /\ phase[d] = "failed"
  /\ \E c \in batch[d] :
       /\ IsNext(d, c)
       /\ c.attempts + 1 < MaxAttempts
       /\ RetryAt(c) > MaxDate
  /\ Abort(d)
  /\ UNCHANGED interruptions

Return(d) ==
  /\ phase[d] = "deliver"
  /\ batch[d] = {}
  /\ phase' = [phase EXCEPT ![d] = "idle"]
  /\ UNCHANGED <<clock, outboxVars, recovered, claimTime, batch, accepted, interruptions>>

\* A clock, a transaction or the decoding of a claimed row raised, a
\* BaseException passed through, or the process died and a new dispatcher
\* object replaced this one: in each case _recovered is False afterwards.
Interrupt(d) ==
  /\ phase[d] # "idle"
  /\ interruptions < MaxInterruptions
  /\ interruptions' = interruptions + 1
  /\ Abort(d)

Step(d) ==
  \/ Start(d)
  \/ Recover(d)
  \/ Claim(d)
  \/ SinkAccepts(d)
  \/ SinkFails(d)
  \/ AckSuccess(d)
  \/ AckDead(d)
  \/ AckRetry(d)
  \/ AckLost(d)
  \/ RetryUnschedulable(d)
  \/ Return(d)

Next ==
  \/ \E n \in 1..MaxDrafts : Publish(n)
  \/ Tick
  \/ \E d \in Dispatchers : Step(d) \/ Interrupt(d)

\* The application keeps calling dispatch_ready and every call makes progress;
\* the clock moves while a retry is waiting.  Nothing is promised of the
\* publisher, of the sink's verdicts or of interruptions.
Fairness == WF_vars(Tick) /\ \A d \in Dispatchers : WF_vars(Step(d))

Spec     == Init /\ [][Next]_vars
FairSpec == Spec /\ Fairness

-----------------------------------------------------------------------------
(* Safety, for any number of dispatchers. *)

AttemptsOf(e) == {r \in deliveryAttempts : r.outbox_id = e}

\* The delivery_attempts of a row are numbered 1..attempts without a gap or a
\* repetition, and the one that SUCCEEDED is the last one of a DELIVERED row:
\* two racing acknowledgements never both count.
AuditTrail ==
  \A e \in EventIds :
    /\ {r.attempt_number : r \in AttemptsOf(e)} = 1..outbox[e].attempts
    /\ \A r, s \in AttemptsOf(e) : r.attempt_number = s.attempt_number => r = s
    /\ \A r \in AttemptsOf(e) :
         r.status = "SUCCEEDED" <=>
           outbox[e].status = "DELIVERED" /\ r.attempt_number = outbox[e].attempts

\* No row is marked DELIVERED unless the sink has returned None for its event.
DeliveredWasAccepted ==
  \A e \in EventIds : outbox[e].status = "DELIVERED" => accepted[e] > 0

\* Delivery is given up exactly when max_attempts failures are recorded, and no
\* row that still waits or is in flight has used up its attempts, however often
\* calls were interrupted in between.
AttemptBudget ==
  \A e \in EventIds :
    /\ outbox[e].status = "DEAD" => outbox[e].attempts = MaxAttempts
    /\ outbox[e].status \in Undelivered => outbox[e].attempts < MaxAttempts

\* A DELIVERING row is being worked on under the claim that matches it, or some
\* dispatcher will run recover_in_flight before it claims again: no row is stuck
\* in DELIVERING (the comment in dispatch_ready's `finally').
NoOrphanedClaim ==
  \A e \in WithStatus({"DELIVERING"}) :
    \E d \in Dispatchers :
      \/ ~recovered[d]
      \/ [outbox_id |-> e, attempts |-> outbox[e].attempts] \in batch[d]

\* No event is redelivered before its backoff is over: whatever recovery did to
\* next_attempt_at, a row in flight waited RetryDelay after its last failure.
BackoffHonoured ==
  \A e \in WithStatus({"DELIVERING"}) : \A r \in AttemptsOf(e) :
    r.attempted_at + RetryDelay[r.attempt_number] <= clock

\* A terminal row never changes again, and the attempt history only grows: a late
\* acknowledgement of an overlapping or interrupted dispatcher rewrites nothing.
HistoryIsFinal ==
  [][ /\ deliveryAttempts \subseteq deliveryAttempts'
      /\ \A e \in WithStatus(Terminal) : outbox'[e] = outbox[e] ]_vars

\* Once the dispatcher has caught a sink failure under an active claim, the
\* failure is recorded as an attempt unless the call is interrupted.
FailureRecorded ==
  [][ \A d \in Dispatchers :
        ( /\ phase[d] = "failed" /\ phase'[d] # "failed"
          /\ \E c \in batch[d] : IsNext(d, c) /\ ClaimActive(c)
          /\ interruptions' = interruptions )
        => deliveryAttempts' # deliveryAttempts ]_vars

-----------------------------------------------------------------------------
(* Safety that relies on a single owner (Dispatchers a singleton). *)

\* At most one batch is in flight: what an interrupted call claimed is recovered
\* before anything else is claimed.
InFlightBounded == Cardinality(WithStatus({"DELIVERING"})) <= BatchSize

\* The sink sees an event again after accepting it only if an acknowledgement was
\* cut off: each further acceptance costs an interruption.
DuplicatesNeedInterruptions ==
  \A e \in EventIds : accepted[e] <= interruptions + 1

-----------------------------------------------------------------------------
(* Liveness, under FairSpec. *)

\* Every queued event ends DELIVERED or DEAD, through finitely many interruptions.
EveryEventSettles ==
  \A e \in EventIds :
    (outbox[e].status \in Undelivered) ~> (outbox[e].status \in Terminal)
=============================================================================
