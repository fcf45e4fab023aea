--------------------------- MODULE WatchEngineProofs ---------------------------
(***************************************************************************)
(* Theorems about WatchEngine: what holds between the tables while runs,   *)
(* dispatchers, purges and deletions interleave, for every set of watches, *)
(* runs and dispatchers and every value of the other constants.            *)
(***************************************************************************)
EXTENDS WatchEngine, EvidenceStoreProofs

-----------------------------------------------------------------------------
(* The components' steps in the vocabulary of the engine. *)

\* A step of run r that writes no evidence: it moves on, and returns only from a
\* promotion that was stale.
RunQuiet(r) ==
  /\ UNCHANGED <<outboxVars, evidenceVars>>
  /\ observed' = observed \/ runPhase[r] = "observing"
  /\ \/ runPhase' = runPhase
     \/ /\ runPhase' = [runPhase EXCEPT ![r] = "returned"]
        /\ Stored(r) /\ Stale(r)
     \/ \E p \in {"persisting", "erroring", "raised", "unmarked", "dead"} :
          runPhase' = [runPhase EXCEPT ![r] = p]

\* A step that sets the run_status of r's watch.
RunMarks(r) ==
  /\ MarkRunStarted(WatchOf[r]) \/ MarkRunError(WatchOf[r])
  /\ \E p \in {"observing", "raised"} : runPhase' = [runPhase EXCEPT ![r] = p]
  /\ UNCHANGED <<outboxVars, observations, authority, events, ledger>>

RunPersists(r) ==
  /\ PersistObservation(r, observed[r], runTime[r])
  /\ runPhase' = [runPhase EXCEPT ![r] =
                    IF observed[r].status = "VALID" THEN "promoting" ELSE "returned"]
  /\ UNCHANGED outboxVars

RunPromotes(r, n) ==
  /\ runPhase[r] = "promoting"
  /\ PromoteValidObservation(r, n, runTime[r])
  /\ runPhase' = [runPhase EXCEPT ![r] = "returned"]

RunTypeOK ==
  /\ runPhase \in [Runs -> {"idle"} \cup Runtime!Active \cup Runtime!Finished]
  /\ observed \in [Runs -> Observation]
  /\ runTime \in [Runs -> Nat]

LEMMA RunStepKinds ==
  ASSUME NEW r \in Runs, Run(r), RunTypeOK, clock \in Nat
  PROVE  /\ RunTypeOK'
         /\ UNCHANGED <<clock, dispatcherVars>>
         /\ \/ RunQuiet(r)
            \/ RunMarks(r)
            \/ RunPersists(r)
            \/ \E n \in 0..MaxDrafts : RunPromotes(r, n)
<1> USE DEF Runtime!GoTo
<1>1. /\ Runtime!Stored(r) <=> Stored(r)
      /\ Runtime!Stale(r) <=> Stale(r)
      /\ Runtime!MarkRunStarted(WatchOf[r]) <=> MarkRunStarted(WatchOf[r])
      /\ Runtime!MarkRunError(WatchOf[r]) <=> MarkRunError(WatchOf[r])
  BY DEF Runtime!Stored, Stored, Runtime!Stale, Stale, Runtime!Previous, Previous,
         Runtime!MarkRunStarted, MarkRunStarted, Runtime!MarkRunError, MarkRunError,
         Runtime!Ensured, Ensured
<1>2. Runtime!PersistObservation(r, observed[r], runTime[r])
        <=> PersistObservation(r, observed[r], runTime[r])
  BY DEF Runtime!PersistObservation, PersistObservation, Runtime!Stored, Stored,
         Runtime!Ensured, Ensured
<1>3. \A n \in 0..MaxDrafts : Runtime!PromoteValidObservation(r, n, runTime[r])
        <=> PromoteValidObservation(r, n, runTime[r])
  <2>1. \A n \in 0..MaxDrafts : \A now : Runtime!InsertOutbox(n, now) <=> InsertOutbox(n, now)
    BY DEF Runtime!InsertOutbox, InsertOutbox, Runtime!attemptVars, attemptVars,
           Runtime!NextIds, NextIds, Runtime!EventIds, EventIds
  <2> QED BY <1>1, <2>1
             DEF Runtime!PromoteValidObservation, PromoteValidObservation, Runtime!Previous,
                 Previous, Runtime!Stored, Stored, Runtime!EventIds, EventIds, Runtime!NextIds, NextIds
<1>4. /\ UNCHANGED Runtime!outboxVars => UNCHANGED outboxVars
      /\ UNCHANGED Runtime!evidenceVars => UNCHANGED evidenceVars
  BY DEF Runtime!outboxVars, outboxVars, Runtime!attemptVars, attemptVars,
         Runtime!evidenceVars, evidenceVars
<1>5. r \in Runs /\ UNCHANGED <<clock, dispatcherVars>> /\ Runtime!RunStep(r)
  BY DEF Run
<1> USE DEF RunTypeOK, Runtime!Active, Runtime!Finished
<1>6. CASE Runtime!StartRun(r)
  <2>1. RunMarks(r)
    BY <1>1, <1>4, <1>6 DEF Runtime!StartRun, RunMarks
  <2> QED BY <1>5, <1>6, <2>1 DEF Runtime!StartRun
<1>7. ASSUME NEW observation \in Observation, runPhase[r] = "observing",
             Runtime!Observed(r, observation)
      PROVE  RunTypeOK' /\ RunQuiet(r)
  <2>1. RunQuiet(r)
    BY <1>4, <1>7 DEF Runtime!Observed, RunQuiet
  <2> QED BY <1>5, <1>7, <2>1 DEF Runtime!Observed
<1>8. CASE Runtime!ObserverReturns(r)
  BY <1>5, <1>7, <1>8, EngineAssumption
     DEF Runtime!ObserverReturns, Observation, Runtime!Statuses, Statuses
<1>9. CASE Runtime!ObserverGivesUp(r)
  BY <1>5, <1>7, <1>9 DEF Runtime!ObserverGivesUp, Observation, Statuses
<1>10. CASE Runtime!ObserverRetries(r)
  BY <1>4, <1>5, <1>10 DEF Runtime!ObserverRetries, RunQuiet
<1>11. CASE \/ Runtime!StartFails(r) \/ Runtime!ObserveBreaks(r) \/ Runtime!PersistFails(r)
            \/ Runtime!PromoteMissing(r) \/ Runtime!PromoteFails(r)
            \/ Runtime!MarkErrorFails(r) \/ Runtime!Die(r)
  <2>1. /\ UNCHANGED <<outboxVars, evidenceVars, observed, runTime>>
        /\ \E p \in {"erroring", "raised", "unmarked", "dead"} :
             runPhase' = [runPhase EXCEPT ![r] = p]
    BY <1>4, <1>11
       DEF Runtime!StartFails, Runtime!ObserveBreaks, Runtime!PersistFails,
           Runtime!PromoteMissing, Runtime!PromoteFails, Runtime!MarkErrorFails, Runtime!Die
  <2> QED BY <1>5, <2>1 DEF RunQuiet
<1>12. CASE Runtime!PromoteStale(r)
  <2>1. RunQuiet(r)
    BY <1>1, <1>4, <1>12 DEF Runtime!PromoteStale, RunQuiet
  <2> QED BY <1>5, <1>12, <2>1 DEF Runtime!PromoteStale
<1>13. CASE Runtime!Persist(r)
  <2>1. RunPersists(r)
    BY <1>2, <1>4, <1>13 DEF Runtime!Persist, RunPersists
  <2> QED BY <1>5, <1>13, <2>1 DEF Runtime!Persist
<1>14. CASE Runtime!Promote(r)
  <2>1. \E n \in 0..MaxDrafts : RunPromotes(r, n)
    BY <1>3, <1>14 DEF Runtime!Promote, RunPromotes
  <2> QED BY <1>5, <1>14, <2>1 DEF Runtime!Promote
<1>15. CASE Runtime!MarkError(r)
  <2>1. RunMarks(r)
    BY <1>1, <1>4, <1>15 DEF Runtime!MarkError, RunMarks
  <2> QED BY <1>5, <1>15, <2>1 DEF Runtime!MarkError
<1> QED BY <1>5, <1>6, <1>8, <1>9, <1>10, <1>11, <1>12, <1>13, <1>14, <1>15
       DEF Runtime!RunStep, Runtime!Continue

\* A step of dispatcher d that leaves the tables alone.
DispatchQuiet(d) ==
  /\ UNCHANGED outboxVars
  /\ \/ UNCHANGED <<phase, batch>>
     \/ /\ phase[d] = "deliver"
        /\ phase' = [phase EXCEPT ![d] = "idle"] /\ batch[d] = {} /\ batch' = batch
     \/ /\ phase[d] = "deliver" /\ batch' = batch
        /\ \E p \in {"succeeded", "failed"} : phase' = [phase EXCEPT ![d] = p]
     \/ /\ phase[d] = "idle" /\ batch' = batch
        /\ \E p \in {"recover", "claim"} : phase' = [phase EXCEPT ![d] = p]
     \/ /\ phase' = [phase EXCEPT ![d] = "idle"]
        /\ batch' = [batch EXCEPT ![d] = {}]

DispatchRecovers(d) ==
  /\ phase[d] = "recover"
  /\ RecoverInFlight(claimTime[d])
  /\ phase' = [phase EXCEPT ![d] = "claim"]
  /\ batch' = batch

DispatchClaims(d) ==
  /\ phase[d] = "claim"
  /\ ClaimDue(claimTime[d])
  /\ phase' = [phase EXCEPT ![d] = "deliver"]
  /\ batch' = [batch EXCEPT ![d] = ClaimsOf(FirstDue(claimTime[d]))]

DispatchAcks(d, c, retryAt) ==
  /\ phase[d] \in {"succeeded", "failed"}
  /\ \/ RecordDeliverySuccess(c, clock)
     \/ /\ RecordDeliveryFailure(c, retryAt, clock)
        /\ retryAt # Null => c.attempts + 1 < MaxAttempts
  /\ phase' = [phase EXCEPT ![d] = "deliver"]
  /\ batch' = [batch EXCEPT ![d] = @ \ {c}]

DispatcherTypeOK ==
  /\ phase \in [Dispatchers -> Dispatch!Phases]
  /\ claimTime \in [Dispatchers -> Nat]
  /\ batch \in [Dispatchers -> SUBSET ClaimedEvent]

LEMMA StoreIsShared ==
  /\ \A now \in Nat :
       /\ Dispatch!RecoverInFlight(now) <=> RecoverInFlight(now)
       /\ Dispatch!ClaimDue(now) <=> ClaimDue(now)
       /\ Dispatch!ClaimsOf(Dispatch!FirstDue(now)) = ClaimsOf(FirstDue(now))
  /\ \A c \in ClaimedEvent : Dispatch!ClaimActive(c) <=> ClaimActive(c)
  /\ \A c \in ClaimedEvent :
       Dispatch!RecordDeliverySuccess(c, clock) <=> RecordDeliverySuccess(c, clock)
  /\ \A c \in ClaimedEvent, retryAt \in Nat \cup {Null} :
       Dispatch!RecordDeliveryFailure(c, retryAt, clock) <=> RecordDeliveryFailure(c, retryAt, clock)
<1> USE DEF Dispatch!EventIds, EventIds, Dispatch!attemptVars, attemptVars, Dispatch!Waiting,
            Waiting, Dispatch!Null, Null
<1>1. ASSUME NEW now \in Nat PROVE Dispatch!FirstDue(now) = FirstDue(now)
  <2>1. Dispatch!DueAt(now) = DueAt(now)
    BY DEF Dispatch!DueAt, DueAt, Dispatch!WithStatus, WithStatus
  <2>2. \A S : Dispatch!Cardinality(S) = Cardinality(S)
    BY Zenon DEF Dispatch!Cardinality, Cardinality
  <2> QED BY <2>1, <2>2 DEF Dispatch!FirstDue, FirstDue
<1>2. ASSUME NEW now \in Nat
      PROVE  /\ Dispatch!RecoverInFlight(now) <=> RecoverInFlight(now)
             /\ Dispatch!ClaimDue(now) <=> ClaimDue(now)
             /\ Dispatch!ClaimsOf(Dispatch!FirstDue(now)) = ClaimsOf(FirstDue(now))
  BY <1>1 DEF Dispatch!RecoverInFlight, RecoverInFlight, Dispatch!ClaimDue, ClaimDue,
              Dispatch!ClaimsOf, ClaimsOf
<1>3. ASSUME NEW c \in ClaimedEvent PROVE Dispatch!ClaimActive(c) <=> ClaimActive(c)
  BY DEF Dispatch!ClaimActive, ClaimActive
<1>4. ASSUME NEW c \in ClaimedEvent, NEW retryAt \in Nat \cup {Null}
      PROVE  /\ Dispatch!RecordDeliverySuccess(c, clock) <=> RecordDeliverySuccess(c, clock)
             /\ Dispatch!RecordDeliveryFailure(c, retryAt, clock)
                  <=> RecordDeliveryFailure(c, retryAt, clock)
  BY <1>3 DEF Dispatch!RecordDeliverySuccess, RecordDeliverySuccess, Dispatch!InsertAttempt,
              InsertAttempt, Dispatch!RecordDeliveryFailure, RecordDeliveryFailure
<1> QED BY <1>2, <1>3, <1>4

LEMMA DispatchStepKinds ==
  ASSUME NEW d \in Dispatchers, Dispatch!Step(d) \/ Dispatch!Interrupt(d),
         OutboxInv, DispatcherTypeOK
  PROVE  /\ DispatcherTypeOK'
         /\ clock' = clock
         /\ \/ DispatchQuiet(d)
            \/ DispatchRecovers(d)
            \/ DispatchClaims(d)
            \/ \E c \in batch[d], retryAt \in Nat \cup {Null} : DispatchAcks(d, c, retryAt)
<1> USE DEF DispatcherTypeOK, Dispatch!Phases
<1>1. UNCHANGED Dispatch!outboxVars => UNCHANGED outboxVars
  BY DEF Dispatch!outboxVars, outboxVars, Dispatch!attemptVars, attemptVars
<1>2. clock \in Nat /\ claimTime[d] \in Nat
  BY DEF OutboxInv, OutboxTypeOK
<1>3. CASE Dispatch!Start(d)
  BY <1>1, <1>2, <1>3 DEF Dispatch!Start, DispatchQuiet
<1>4. CASE Dispatch!SinkAccepts(d) \/ Dispatch!SinkFails(d) \/ Dispatch!Return(d)
  BY <1>1, <1>4 DEF Dispatch!SinkAccepts, Dispatch!SinkFails, Dispatch!Return, DispatchQuiet
<1>5. CASE Dispatch!AckLost(d) \/ Dispatch!RetryUnschedulable(d) \/ Dispatch!Interrupt(d)
  <2>1. Dispatch!Abort(d)
    BY <1>5 DEF Dispatch!AckLost, Dispatch!RetryUnschedulable, Dispatch!Interrupt
  <2> QED BY <1>1, <2>1 DEF Dispatch!Abort, DispatchQuiet
<1>6. CASE Dispatch!Recover(d)
  BY <1>2, <1>6, StoreIsShared DEF Dispatch!Recover, DispatchRecovers
<1>7. CASE Dispatch!Claim(d)
  <2>1. DispatchClaims(d)
    BY <1>2, <1>7, StoreIsShared DEF Dispatch!Claim, DispatchClaims
  <2>2. ClaimsOf(FirstDue(claimTime[d])) \subseteq ClaimedEvent
    BY <1>2, <2>1, ClaimEffect DEF DispatchClaims
  <2>3. UNCHANGED <<clock, claimTime>>
    BY <1>7 DEF Dispatch!Claim
  <2>4. DispatcherTypeOK'
    BY <2>1, <2>2, <2>3 DEF DispatchClaims
  <2> QED BY <2>1, <2>3, <2>4
<1>8. ASSUME NEW c \in batch[d], Dispatch!Advance(d, c)
      PROVE  /\ DispatcherTypeOK' /\ clock' = clock
             /\ phase' = [phase EXCEPT ![d] = "deliver"]
             /\ batch' = [batch EXCEPT ![d] = @ \ {c}]
  BY <1>8 DEF Dispatch!Advance
<1>9. CASE Dispatch!AckSuccess(d)
  <2>1. PICK c \in batch[d] : Dispatch!RecordDeliverySuccess(c, clock) /\ Dispatch!Advance(d, c)
    BY <1>9 DEF Dispatch!AckSuccess
  <2>2. RecordDeliverySuccess(c, clock)
    BY <2>1, StoreIsShared
  <2>3. DispatchAcks(d, c, Null)
    BY <1>8, <1>9, <2>1, <2>2 DEF Dispatch!AckSuccess, DispatchAcks
  <2> QED BY <1>8, <2>1, <2>3
<1>10. CASE Dispatch!AckDead(d)
  <2>1. PICK c \in batch[d] :
          Dispatch!RecordDeliveryFailure(c, Dispatch!Null, clock) /\ Dispatch!Advance(d, c)
    BY <1>10 DEF Dispatch!AckDead
  <2>2. RecordDeliveryFailure(c, Null, clock)
    BY <2>1, StoreIsShared DEF Dispatch!Null, Null
  <2>3. DispatchAcks(d, c, Null)
    BY <1>8, <1>10, <2>1, <2>2 DEF Dispatch!AckDead, DispatchAcks
  <2> QED BY <1>8, <2>1, <2>3
<1>11. CASE Dispatch!AckRetry(d)
  <2>1. PICK c \in batch[d] :
          /\ c.attempts + 1 < MaxAttempts
          /\ Dispatch!RecordDeliveryFailure(c, Dispatch!RetryAt(c), clock)
          /\ Dispatch!Advance(d, c)
    BY <1>11 DEF Dispatch!AckRetry
  <2>2. Dispatch!RetryAt(c) \in Nat
    BY <1>2, <2>1, MaxAttemptsAssumption, EngineAssumption DEF Dispatch!RetryAt, ClaimedEvent
  <2>3. RecordDeliveryFailure(c, Dispatch!RetryAt(c), clock)
    BY <2>1, <2>2, StoreIsShared
  <2>4. DispatchAcks(d, c, Dispatch!RetryAt(c))
    BY <1>8, <1>11, <2>1, <2>3 DEF Dispatch!AckRetry, DispatchAcks
  <2> QED BY <1>8, <2>1, <2>2, <2>4
<1> QED BY <1>3, <1>4, <1>5, <1>6, <1>7, <1>9, <1>10, <1>11 DEF Dispatch!Step

-----------------------------------------------------------------------------
(* The inductive invariant. *)

\* A run about to promote stored a VALID observation; it may have been purged or
\* deleted since.
PromotingValid ==
  \A r \in Runs : runPhase[r] = "promoting" /\ Stored(r) => observations[r].status = "VALID"

EngineTypeInv == OutboxInv /\ EvidenceTypeOK /\ RunTypeOK /\ DispatcherTypeOK

EngineInv == EngineTypeInv /\ ReferencesResolve /\ PromotingValid /\ AuthorityCoversStored

LEMMA EngineInitInv == Init => EngineInv
<1> SUFFICES ASSUME Init PROVE EngineInv
  OBVIOUS
<1>1. OutboxInv /\ EvidenceTypeOK
  BY OutboxInitInv, EvidenceInitType DEF Init
<1>2. RunTypeOK
  BY DEF Init, Runtime!RuntimeInit, RunTypeOK, Observation, Statuses
<1>3. DispatcherTypeOK
  BY DEF Init, Dispatch!DispatcherInit, DispatcherTypeOK, Dispatch!Phases
<1>4. ReferencesResolve
  BY DEF Init, OutboxInit, EvidenceInit, ReferencesResolve, Exists, Stored, NoRow, NoEvent,
         NoObservation
<1>5. PromotingValid /\ AuthorityCoversStored
  BY DEF Init, EvidenceInit, PromotingValid, AuthorityCoversStored, Stored, NoObservation
<1> QED BY <1>1, <1>2, <1>3, <1>4, <1>5 DEF EngineInv, EngineTypeInv

-----------------------------------------------------------------------------
(* Types, and what every step does to the tables. *)

LEMMA DropInv ==
  ASSUME OutboxInv, NEW E, DropEvents(E), clock' = clock
  PROVE  OutboxInv'
<1>1. NoRow \in OutboxRow
  BY MaxAttemptsAssumption DEF NoRow, OutboxRow
<1>2. OutboxTypeOK'
  BY <1>1 DEF DropEvents, OutboxInv, OutboxTypeOK
<1>3. UnusedIds' /\ BudgetLeft'
  BY DEF DropEvents, OutboxInv, UnusedIds, BudgetLeft, NoRow, Undelivered, Waiting
<1>4. AttemptsHaveRows'
  BY DEF DropEvents, OutboxInv, OutboxTypeOK, AttemptRow, AttemptsHaveRows
<1> QED BY <1>2, <1>3, <1>4 DEF OutboxInv

\* A dispatcher moves rows, but neither inserts nor removes any.
LEMMA DispatchRows ==
  ASSUME EngineTypeInv, NEW d \in Dispatchers, clock' = clock,
         \/ DispatchQuiet(d) \/ DispatchRecovers(d) \/ DispatchClaims(d)
         \/ \E c \in batch[d], retryAt \in Nat \cup {Null} : DispatchAcks(d, c, retryAt)
  PROVE  /\ OutboxInv'
         /\ \A e \in EventIds : Exists(e)' <=> Exists(e)
<1>1. clock \in Nat /\ claimTime[d] \in Nat /\ OutboxInv
  BY DEF EngineTypeInv, OutboxInv, OutboxTypeOK, DispatcherTypeOK
<1>2. CASE DispatchQuiet(d)
  <2>1. UNCHANGED <<clock, outbox, outboxSeq, deliveryAttempts, attemptSeq>>
    BY <1>2 DEF DispatchQuiet, outboxVars, attemptVars
  <2> QED BY <1>1, <2>1, StatusStepInv DEF Exists, OutboxInv, OutboxTypeOK
<1>3. CASE DispatchRecovers(d)
  <2>1. RecoverInFlight(claimTime[d])
    BY <1>3 DEF DispatchRecovers
  <2>2. OutboxInv'
    BY <1>1, <2>1, RecoverEffect, StatusStepInv DEF Undelivered, Waiting
  <2> QED BY <1>1, <2>1, <2>2, RecoverEffect DEF Exists
<1>4. CASE DispatchClaims(d)
  <2>1. ClaimDue(claimTime[d])
    BY <1>4 DEF DispatchClaims
  <2>2. OutboxInv'
    BY <1>1, <2>1, ClaimEffect, StatusStepInv DEF Undelivered
  <2> QED BY <1>1, <2>1, <2>2, ClaimEffect DEF Exists, Waiting
<1>5. ASSUME NEW c \in batch[d], NEW retryAt \in Nat \cup {Null}, DispatchAcks(d, c, retryAt)
      PROVE  OutboxInv' /\ \A e \in EventIds : Exists(e)' <=> Exists(e)
  <2>1. c \in ClaimedEvent
    BY DEF EngineTypeInv, DispatcherTypeOK
  <2>2. PICK row \in OutboxRow, attempt \in AttemptRow : Acknowledged(c, row, attempt)
    BY <1>1, <1>5, <2>1, AckEffect DEF DispatchAcks
  <2>3. OutboxInv'
    BY <1>1, <2>1, <2>2, AckInv
  <2> QED BY <1>1, <2>1, <2>2, <2>3
             DEF Acknowledged, ClaimActive, ClaimedEvent, Exists, OutboxInv, OutboxTypeOK
<1> QED BY <1>2, <1>3, <1>4, <1>5

\* Steps of the dispatchers and of the clock.
OutboxStep ==
  /\ UNCHANGED <<evidenceVars, runVars>>
  /\ \A e \in EventIds : Exists(e)' <=> Exists(e)

RunKinds(r) ==
  \/ RunQuiet(r)
  \/ RunMarks(r)
  \/ RunPersists(r)
  \/ \E n \in 0..MaxDrafts : RunPromotes(r, n)

\* A purge or a deletion.
Maintains ==
  \/ \E cutoff \in Nat, scope \in SUBSET WatchIds : PurgeBefore(cutoff, scope)
  \/ \E w \in WatchIds : DeleteRows(w)

\* The types of everything a run does not own, or has not changed.
LEMMA RunTypes ==
  ASSUME EngineTypeInv, NEW r \in Runs, RunKinds(r), clock' = clock
  PROVE  OutboxInv' /\ EvidenceTypeOK'
<1>1. /\ OutboxInv /\ EvidenceTypeOK /\ WatchOf[r] \in WatchIds
      /\ observed[r] \in Observation /\ runTime[r] \in Nat
  BY RunsAssumption DEF EngineTypeInv, RunTypeOK
<1>2. UNCHANGED outboxVars => OutboxInv'
  <2>1. UNCHANGED outboxVars => UNCHANGED <<clock, outbox, outboxSeq, deliveryAttempts, attemptSeq>>
    BY DEF outboxVars, attemptVars
  <2> QED BY <1>1, <2>1, StatusStepInv DEF OutboxInv, OutboxTypeOK
<1>3. CASE RunQuiet(r)
  BY <1>1, <1>2, <1>3 DEF RunQuiet, evidenceVars, EvidenceTypeOK
<1>4. CASE RunMarks(r)
  <2>1. watches' \in [WatchIds -> WatchRow]
    BY <1>1, <1>4, WatchesType DEF RunMarks
  <2> QED BY <1>1, <1>2, <1>4, <2>1 DEF RunMarks, EvidenceTypeOK, WatchRow
<1>5. CASE RunPersists(r)
  <2>1. watches' \in [WatchIds -> WatchRow]
    BY <1>1, <1>5, WatchesType DEF RunPersists
  <2>2. observations' \in [Runs -> [status : Statuses \cup {"ABSENT"},
                                    observed_at : Nat, created_at : Nat]]
    BY <1>1, <1>5 DEF RunPersists, PersistObservation, Observation, EvidenceTypeOK
  <2> QED BY <1>1, <1>2, <1>5, <2>1, <2>2
             DEF RunPersists, PersistObservation, EvidenceTypeOK, WatchRow
<1>6. ASSUME NEW n \in 0..MaxDrafts, RunPromotes(r, n) PROVE OutboxInv' /\ EvidenceTypeOK'
  <2>1. n \in Nat /\ PromoteValidObservation(r, n, runTime[r])
    BY <1>6, EngineAssumption DEF RunPromotes
  <2>2. OutboxInv'
    BY <1>1, <2>1, InsertOutboxInv DEF PromoteValidObservation
  <2>3. EvidenceTypeOK'
    BY <1>1, <2>1, PromoteType DEF PromoteValidObservation, EvidenceTypeOK, OutboxInv
  <2> QED BY <2>2, <2>3
<1> QED BY <1>3, <1>4, <1>5, <1>6 DEF RunKinds

LEMMA MaintainTypes ==
  ASSUME EngineTypeInv, Maintains, clock' = clock
  PROVE  OutboxInv' /\ EvidenceTypeOK'
<1> USE DEF EngineTypeInv, EvidenceTypeOK
<1>1. /\ NoObservation \in [status : Statuses \cup {"ABSENT"}, observed_at : Nat, created_at : Nat]
      /\ NoEvent \in [run : Runs \cup {None}, created_at : Nat]
      /\ NoWatch \in WatchRow
  BY DEF NoObservation, NoEvent, NoWatch, WatchRow
<1>2. ASSUME NEW E, DropEvents(E)
      PROVE  OutboxInv' /\ events' \in [EventIds -> [run : Runs \cup {None}, created_at : Nat]]
  <2>1. OutboxInv'
    BY <1>2, DropInv
  <2> QED BY <1>1, <1>2, <2>1 DEF DropEvents
<1>3. ASSUME NEW R, DropObservations(R)
      PROVE  observations' \in [Runs -> [status : Statuses \cup {"ABSENT"},
                                         observed_at : Nat, created_at : Nat]]
  BY <1>1, <1>3 DEF DropObservations
<1>4. ASSUME NEW cutoff \in Nat, NEW scope \in SUBSET WatchIds, PurgeBefore(cutoff, scope)
      PROVE  OutboxInv' /\ EvidenceTypeOK'
  BY <1>2, <1>3, <1>4 DEF PurgeBefore
<1>5. ASSUME NEW w \in WatchIds, DeleteRows(w)
      PROVE  OutboxInv' /\ EvidenceTypeOK'
  BY <1>1, <1>2, <1>3, <1>5 DEF DeleteRows, WatchRow
<1> QED BY <1>4, <1>5 DEF Maintains

\* Every step preserves the types, and is of one of three kinds.
LEMMA NextKinds ==
  ASSUME EngineTypeInv, [Next]_vars
  PROVE  /\ EngineTypeInv'
         /\ \/ OutboxStep
            \/ \E r \in Runs : RunKinds(r) /\ UNCHANGED <<clock, dispatcherVars>>
            \/ Maintain /\ Maintains /\ UNCHANGED <<clock, runVars, dispatcherVars>>
<1>1. clock \in Nat
  BY DEF EngineTypeInv, OutboxInv, OutboxTypeOK
<1>2. UNCHANGED dispatcherVars /\ DispatcherTypeOK => DispatcherTypeOK'
  BY DEF dispatcherVars, DispatcherTypeOK
<1>3. UNCHANGED runVars /\ RunTypeOK => RunTypeOK'
  BY DEF runVars, RunTypeOK
<1>4. UNCHANGED evidenceVars /\ EvidenceTypeOK => EvidenceTypeOK'
  BY DEF evidenceVars, EvidenceTypeOK
<1>5. ASSUME NEW r \in Runs, Run(r)
      PROVE  EngineTypeInv' /\ RunKinds(r) /\ UNCHANGED <<clock, dispatcherVars>>
  BY <1>1, <1>2, <1>5, RunStepKinds, RunTypes DEF EngineTypeInv, RunKinds
<1>6. ASSUME NEW d \in Dispatchers, Dispatch!Step(d) \/ Dispatch!Interrupt(d),
             UNCHANGED <<evidenceVars, runVars>>
      PROVE  EngineTypeInv' /\ OutboxStep
  BY <1>3, <1>4, <1>6, DispatchStepKinds, DispatchRows DEF EngineTypeInv, OutboxStep
<1>7. ASSUME Tick \/ UNCHANGED vars PROVE EngineTypeInv' /\ OutboxStep
  <2>1. /\ clock' \in Nat
        /\ UNCHANGED <<outbox, outboxSeq, deliveryAttempts, attemptSeq>>
        /\ UNCHANGED <<evidenceVars, runVars, dispatcherVars>>
    BY <1>1, <1>7
       DEF Tick, Dispatch!Tick, vars, outboxVars, attemptVars, Dispatch!outboxVars,
           Dispatch!attemptVars, Dispatch!dispatcherVars, dispatcherVars
  <2>2. OutboxInv => OutboxInv'
    BY <2>1 DEF OutboxInv, OutboxTypeOK, UnusedIds, BudgetLeft, AttemptsHaveRows
  <2> QED BY <1>2, <1>3, <1>4, <2>1, <2>2 DEF EngineTypeInv, OutboxStep, Exists
<1>8. ASSUME Maintain, UNCHANGED <<clock, runVars, dispatcherVars>>
      PROVE  EngineTypeInv' /\ Maintains
  <2>1. Maintains
    BY <1>1, <1>8 DEF Maintain, Maintains, DeleteWatch
  <2> QED BY <1>2, <1>3, <1>8, <2>1, MaintainTypes DEF EngineTypeInv
<1> QED BY <1>5, <1>6, <1>7, <1>8 DEF Next, DispatchStep

-----------------------------------------------------------------------------
(* References between the tables, and the authority. *)

\* What the authority of a watch is, and what _read_authoritative finds.
LEMMA AuthorityFacts ==
  ASSUME EngineInv, NEW w \in WatchIds
  PROVE  /\ Previous(w) = authority[w]
         /\ authority[w] # None =>
              /\ authority[w] \in Runs
              /\ WatchOf[authority[w]] = w
              /\ Stored(authority[w])
              /\ observations[authority[w]].status = "VALID"
BY DEF EngineInv, EngineTypeInv, EvidenceTypeOK, ReferencesResolve, Previous, Stored

\* Watches only ever disappear by a deletion.
LEMMA WatchesStay ==
  ASSUME EngineInv, NEW r \in Runs, RunKinds(r), NEW w \in WatchIds,
         watches[w].run_status # "ABSENT"
  PROVE  watches'[w].run_status # "ABSENT"
<1>1. WatchOf[r] \in WatchIds /\ watches \in [WatchIds -> WatchRow]
  BY RunsAssumption DEF EngineInv, EngineTypeInv, EvidenceTypeOK, WatchRow
<1>2. CASE RunQuiet(r) \/ \E n \in 0..MaxDrafts : RunPromotes(r, n)
  BY <1>2 DEF RunQuiet, RunPromotes, PromoteValidObservation, evidenceVars
<1>3. CASE RunPersists(r)
  BY <1>1, <1>3 DEF RunPersists, PersistObservation
<1>4. CASE RunMarks(r) /\ w # WatchOf[r]
  BY <1>1, <1>4 DEF RunMarks, MarkRunStarted, MarkRunError
<1>5. CASE RunMarks(r) /\ w = WatchOf[r] /\ MarkRunStarted(w)
  <2>1. /\ Ensured(w) = watches[w]
        /\ watches' = [watches EXCEPT ![w] = [Ensured(w) EXCEPT !.run_status = "RUNNING"]]
    BY <1>5 DEF MarkRunStarted, Ensured
  <2>2. watches' = [watches EXCEPT ![w] = [watches[w] EXCEPT !.run_status = "RUNNING"]]
    BY <2>1, Zenon
  <2> QED BY <1>1, <2>2 DEF WatchRow
<1>6. CASE RunMarks(r) /\ w = WatchOf[r] /\ MarkRunError(w)
  <2>1. watches' = [watches EXCEPT ![w] = [watches[w] EXCEPT !.run_status =
                      IF watches[w].run_status = "ABSENT" THEN watches[w].run_status ELSE "ERROR"]]
    BY <1>6, Zenon DEF MarkRunError
  <2>2. watches' = [watches EXCEPT ![w] = [watches[w] EXCEPT !.run_status = "ERROR"]]
    BY <2>1
  <2> QED BY <1>1, <2>2 DEF WatchRow
<1> QED BY <1>2, <1>3, <1>4, <1>5, <1>6 DEF RunKinds, RunMarks

LEMMA RunReferences ==
  ASSUME EngineInv, NEW r \in Runs, RunKinds(r), EngineTypeInv'
  PROVE  ReferencesResolve'
<1> USE DEF EngineInv, EngineTypeInv, EvidenceTypeOK
<1>1. WatchOf \in [Runs -> WatchIds] /\ None \notin Runs
  BY RunsAssumption
<1>2. \A e \in EventIds : Exists(e) => events[e].run \in Runs /\ WatchOfEvent(e) \in WatchIds
  BY <1>1 DEF ReferencesResolve, WatchOfEvent
<1>3. CASE RunQuiet(r) \/ RunMarks(r)
  <2>1. UNCHANGED <<outbox, deliveryAttempts, observations, authority, events>>
    BY <1>3 DEF RunQuiet, RunMarks, outboxVars, attemptVars, evidenceVars
  <2>2. \A w \in WatchIds : watches[w].run_status # "ABSENT" => watches'[w].run_status # "ABSENT"
    BY WatchesStay
  <2> QED BY <1>1, <1>2, <2>1, <2>2 DEF ReferencesResolve, Exists, WatchOfEvent, Stored
<1>4. CASE RunPersists(r)
  <2>1. /\ UNCHANGED <<outbox, deliveryAttempts, authority, events>>
        /\ ~Stored(r)
        /\ \A q \in Runs \ {r} : observations'[q] = observations[q]
        /\ watches'[WatchOf[r]].run_status = "IDLE"
    BY <1>1, <1>4 DEF RunPersists, PersistObservation, outboxVars, attemptVars
  <2>2. \A w \in WatchIds : watches[w].run_status # "ABSENT" => watches'[w].run_status # "ABSENT"
    BY WatchesStay DEF RunKinds
  <2>3. \A e \in EventIds : Exists(e)' <=> Exists(e)
    BY <2>1 DEF Exists
  <2>4. \A w \in WatchIds : authority[w] # None => authority[w] \in Runs \ {r}
    BY <2>1, AuthorityFacts
  <2>5. ASSUME NEW q \in Runs, Stored(q)' PROVE watches'[WatchOf[q]].run_status # "ABSENT"
    <3>1. CASE q = r
      BY <2>1, <3>1
    <3>2. CASE q # r
      <4>1. Stored(q) /\ WatchOf[q] \in WatchIds
        BY <1>1, <2>1, <2>5, <3>2 DEF Stored
      <4> QED BY <2>2, <4>1 DEF ReferencesResolve
    <3> QED BY <3>1, <3>2
  <2> QED BY <1>1, <1>2, <2>1, <2>2, <2>3, <2>4, <2>5 DEF ReferencesResolve, Exists, WatchOfEvent
<1>5. ASSUME NEW n \in 0..MaxDrafts, RunPromotes(r, n) PROVE ReferencesResolve'
  <2>1. n \in Nat /\ runTime[r] \in Nat
    BY EngineAssumption DEF RunTypeOK
  <2>2. /\ InsertOutbox(n, runTime[r])
        /\ Stored(r) /\ observations[r].status = "VALID"
        /\ UNCHANGED <<watches, observations>>
        /\ authority' = [authority EXCEPT ![WatchOf[r]] = r]
        /\ events' = [e \in EventIds |-> IF e \in NextIds(n)
                                         THEN [run |-> r, created_at |-> runTime[r]]
                                         ELSE events[e]]
    BY <1>5 DEF RunPromotes, PromoteValidObservation, PromotingValid
  <2>3. \A e \in EventIds : Exists(e)' <=> e \in NextIds(n) \/ Exists(e)
    <3>1. OutboxInv
      OBVIOUS
    <3> HIDE DEF EngineInv, EngineTypeInv, EvidenceTypeOK
    <3>2. \A e \in EventIds :
            outbox'[e] = IF e \in NextIds(n)
                         THEN [status |-> "PENDING", attempts |-> 0, next_attempt_at |-> runTime[r]]
                         ELSE outbox[e]
      BY <2>1, <2>2, <3>1, InsertOutboxEffect
    <3> QED BY <3>2 DEF Exists
  <2>4. \A e \in EventIds :
          /\ Exists(e)' <=> events'[e].run # None
          /\ Exists(e)' => watches'[WatchOfEvent(e)'].run_status # "ABSENT"
    BY <1>1, <2>2, <2>3 DEF ReferencesResolve, WatchOfEvent
  <2>5. \A a \in deliveryAttempts' : Exists(a.outbox_id)'
    BY DEF OutboxInv, AttemptsHaveRows, Exists
  <2>6. \A q \in Runs : Stored(q)' => watches'[WatchOf[q]].run_status # "ABSENT"
    BY <2>2 DEF ReferencesResolve, Stored
  <2>7. \A w \in WatchIds : authority'[w] # None =>
          WatchOf[authority'[w]] = w /\ observations'[authority'[w]].status = "VALID"
    BY <1>1, <2>2 DEF ReferencesResolve
  <2> QED BY <2>4, <2>5, <2>6, <2>7 DEF ReferencesResolve
<1> QED BY <1>3, <1>4, <1>5 DEF RunKinds

\* A purge spares the authorities; a deletion takes everything of its watch.
LEMMA MaintainReferences ==
  ASSUME EngineInv, Maintains, EngineTypeInv'
  PROVE  ReferencesResolve'
<1> USE DEF EngineInv, EngineTypeInv, EvidenceTypeOK
<1>1. WatchOf \in [Runs -> WatchIds] /\ None \notin Runs
  BY RunsAssumption
<1>2. \A a \in deliveryAttempts' : Exists(a.outbox_id)'
  BY DEF OutboxInv, AttemptsHaveRows, Exists
<1>3. ASSUME NEW E, DropEvents(E)
      PROVE  \A e \in EventIds :
               /\ Exists(e)' <=> Exists(e) /\ e \notin E
               /\ e \notin E => events'[e] = events[e]
               /\ Exists(e)' <=> events'[e].run # None
  BY <1>3 DEF DropEvents, Exists, NoRow, NoEvent, ReferencesResolve
<1>4. ASSUME NEW R, DropObservations(R)
      PROVE  \A r \in Runs :
               /\ Stored(r)' <=> Stored(r) /\ r \notin R
               /\ r \notin R => observations'[r] = observations[r]
  BY <1>4 DEF DropObservations, Stored, NoObservation
<1>5. ASSUME NEW cutoff \in Nat, NEW scope \in SUBSET WatchIds, PurgeBefore(cutoff, scope)
      PROVE  ReferencesResolve'
  <2>1. UNCHANGED <<watches, authority>>
    BY <1>5 DEF PurgeBefore
  <2>2. \A e \in EventIds :
          /\ Exists(e)' <=> events'[e].run # None
          /\ Exists(e)' => Exists(e) /\ events'[e] = events[e]
    BY <1>3, <1>5 DEF PurgeBefore
  <2>3. PICK R : DropObservations(R) /\ \A r \in R : \A w \in WatchIds : authority[w] # r
    BY <1>5 DEF PurgeBefore
  <2>4. \A r \in Runs : Stored(r)' => Stored(r)
    BY <1>4, <2>3
  <2>5. \A w \in WatchIds : authority[w] # None =>
          observations'[authority[w]] = observations[authority[w]]
    BY <1>4, <2>3
  <2> QED BY <1>2, <2>1, <2>2, <2>4, <2>5 DEF ReferencesResolve, WatchOfEvent
<1>6. ASSUME NEW w \in WatchIds, DeleteRows(w)
      PROVE  ReferencesResolve'
  <2>1. /\ authority' = [authority EXCEPT ![w] = None]
        /\ watches' = [watches EXCEPT ![w] = NoWatch]
        /\ DropEvents(EventsOfWatch(w))
        /\ DropObservations({r \in Runs : WatchOf[r] = w})
    BY <1>6 DEF DeleteRows
  <2>2. \A e \in EventIds :
          /\ Exists(e)' <=> events'[e].run # None
          /\ Exists(e)' => Exists(e) /\ WatchOfEvent(e) # w /\ events'[e] = events[e]
    BY <1>3, <2>1 DEF EventsOfWatch
  <2>3. \A r \in Runs : /\ Stored(r)' => Stored(r) /\ WatchOf[r] # w
                        /\ WatchOf[r] # w => observations'[r] = observations[r]
    BY <1>4, <2>1
  <2>4. \A v \in WatchIds : v # w => watches'[v] = watches[v] /\ authority'[v] = authority[v]
    BY <2>1
  <2>5. \A e \in EventIds : Exists(e)' => watches'[WatchOfEvent(e)'].run_status # "ABSENT"
    BY <1>1, <2>2, <2>4 DEF ReferencesResolve, WatchOfEvent
  <2>6. \A v \in WatchIds : authority'[v] # None =>
          WatchOf[authority'[v]] = v /\ observations'[authority'[v]].status = "VALID"
    <3> SUFFICES ASSUME NEW v \in WatchIds, authority'[v] # None
                 PROVE  WatchOf[authority'[v]] = v /\ observations'[authority'[v]].status = "VALID"
      OBVIOUS
    <3>1. v # w
      BY <2>1
    <3>2. authority'[v] = authority[v] /\ authority[v] # None
      BY <2>4, <3>1
    <3>3. /\ authority[v] \in Runs /\ WatchOf[authority[v]] = v
          /\ observations[authority[v]].status = "VALID"
      BY <3>2, AuthorityFacts
    <3>4. observations'[authority[v]] = observations[authority[v]]
      BY <2>3, <3>1, <3>3
    <3> QED BY <3>2, <3>3, <3>4
  <2>7. \A r \in Runs : Stored(r)' => watches'[WatchOf[r]].run_status # "ABSENT"
    BY <1>1, <2>3, <2>4 DEF ReferencesResolve
  <2> QED BY <1>2, <2>2, <2>5, <2>6, <2>7 DEF ReferencesResolve
<1> QED BY <1>5, <1>6 DEF Maintains

LEMMA ReferencesStep ==
  ASSUME EngineInv, [Next]_vars
  PROVE  ReferencesResolve'
<1>1. EngineTypeInv /\ EngineTypeInv'
  BY NextKinds DEF EngineInv
<1>2. CASE OutboxStep
  <2>1. \A a \in deliveryAttempts' : Exists(a.outbox_id)'
    BY <1>1 DEF EngineTypeInv, OutboxInv, AttemptsHaveRows, Exists
  <2> QED BY <1>2, <2>1 DEF OutboxStep, evidenceVars, EngineInv, ReferencesResolve, WatchOfEvent, Stored
<1> QED BY <1>1, <1>2, NextKinds, RunReferences, MaintainReferences

\* What the steps of a run do to observations and authorities.
MovesOn(r) ==
  /\ UNCHANGED <<observations, authority>>
  /\ \A q \in Runs \ {r} : runPhase'[q] = runPhase[q]
  /\ runPhase'[r] # "promoting" \/ runPhase'[r] = runPhase[r]
  /\ runPhase'[r] = "returned" => runPhase[r] = "returned" \/ (Stored(r) /\ Stale(r))

Stores(r) ==
  /\ ~Stored(r) /\ authority' = authority
  /\ \A q \in Runs \ {r} : observations'[q] = observations[q]
  /\ \A q \in Runs \ {r} : runPhase'[q] = runPhase[q]
  /\ observations'[r].status = observed[r].status
  /\ runPhase'[r] = IF observed[r].status = "VALID" THEN "promoting" ELSE "returned"

Establishes(r) ==
  /\ runPhase[r] = "promoting" /\ runPhase'[r] = "returned"
  /\ Stored(r) /\ ~Stale(r)
  /\ observations' = observations
  /\ authority' = [authority EXCEPT ![WatchOf[r]] = r]
  /\ \A q \in Runs \ {r} : runPhase'[q] = runPhase[q]

LEMMA RunEvidence ==
  ASSUME EngineInv, NEW r \in Runs, RunKinds(r)
  PROVE  MovesOn(r) \/ Stores(r) \/ Establishes(r)
<1>1. runPhase \in [Runs -> {"idle"} \cup Runtime!Active \cup Runtime!Finished]
  BY DEF EngineInv, EngineTypeInv, RunTypeOK
<1>2. CASE RunQuiet(r)
  <2>1. UNCHANGED <<observations, authority>>
    BY <1>2 DEF RunQuiet, evidenceVars
  <2>2. CASE runPhase' = runPhase
    BY <2>1, <2>2 DEF MovesOn
  <2>3. CASE runPhase' = [runPhase EXCEPT ![r] = "returned"] /\ Stored(r) /\ Stale(r)
    BY <1>1, <2>1, <2>3 DEF MovesOn
  <2>4. CASE \E p \in {"persisting", "erroring", "raised", "unmarked", "dead"} :
               runPhase' = [runPhase EXCEPT ![r] = p]
    BY <1>1, <2>1, <2>4 DEF MovesOn
  <2> QED BY <1>2, <2>2, <2>3, <2>4 DEF RunQuiet
<1>3. CASE RunMarks(r)
  BY <1>1, <1>3 DEF RunMarks, MovesOn
<1>4. CASE RunPersists(r)
  BY <1>1, <1>4 DEF RunPersists, PersistObservation, EngineInv, EngineTypeInv, EvidenceTypeOK,
                      Stores
<1>5. CASE \E n \in 0..MaxDrafts : RunPromotes(r, n)
  BY <1>1, <1>5 DEF RunPromotes, PromoteValidObservation, Establishes
<1> QED BY <1>2, <1>3, <1>4, <1>5 DEF RunKinds

LEMMA MaintainEvidence ==
  ASSUME EngineInv, Maintains
  PROVE  /\ \A r \in Runs : Stored(r)' => Stored(r) /\ observations'[r] = observations[r]
         /\ \A w \in WatchIds :
              \/ /\ authority'[w] = authority[w]
                 /\ authority[w] # None => observations'[authority[w]] = observations[authority[w]]
              \/ /\ watches'[w].run_status = "ABSENT"
                 /\ \A r \in Runs : WatchOf[r] = w => ~Stored(r)'
<1>1. ASSUME NEW R, DropObservations(R), NEW r \in Runs
      PROVE  /\ Stored(r)' <=> Stored(r) /\ r \notin R
             /\ r \notin R => observations'[r] = observations[r]
  BY <1>1 DEF DropObservations, Stored, NoObservation
<1>2. ASSUME NEW cutoff \in Nat, NEW scope \in SUBSET WatchIds, PurgeBefore(cutoff, scope)
      PROVE  /\ authority' = authority
             /\ \E R : DropObservations(R) /\ \A r \in R : \A w \in WatchIds : authority[w] # r
  BY <1>2 DEF PurgeBefore
<1>3. ASSUME NEW w \in WatchIds, DeleteRows(w)
      PROVE  /\ authority' = [authority EXCEPT ![w] = None]
             /\ watches'[w].run_status = "ABSENT"
             /\ DropObservations({r \in Runs : WatchOf[r] = w})
  BY <1>3 DEF DeleteRows, NoWatch, EngineInv, EngineTypeInv, EvidenceTypeOK
<1>4. CASE \E cutoff \in Nat, scope \in SUBSET WatchIds : PurgeBefore(cutoff, scope)
  <2>1. PICK R : DropObservations(R) /\ \A r \in R : \A w \in WatchIds : authority[w] # r
    BY <1>2, <1>4
  <2>2. \A r \in Runs : /\ Stored(r)' => Stored(r) /\ observations'[r] = observations[r]
                        /\ r \notin R => observations'[r] = observations[r]
    BY <1>1, <2>1
  <2>3. \A w \in WatchIds : authority[w] # None => authority[w] \in Runs /\ authority[w] \notin R
    BY <2>1, AuthorityFacts
  <2> QED BY <1>2, <1>4, <2>2, <2>3
<1>5. ASSUME NEW v \in WatchIds, DeleteRows(v)
      PROVE  /\ \A r \in Runs : Stored(r)' => Stored(r) /\ observations'[r] = observations[r]
             /\ \A w \in WatchIds :
                  \/ /\ authority'[w] = authority[w]
                     /\ authority[w] # None =>
                          observations'[authority[w]] = observations[authority[w]]
                  \/ /\ watches'[w].run_status = "ABSENT"
                     /\ \A r \in Runs : WatchOf[r] = w => ~Stored(r)'
  <2>1. \A w \in WatchIds : w # v => authority'[w] = authority[w]
    BY <1>3, <1>5 DEF EngineInv, EngineTypeInv, EvidenceTypeOK
  <2>2. /\ watches'[v].run_status = "ABSENT"
        /\ DropObservations({r \in Runs : WatchOf[r] = v})
    BY <1>3, <1>5
  <2>3. \A r \in Runs : /\ Stored(r)' <=> Stored(r) /\ WatchOf[r] # v
                        /\ WatchOf[r] # v => observations'[r] = observations[r]
    BY <1>1, <2>2
  <2>4. \A w \in WatchIds : w # v /\ authority[w] # None =>
          observations'[authority[w]] = observations[authority[w]]
    BY <2>3, AuthorityFacts
  <2> QED BY <2>1, <2>2, <2>3, <2>4
<1> QED BY <1>4, <1>5 DEF Maintains

LEMMA AuthorityStep ==
  ASSUME EngineInv, [Next]_vars
  PROVE  PromotingValid' /\ AuthorityCoversStored'
<1> USE DEF Stored
<1>1. /\ WatchOf \in [Runs -> WatchIds]
      /\ \A r \in Runs : observations[r].observed_at \in Nat
  BY RunsAssumption DEF EngineInv, EngineTypeInv, EvidenceTypeOK
<1>2. CASE OutboxStep
  BY <1>2 DEF OutboxStep, evidenceVars, runVars, EngineInv, PromotingValid, AuthorityCoversStored
<1>3. ASSUME NEW r \in Runs, RunKinds(r) PROVE PromotingValid' /\ AuthorityCoversStored'
  <2>1. CASE MovesOn(r)
    <3>1. PromotingValid'
      BY <2>1 DEF EngineInv, PromotingValid, MovesOn
    <3>2. Stale(r) => /\ authority[WatchOf[r]] # None
                      /\ observations[r].observed_at
                           <= observations[authority[WatchOf[r]]].observed_at
      BY <1>1, AuthorityFacts DEF Stale
    <3>3. AuthorityCoversStored'
      BY <2>1, <3>2 DEF EngineInv, AuthorityCoversStored, MovesOn
    <3> QED BY <3>1, <3>3
  <2>2. CASE Stores(r)
    <3>1. PromotingValid'
      BY <2>2 DEF EngineInv, PromotingValid, Stores
    <3>2. \A w \in WatchIds : authority[w] # None => authority[w] \in Runs \ {r}
      BY <2>2, AuthorityFacts DEF Stores
    <3>3. AuthorityCoversStored'
      BY <1>1, <2>2, <3>2 DEF EngineInv, AuthorityCoversStored, Stores
    <3> QED BY <3>1, <3>3
  <2>3. CASE Establishes(r)
    <3>1. PromotingValid'
      BY <2>3 DEF EngineInv, PromotingValid, Establishes
    <3>2. authority[WatchOf[r]] # None =>
            observations[authority[WatchOf[r]]].observed_at < observations[r].observed_at
      BY <1>1, <2>3, AuthorityFacts DEF Stale, Establishes
    <3>3. /\ r # None /\ authority'[WatchOf[r]] = r
          /\ \A w \in WatchIds : w # WatchOf[r] => authority'[w] = authority[w]
      BY <1>1, <2>3, RunsAssumption DEF EngineInv, EngineTypeInv, EvidenceTypeOK, Establishes
    <3>4. ASSUME NEW q \in Runs, Stored(q), observations[q].status = "VALID",
                 runPhase'[q] = "returned"
          PROVE  /\ authority'[WatchOf[q]] # None
                 /\ observations[q].observed_at <= observations[authority'[WatchOf[q]]].observed_at
      <4>1. CASE q = r
        BY <1>1, <3>3, <4>1
      <4>2. CASE q # r /\ WatchOf[q] # WatchOf[r]
        BY <1>1, <2>3, <3>3, <3>4, <4>2 DEF EngineInv, AuthorityCoversStored, Establishes
      <4>3. CASE q # r /\ WatchOf[q] = WatchOf[r]
        <5>1. /\ authority[WatchOf[r]] # None
              /\ observations[q].observed_at <= observations[authority[WatchOf[r]]].observed_at
          BY <2>3, <3>4, <4>3 DEF EngineInv, AuthorityCoversStored, Establishes
        <5>2. authority[WatchOf[r]] \in Runs
          BY <1>1, <5>1, AuthorityFacts
        <5> QED BY <1>1, <3>2, <3>3, <4>3, <5>1, <5>2
      <4> QED BY <4>1, <4>2, <4>3
    <3>5. AuthorityCoversStored'
      BY <2>3, <3>4 DEF AuthorityCoversStored, Establishes
    <3> QED BY <3>1, <3>5
  <2> QED BY <1>3, <2>1, <2>2, <2>3, RunEvidence
<1>4. CASE Maintains /\ UNCHANGED runVars
  <2>1. runPhase' = runPhase
    BY <1>4 DEF runVars
  <2>2. PromotingValid'
    BY <1>4, <2>1, MaintainEvidence DEF EngineInv, PromotingValid
  <2>3. AuthorityCoversStored'
    BY <1>1, <1>4, <2>1, MaintainEvidence DEF EngineInv, AuthorityCoversStored
  <2> QED BY <2>2, <2>3
<1> QED BY <1>2, <1>3, <1>4, NextKinds DEF EngineInv

LEMMA EngineStep == EngineInv /\ [Next]_vars => EngineInv'
BY NextKinds, ReferencesStep, AuthorityStep DEF EngineInv

\* Every reference between the tables resolves, whatever a purge or a deletion takes
\* between the transactions of the runs and of the dispatchers.
THEOREM ReferencesCorrect == Spec => []ReferencesResolve
<1>1. EngineInv => ReferencesResolve
  BY DEF EngineInv
<1> QED BY <1>1, EngineInitInv, EngineStep, PTL DEF Spec

\* Only finitely many observations are stored, so that Cardinality counts them.
CounterInv ==
  /\ EngineInv
  /\ \A w \in WatchIds :
       /\ IsFiniteSet(StoredOf(w))
       /\ Cardinality(StoredOf(w)) <= watches[w].execution_count

\* Whatever a step does, a watch that stores nothing more and keeps its counter is fine.
LEMMA CounterKept ==
  ASSUME CounterInv, EngineTypeInv', NEW w \in WatchIds,
         \A r \in Runs : WatchOf[r] = w /\ Stored(r)' => Stored(r),
         watches'[w].execution_count = watches[w].execution_count \/ StoredOf(w)' = {}
  PROVE  /\ IsFiniteSet(StoredOf(w)')
         /\ Cardinality(StoredOf(w)') <= watches'[w].execution_count
<1>1. StoredOf(w)' \subseteq StoredOf(w) /\ IsFiniteSet(StoredOf(w))
  BY DEF StoredOf, CounterInv
<1>2. /\ IsFiniteSet(StoredOf(w)') /\ Cardinality(StoredOf(w)') <= Cardinality(StoredOf(w))
      /\ Cardinality(StoredOf(w)') \in Nat /\ Cardinality(StoredOf(w)) \in Nat
  BY <1>1, FS_Subset, FS_CardinalityType
<1>3. /\ watches[w].execution_count \in Nat /\ watches'[w].execution_count \in Nat
      /\ Cardinality(StoredOf(w)) <= watches[w].execution_count
  BY DEF CounterInv, EngineInv, EngineTypeInv, EvidenceTypeOK
<1>4. CASE watches'[w].execution_count = watches[w].execution_count
  BY <1>2, <1>3, <1>4
<1>5. CASE StoredOf(w)' = {}
  BY <1>2, <1>3, <1>5, FS_EmptySet
<1> QED BY <1>4, <1>5

\* A watch without a row stores nothing, so that _ensure_watch may start it at 0.
LEMMA CounterStart ==
  ASSUME EngineInv, NEW w \in WatchIds
  PROVE  /\ Ensured(w) \in [run_status : {"IDLE", "RUNNING", "ERROR"}, execution_count : Nat]
         /\ Ensured(w).execution_count = watches[w].execution_count \/ StoredOf(w) = {}
<1>1. CASE watches[w].run_status = "ABSENT"
  BY <1>1, EnsuredType DEF EngineInv, EngineTypeInv, ReferencesResolve, StoredOf
<1>2. CASE watches[w].run_status # "ABSENT"
  BY <1>2, EnsuredType DEF EngineInv, EngineTypeInv
<1> QED BY <1>1, <1>2

\* The first transaction stores one observation and counts it.
LEMMA CounterPersists ==
  ASSUME CounterInv, NEW r \in Runs, RunPersists(r), EngineTypeInv', NEW w \in WatchIds
  PROVE  /\ IsFiniteSet(StoredOf(w)')
         /\ Cardinality(StoredOf(w)') <= watches'[w].execution_count
<1>1. WatchOf[r] \in WatchIds /\ EngineInv /\ EvidenceTypeOK
  BY RunsAssumption DEF CounterInv, EngineInv, EngineTypeInv
<1>2. /\ ~Stored(r)
      /\ \A q \in Runs \ {r} : Stored(q)' <=> Stored(q)
      /\ watches' = [watches EXCEPT ![WatchOf[r]] =
                       [run_status |-> "IDLE",
                        execution_count |-> Ensured(WatchOf[r]).execution_count + 1]]
  BY <1>1 DEF RunPersists, PersistObservation, Stored, EvidenceTypeOK
<1>3. CASE w # WatchOf[r]
  <2>1. watches'[w] = watches[w]
    BY <1>1, <1>2, <1>3 DEF EvidenceTypeOK
  <2>2. \A q \in Runs : WatchOf[q] = w /\ Stored(q)' => Stored(q)
    BY <1>2, <1>3
  <2> QED BY <2>1, <2>2, CounterKept
<1>4. CASE w = WatchOf[r]
  <2>1. watches'[w].execution_count = Ensured(w).execution_count + 1
    BY <1>1, <1>2, <1>4 DEF EvidenceTypeOK
  <2>2. StoredOf(w)' \subseteq StoredOf(w) \cup {r} /\ r \notin StoredOf(w)
    BY <1>2 DEF StoredOf
  <2>3. /\ IsFiniteSet(StoredOf(w))
        /\ IsFiniteSet(StoredOf(w) \cup {r})
        /\ Cardinality(StoredOf(w) \cup {r}) = Cardinality(StoredOf(w)) + 1
    BY <2>2, FS_AddElement DEF CounterInv
  <2>4. /\ IsFiniteSet(StoredOf(w)')
        /\ Cardinality(StoredOf(w)') <= Cardinality(StoredOf(w)) + 1
    BY <2>2, <2>3, FS_Subset
  <2>5. Cardinality(StoredOf(w)') \in Nat /\ Cardinality(StoredOf(w)) \in Nat
    BY <2>3, <2>4, FS_CardinalityType
  <2>6. Cardinality(StoredOf(w)) <= Ensured(w).execution_count /\ Ensured(w).execution_count \in Nat
    <3>1. Ensured(w).execution_count \in Nat
      BY <1>1, CounterStart
    <3>2. CASE Ensured(w).execution_count = watches[w].execution_count
      BY <3>1, <3>2 DEF CounterInv
    <3>3. CASE StoredOf(w) = {}
      BY <3>1, <3>3, FS_EmptySet
    <3> QED BY <1>1, <3>1, <3>2, <3>3, CounterStart
  <2> QED BY <2>1, <2>4, <2>5, <2>6
<1> QED BY <1>3, <1>4

LEMMA CounterStep == CounterInv /\ [Next]_vars => CounterInv'
<1> SUFFICES ASSUME CounterInv, [Next]_vars PROVE CounterInv'
  OBVIOUS
<1>1. EngineInv /\ EngineInv' /\ EngineTypeInv /\ EngineTypeInv'
  BY EngineStep DEF CounterInv, EngineInv
<1>2. ASSUME NEW w \in WatchIds
      PROVE  /\ IsFiniteSet(StoredOf(w)')
             /\ Cardinality(StoredOf(w)') <= watches'[w].execution_count
  <2>1. CASE OutboxStep
    <3>1. watches' = watches /\ \A r \in Runs : Stored(r)' <=> Stored(r)
      BY <2>1 DEF OutboxStep, evidenceVars, Stored
    <3> QED BY <1>1, <3>1, CounterKept
  <2>2. ASSUME NEW r \in Runs, RunQuiet(r) \/ \E n \in 0..MaxDrafts : RunPromotes(r, n)
        PROVE  /\ IsFiniteSet(StoredOf(w)')
               /\ Cardinality(StoredOf(w)') <= watches'[w].execution_count
    <3>1. watches' = watches /\ \A q \in Runs : Stored(q)' <=> Stored(q)
      BY <2>2 DEF RunQuiet, RunPromotes, PromoteValidObservation, evidenceVars, Stored
    <3> QED BY <1>1, <3>1, CounterKept
  <2>3. ASSUME NEW r \in Runs, RunMarks(r)
        PROVE  /\ IsFiniteSet(StoredOf(w)')
               /\ Cardinality(StoredOf(w)') <= watches'[w].execution_count
    <3>1. \A q \in Runs : Stored(q)' <=> Stored(q)
      BY <2>3 DEF RunMarks, Stored
    <3>2. StoredOf(w)' = StoredOf(w)
      BY <3>1 DEF StoredOf
    <3>3. WatchOf[r] \in WatchIds /\ watches \in [WatchIds -> WatchRow]
      BY <1>1, RunsAssumption DEF EngineTypeInv, EvidenceTypeOK, WatchRow
    <3>4. CASE w # WatchOf[r]
      <4>1. watches'[w] = watches[w]
        BY <2>3, <3>3, <3>4 DEF RunMarks, MarkRunStarted, MarkRunError
      <4> QED BY <1>1, <3>1, <4>1, CounterKept
    <3>5. CASE w = WatchOf[r] /\ MarkRunStarted(w)
      <4>1. watches' = [watches EXCEPT ![w] = [Ensured(w) EXCEPT !.run_status = "RUNNING"]]
        BY <3>5 DEF MarkRunStarted
      <4>2. watches'[w].execution_count = Ensured(w).execution_count
        BY <1>1, <3>3, <4>1, CounterStart
      <4> QED BY <1>1, <3>1, <3>2, <4>2, CounterStart, CounterKept
    <3>6. CASE w = WatchOf[r] /\ MarkRunError(w)
      <4> DEFINE s == IF watches[w].run_status = "ABSENT" THEN "ABSENT" ELSE "ERROR"
      <4>1. watches' = [watches EXCEPT ![w] = [watches[w] EXCEPT !.run_status = s]]
        BY <3>6, Zenon DEF MarkRunError
      <4> HIDE DEF s
      <4>2. watches'[w].execution_count = watches[w].execution_count
        BY <3>3, <4>1 DEF WatchRow
      <4> QED BY <1>1, <3>1, <4>2, CounterKept
    <3> QED BY <2>3, <3>4, <3>5, <3>6 DEF RunMarks
  <2>4. ASSUME NEW r \in Runs, RunPersists(r)
        PROVE  /\ IsFiniteSet(StoredOf(w)')
               /\ Cardinality(StoredOf(w)') <= watches'[w].execution_count
    BY <1>1, <2>4, CounterPersists
  <2>5. CASE Maintains
    <3>1. \A r \in Runs : Stored(r)' => Stored(r)
      BY <1>1, <2>5, MaintainEvidence
    <3>2. watches'[w] = watches[w] \/ watches'[w].run_status = "ABSENT"
      <4>1. watches' = watches \/ \E v \in WatchIds : watches' = [watches EXCEPT ![v] = NoWatch]
        BY <2>5 DEF Maintains, PurgeBefore, DeleteRows
      <4>2. watches \in [WatchIds -> WatchRow] /\ NoWatch.run_status = "ABSENT"
        BY <1>1 DEF EngineTypeInv, EvidenceTypeOK, WatchRow, NoWatch
      <4> QED BY <4>1, <4>2
    <3>3. watches'[w].run_status = "ABSENT" => StoredOf(w)' = {}
      BY <1>1 DEF EngineInv, ReferencesResolve, StoredOf
    <3> QED BY <1>1, <3>1, <3>2, <3>3, CounterKept
  <2> QED BY <1>1, <2>1, <2>2, <2>3, <2>4, <2>5, NextKinds DEF RunKinds
<1> QED BY <1>1, <1>2 DEF CounterInv

\* The authority of a watch is as new as every VALID observation still stored whose
\* run returned, and its execution_count covers all that are stored, whatever purges and
\* deletions take between the transactions of its runs.
THEOREM AccountsCorrect == Spec => []StoredIsAccounted
<1>1. Init => CounterInv
  <2> SUFFICES ASSUME Init PROVE CounterInv
    OBVIOUS
  <2>1. \A w \in WatchIds : StoredOf(w) = {} /\ watches[w].execution_count = 0
    BY DEF Init, EvidenceInit, StoredOf, Stored, NoObservation, NoWatch
  <2> QED BY <2>1, EngineInitInv, FS_EmptySet DEF CounterInv
<1>2. CounterInv => StoredIsAccounted
  BY DEF CounterInv, EngineInv, StoredIsAccounted, CounterCoversStored
<1> QED BY <1>1, <1>2, CounterStep, PTL DEF Spec

\* An authority only gives way to a later observation, or to the deletion of its watch.
THEOREM AuthorityForward == Spec => AuthorityMovesForward
<1> DEFINE Forward ==
      \A w \in WatchIds :
        authority[w] # None /\ authority'[w] # authority[w] =>
          \/ watches'[w].run_status = "ABSENT"
          \/ /\ authority'[w] # None
             /\ observations[authority[w]].observed_at
                  < observations'[authority'[w]].observed_at
<1>1. ASSUME EngineInv, [Next]_vars PROVE Forward
  <2> SUFFICES ASSUME NEW w \in WatchIds, authority[w] # None, authority'[w] # authority[w],
                      watches'[w].run_status # "ABSENT"
               PROVE  /\ authority'[w] # None
                      /\ observations[authority[w]].observed_at
                           < observations'[authority'[w]].observed_at
    OBVIOUS
  <2>1. ~OutboxStep
    BY DEF OutboxStep, evidenceVars
  <2>2. ~Maintains
    BY <1>1, MaintainEvidence
  <2>3. PICK r \in Runs : RunKinds(r)
    BY <1>1, <2>1, <2>2, NextKinds DEF EngineInv
  <2>4. /\ Stored(r) /\ ~Stale(r) /\ observations' = observations
        /\ authority' = [authority EXCEPT ![WatchOf[r]] = r]
    BY <1>1, <2>3, RunEvidence DEF MovesOn, Stores, Establishes
  <2>5. WatchOf[r] = w /\ authority'[w] = r /\ r # None
    BY <1>1, <2>4, RunsAssumption DEF EngineInv, EngineTypeInv, EvidenceTypeOK
  <2>6. \A q \in Runs : observations[q].observed_at \in Nat
    BY <1>1 DEF EngineInv, EngineTypeInv, EvidenceTypeOK
  <2> QED BY <1>1, <2>4, <2>5, <2>6, AuthorityFacts DEF Stale
<1>2. EngineInv /\ [Next]_vars => [Forward]_vars
  BY <1>1
<1> QED BY <1>2, EngineInitInv, EngineStep, PTL DEF Spec, AuthorityMovesForward

-----------------------------------------------------------------------------
(* Events and claims. *)

\* A purge takes terminal rows; a deletion takes the rows of one watch, and rows that
\* are not delivered yet only if that watch may be forced.
LEMMA MaintainRows ==
  ASSUME EngineInv, Maintain
  PROVE  \A e \in EventIds :
           \/ outbox'[e] = outbox[e]
           \/ outbox[e].status \in Terminal
           \/ outbox[e].status = "ABSENT"
           \/ /\ watches'[WatchOfEvent(e)].run_status = "ABSENT"
              /\ WatchOfEvent(e) \in Forced
<1>1. ASSUME NEW cutoff, NEW scope, PurgeBefore(cutoff, scope), NEW e \in EventIds
      PROVE  outbox'[e] = outbox[e] \/ outbox[e].status \in Terminal
  BY <1>1 DEF PurgeBefore, DropEvents, WithStatus
<1>2. ASSUME NEW w \in WatchIds, NEW allow \in BOOLEAN, allow => w \in Forced,
             DeleteWatch(w, allow), NEW e \in EventIds
      PROVE  \/ outbox'[e] = outbox[e]
             \/ outbox[e].status \in Terminal
             \/ outbox[e].status = "ABSENT"
             \/ watches'[WatchOfEvent(e)].run_status = "ABSENT" /\ WatchOfEvent(e) \in Forced
  <2>1. watches'[w].run_status = "ABSENT"
    BY <1>2 DEF DeleteWatch, DeleteRows, NoWatch, EngineInv, EngineTypeInv, EvidenceTypeOK
  <2>2. e \notin EventsOfWatch(w) => outbox'[e] = outbox[e]
    BY <1>2 DEF DeleteWatch, DeleteRows, DropEvents
  <2>3. outbox[e].status \in Undelivered \cup Terminal \cup {"ABSENT"}
    BY DEF EngineInv, EngineTypeInv, OutboxInv, OutboxTypeOK, OutboxRow
  <2>4. e \in EventsOfWatch(w) /\ outbox[e].status \in Undelivered =>
          WatchOfEvent(e) = w /\ w \in Forced
    BY <1>2 DEF DeleteWatch, EventsOfWatch, WithStatus
  <2> QED BY <2>1, <2>2, <2>3, <2>4
<1> QED BY <1>1, <1>2 DEF Maintain

\* An event that is not delivered yet disappears only with its watch, and only if that
\* may be deleted with allow_undelivered set.
THEOREM UndeliveredKept == Spec => UndeliveredSurvives
<1> DEFINE Kept ==
      \A e \in WithStatus(Undelivered) : outbox'[e].status = "ABSENT" =>
        /\ watches'[WatchOfEvent(e)].run_status = "ABSENT"
        /\ WatchOfEvent(e) \in Forced
<1>1. ASSUME EngineInv, [Next]_vars PROVE Kept
  <2> SUFFICES ASSUME NEW e \in EventIds, outbox[e].status \in Undelivered,
                      outbox'[e].status = "ABSENT"
               PROVE  /\ watches'[WatchOfEvent(e)].run_status = "ABSENT"
                      /\ WatchOfEvent(e) \in Forced
    BY DEF WithStatus
  <2>1. ~OutboxStep
    BY DEF OutboxStep, Exists, Undelivered, Waiting
  <2>2. ASSUME NEW r \in Runs, RunKinds(r) PROVE FALSE
    <3>1. CASE RunQuiet(r) \/ RunMarks(r) \/ RunPersists(r)
      <4>1. UNCHANGED outboxVars
        BY <3>1 DEF RunQuiet, RunMarks, RunPersists
      <4> QED BY <4>1 DEF outboxVars, Undelivered, Waiting
    <3>2. ASSUME NEW n \in 0..MaxDrafts, RunPromotes(r, n) PROVE FALSE
      <4>1. /\ n \in Nat /\ runTime[r] \in Nat /\ OutboxInv /\ InsertOutbox(n, runTime[r])
        BY <1>1, <3>2, EngineAssumption
           DEF RunPromotes, PromoteValidObservation, EngineInv, EngineTypeInv, RunTypeOK
      <4>2. outbox[e].status # "ABSENT"
        BY DEF Undelivered, Waiting
      <4> QED BY <4>1, <4>2, InsertOutboxKeeps
    <3> QED BY <2>2, <3>1, <3>2 DEF RunKinds
  <2>3. Maintain
    BY <1>1, <2>1, <2>2, NextKinds DEF EngineInv
  <2> QED BY <1>1, <2>3, MaintainRows DEF Undelivered, Waiting, Terminal
<1>2. EngineInv /\ [Next]_vars => [Kept]_vars
  BY <1>1
<1> QED BY <1>2, EngineInitInv, EngineStep, PTL DEF Spec, UndeliveredSurvives

\* A dispatcher outside its delivery loop holds no claims.
NothingHeld ==
  \A d \in Dispatchers : phase[d] \in {"idle", "recover", "claim"} => batch[d] = {}

\* What the steps of a dispatcher do to its claims.
LEMMA DispatchHolds ==
  ASSUME NEW d \in Dispatchers, DispatcherTypeOK, NothingHeld,
         \/ DispatchQuiet(d) \/ DispatchRecovers(d) \/ DispatchClaims(d)
         \/ \E c \in batch[d], retryAt \in Nat \cup {Null} : DispatchAcks(d, c, retryAt)
  PROVE  NothingHeld'
<1> USE DEF DispatcherTypeOK, Dispatch!Phases, NothingHeld
<1>1. CASE DispatchQuiet(d)
  BY <1>1 DEF DispatchQuiet
<1>2. CASE DispatchRecovers(d) \/ DispatchClaims(d)
  BY <1>2 DEF DispatchRecovers, DispatchClaims
<1>3. CASE \E c \in batch[d], retryAt \in Nat \cup {Null} : DispatchAcks(d, c, retryAt)
  BY <1>3 DEF DispatchAcks
<1> QED BY <1>1, <1>2, <1>3

ClaimInv == EngineInv /\ NothingHeld

LEMMA ClaimInvStep == ClaimInv /\ [Next]_vars => ClaimInv'
<1> SUFFICES ASSUME ClaimInv, [Next]_vars PROVE NothingHeld'
  BY EngineStep DEF ClaimInv
<1>1. UNCHANGED <<phase, batch>> => NothingHeld'
  BY DEF ClaimInv, NothingHeld
<1>2. ASSUME NEW d \in Dispatchers, Dispatch!Step(d) \/ Dispatch!Interrupt(d) PROVE NothingHeld'
  BY <1>2, DispatchStepKinds, DispatchHolds DEF ClaimInv, EngineInv, EngineTypeInv
<1>3. CASE Tick \/ UNCHANGED vars
  BY <1>1, <1>3 DEF Tick, Dispatch!Tick, Dispatch!dispatcherVars, vars, dispatcherVars
<1>4. CASE (\E r \in Runs : Run(r)) \/ (Maintain /\ UNCHANGED <<clock, runVars, dispatcherVars>>)
  BY <1>1, <1>4 DEF Run, dispatcherVars
<1> QED BY <1>2, <1>3, <1>4 DEF Next, DispatchStep

\* The claims an acknowledgement of c leaves alone.
LEMMA AckClaims ==
  ASSUME OutboxInv, NEW c \in ClaimedEvent, NEW row, NEW attempt, Acknowledged(c, row, attempt),
         NEW o \in ClaimedEvent, o # c, ClaimActive(o)
  PROVE  ClaimActive(o)'
<1>1. o.outbox_id # c.outbox_id
  BY DEF Acknowledged, ClaimActive, ClaimedEvent
<1> QED BY <1>1 DEF Acknowledged, ClaimActive, ClaimedEvent, OutboxInv, OutboxTypeOK

\* Only the deletion of a watch that may be forced takes a claim away from the one
\* dispatcher.  (Another dispatcher's recovery takes claims as well.)
THEOREM ClaimsKept ==
  ASSUME \A a, b \in Dispatchers : a = b
  PROVE  Spec => ClaimsStayActive
<1> DEFINE Kept ==
      \A d \in Dispatchers : \A c \in batch'[d] :
        (c \in batch[d] => ClaimActive(c) /\ WatchOfEvent(c.outbox_id) \notin Forced)
          => ClaimActive(c)'
<1>1. ASSUME ClaimInv, [Next]_vars PROVE Kept
  <2> SUFFICES ASSUME NEW d \in Dispatchers, NEW c \in batch'[d],
                      c \in batch[d] => ClaimActive(c) /\ WatchOfEvent(c.outbox_id) \notin Forced
               PROVE  ClaimActive(c)'
    OBVIOUS
  <2>1. EngineInv /\ EngineTypeInv /\ OutboxInv /\ EngineTypeInv'
    BY <1>1, NextKinds DEF ClaimInv, EngineInv, EngineTypeInv
  <2>2. c \in ClaimedEvent /\ c.outbox_id \in EventIds
    BY <2>1 DEF EngineTypeInv, DispatcherTypeOK, ClaimedEvent
  <2>3. batch' = batch /\ outbox' = outbox => ClaimActive(c)'
    BY DEF ClaimActive
  <2>4. ASSUME Dispatch!Step(d) \/ Dispatch!Interrupt(d) PROVE ClaimActive(c)'
    <3>1. CASE DispatchQuiet(d)
      <4>1. outbox' = outbox /\ c \in batch[d]
        BY <3>1, <2>1 DEF DispatchQuiet, outboxVars, EngineTypeInv, DispatcherTypeOK
      <4> QED BY <4>1 DEF ClaimActive
    <3>2. CASE DispatchRecovers(d)
      BY <1>1, <3>2 DEF DispatchRecovers, ClaimInv, NothingHeld
    <3>3. CASE DispatchClaims(d)
      <4>1. c \in ClaimsOf(FirstDue(claimTime[d])) /\ ClaimDue(claimTime[d]) /\ claimTime[d] \in Nat
        BY <2>1, <3>3 DEF DispatchClaims, EngineTypeInv, DispatcherTypeOK
      <4>2. PICK e \in FirstDue(claimTime[d]) :
              c = [outbox_id |-> e, attempts |-> outbox[e].attempts]
        BY <4>1 DEF ClaimsOf
      <4> QED BY <2>1, <4>1, <4>2, ClaimEffect DEF ClaimActive
    <3>4. ASSUME NEW o \in batch[d], NEW retryAt \in Nat \cup {Null}, DispatchAcks(d, o, retryAt)
          PROVE  ClaimActive(c)'
      <4>1. c \in batch[d] /\ c # o
        BY <2>1, <3>4 DEF DispatchAcks, EngineTypeInv, DispatcherTypeOK
      <4>2. o \in ClaimedEvent /\ clock \in Nat
        BY <2>1 DEF EngineTypeInv, DispatcherTypeOK, OutboxInv, OutboxTypeOK
      <4>3. PICK row \in OutboxRow, attempt \in AttemptRow : Acknowledged(o, row, attempt)
        BY <2>1, <3>4, <4>2, AckEffect DEF DispatchAcks
      <4> QED BY <2>1, <2>2, <4>1, <4>2, <4>3, AckClaims
    <3> QED BY <2>1, <2>4, <3>1, <3>2, <3>3, <3>4, DispatchStepKinds DEF EngineTypeInv
  <2>5. ASSUME NEW a \in Dispatchers, Dispatch!Step(a) \/ Dispatch!Interrupt(a)
        PROVE  ClaimActive(c)'
    BY <2>4, <2>5
  <2>6. CASE Tick \/ UNCHANGED vars
    BY <2>3, <2>6
       DEF Tick, Dispatch!Tick, Dispatch!dispatcherVars, Dispatch!outboxVars, vars, outboxVars,
           dispatcherVars
  <2>7. ASSUME UNCHANGED dispatcherVars,
               c \in batch[d] /\ outbox[c.outbox_id].status = "DELIVERING"
                 => outbox'[c.outbox_id] = outbox[c.outbox_id]
        PROVE  ClaimActive(c)'
    BY <2>7 DEF dispatcherVars, ClaimActive
  <2>8. ASSUME NEW r \in Runs, Run(r) PROVE ClaimActive(c)'
    <3>1. RunKinds(r) /\ UNCHANGED dispatcherVars
      BY <2>1, <2>8, RunStepKinds DEF EngineTypeInv, OutboxInv, OutboxTypeOK, RunKinds
    <3>2. CASE RunQuiet(r) \/ RunMarks(r) \/ RunPersists(r)
      <4>1. UNCHANGED outboxVars
        BY <3>2 DEF RunQuiet, RunMarks, RunPersists
      <4> QED BY <2>7, <3>1, <4>1 DEF outboxVars
    <3>3. ASSUME NEW n \in 0..MaxDrafts, RunPromotes(r, n) PROVE ClaimActive(c)'
      <4>1. n \in Nat /\ runTime[r] \in Nat /\ InsertOutbox(n, runTime[r])
        BY <2>1, <3>3, EngineAssumption
           DEF RunPromotes, PromoteValidObservation, EngineTypeInv, RunTypeOK
      <4>2. outbox[c.outbox_id].status = "DELIVERING" =>
              outbox'[c.outbox_id] = outbox[c.outbox_id]
        BY <2>1, <2>2, <4>1, InsertOutboxKeeps
      <4> QED BY <2>7, <3>1, <4>2
    <3> QED BY <3>1, <3>2, <3>3 DEF RunKinds
  <2>9. CASE Maintain /\ UNCHANGED dispatcherVars
    <3>1. c \in batch[d] /\ outbox[c.outbox_id].status = "DELIVERING"
            => outbox'[c.outbox_id] = outbox[c.outbox_id]
      BY <2>1, <2>2, <2>9, MaintainRows DEF Terminal
    <3> QED BY <2>7, <2>9, <3>1
  <2> QED BY <1>1, <2>5, <2>6, <2>8, <2>9 DEF Next, DispatchStep
<1>2. ClaimInv /\ [Next]_vars => [Kept]_vars
  BY <1>1
<1>3. Init => ClaimInv
  BY EngineInitInv DEF ClaimInv, NothingHeld, Init, Dispatch!DispatcherInit
<1> QED BY <1>2, <1>3, ClaimInvStep, PTL DEF Spec, ClaimsStayActive

-----------------------------------------------------------------------------
(* The engine implements the dispatcher with rows that are deleted. *)

Delivery == INSTANCE OutboxDispatcherProofs

\* The dispatcher's definitions mean the same under both instances.
LEMMA SameStore ==
  /\ \A now : Dispatch!RecoverInFlight(now) <=> Delivery!RecoverInFlight(now)
  /\ \A now : Dispatch!ClaimDue(now) <=> Delivery!ClaimDue(now)
  /\ \A now : Dispatch!ClaimsOf(Dispatch!FirstDue(now)) = Delivery!ClaimsOf(Delivery!FirstDue(now))
  /\ \A c : Dispatch!ClaimActive(c) <=> Delivery!ClaimActive(c)
  /\ \A c : Dispatch!RecordDeliverySuccess(c, clock) <=> Delivery!RecordDeliverySuccess(c, clock)
  /\ \A c, retryAt : Dispatch!RecordDeliveryFailure(c, retryAt, clock)
                       <=> Delivery!RecordDeliveryFailure(c, retryAt, clock)
  /\ Dispatch!Null = Delivery!Null
<1> USE DEF Dispatch!EventIds, Delivery!EventIds, Dispatch!attemptVars, Delivery!attemptVars,
            Dispatch!Waiting, Delivery!Waiting, Dispatch!Null, Delivery!Null
<1>1. ASSUME NEW now PROVE Dispatch!FirstDue(now) = Delivery!FirstDue(now)
  <2>1. Dispatch!DueAt(now) = Delivery!DueAt(now)
    BY DEF Dispatch!DueAt, Delivery!DueAt, Dispatch!WithStatus, Delivery!WithStatus
  <2>2. \A S : Dispatch!Cardinality(S) = Delivery!Cardinality(S)
    BY Zenon DEF Dispatch!Cardinality, Delivery!Cardinality
  <2> QED BY <2>1, <2>2 DEF Dispatch!FirstDue, Delivery!FirstDue
<1>2. ASSUME NEW now
      PROVE  /\ Dispatch!RecoverInFlight(now) <=> Delivery!RecoverInFlight(now)
             /\ Dispatch!ClaimDue(now) <=> Delivery!ClaimDue(now)
             /\ Dispatch!ClaimsOf(Dispatch!FirstDue(now)) = Delivery!ClaimsOf(Delivery!FirstDue(now))
  BY <1>1 DEF Dispatch!RecoverInFlight, Delivery!RecoverInFlight, Dispatch!ClaimDue,
              Delivery!ClaimDue, Dispatch!ClaimsOf, Delivery!ClaimsOf
<1>3. ASSUME NEW c PROVE Dispatch!ClaimActive(c) <=> Delivery!ClaimActive(c)
  BY DEF Dispatch!ClaimActive, Delivery!ClaimActive
<1>4. ASSUME NEW c, NEW retryAt
      PROVE  /\ Dispatch!RecordDeliverySuccess(c, clock) <=> Delivery!RecordDeliverySuccess(c, clock)
             /\ Dispatch!RecordDeliveryFailure(c, retryAt, clock)
                  <=> Delivery!RecordDeliveryFailure(c, retryAt, clock)
  BY <1>3 DEF Dispatch!RecordDeliverySuccess, Delivery!RecordDeliverySuccess,
              Dispatch!InsertAttempt, Delivery!InsertAttempt,
              Dispatch!RecordDeliveryFailure, Delivery!RecordDeliveryFailure
<1> QED BY <1>2, <1>3, <1>4

LEMMA SameDispatcher ==
  /\ \A d : Dispatch!Step(d) => Delivery!Step(d)
  /\ \A d : Dispatch!Interrupt(d) => Delivery!Interrupt(d)
  /\ Dispatch!Tick => Delivery!Tick
  /\ OutboxInit /\ Dispatch!DispatcherInit => Delivery!Init
<1> USE DEF Dispatch!EventIds, Delivery!EventIds, Dispatch!attemptVars, Delivery!attemptVars,
            Dispatch!outboxVars, Delivery!outboxVars, Dispatch!dispatcherVars,
            Delivery!dispatcherVars
<1>1. ASSUME NEW d
      PROVE  /\ Dispatch!Start(d) => Delivery!Start(d)
             /\ Dispatch!Recover(d) => Delivery!Recover(d)
             /\ Dispatch!Claim(d) => Delivery!Claim(d)
             /\ Dispatch!Return(d) => Delivery!Return(d)
             /\ Dispatch!SinkFails(d) => Delivery!SinkFails(d)
  BY SameStore
     DEF Dispatch!Start, Delivery!Start, Dispatch!Recover, Delivery!Recover, Dispatch!Claim,
         Delivery!Claim, Dispatch!Return, Delivery!Return, Dispatch!SinkFails, Delivery!SinkFails
<1>2. ASSUME NEW d, NEW c
      PROVE  /\ Dispatch!IsNext(d, c) <=> Delivery!IsNext(d, c)
             /\ Dispatch!RetryAt(c) = Delivery!RetryAt(c)
             /\ Dispatch!Advance(d, c) <=> Delivery!Advance(d, c)
             /\ Dispatch!Abort(d) <=> Delivery!Abort(d)
  BY DEF Dispatch!IsNext, Delivery!IsNext, Dispatch!RetryAt, Delivery!RetryAt, Dispatch!Advance,
         Delivery!Advance, Dispatch!Abort, Delivery!Abort
<1>3. ASSUME NEW d
      PROVE  /\ Dispatch!SinkAccepts(d) => Delivery!SinkAccepts(d)
             /\ Dispatch!AckSuccess(d) => Delivery!AckSuccess(d)
             /\ Dispatch!AckDead(d) => Delivery!AckDead(d)
             /\ Dispatch!AckRetry(d) => Delivery!AckRetry(d)
             /\ Dispatch!AckLost(d) => Delivery!AckLost(d)
             /\ Dispatch!RetryUnschedulable(d) => Delivery!RetryUnschedulable(d)
             /\ Dispatch!Interrupt(d) => Delivery!Interrupt(d)
  BY <1>2, SameStore
     DEF Dispatch!SinkAccepts, Delivery!SinkAccepts, Dispatch!AckSuccess, Delivery!AckSuccess,
         Dispatch!AckDead, Delivery!AckDead, Dispatch!AckRetry, Delivery!AckRetry,
         Dispatch!AckLost, Delivery!AckLost, Dispatch!RetryUnschedulable,
         Delivery!RetryUnschedulable, Dispatch!Interrupt, Delivery!Interrupt
<1>4. Dispatch!Tick => Delivery!Tick
  BY DEF Dispatch!Tick, Delivery!Tick, Dispatch!WithStatus, Delivery!WithStatus,
         Dispatch!Waiting, Delivery!Waiting
<1>5. OutboxInit /\ Dispatch!DispatcherInit => Delivery!Init
  BY DEF OutboxInit, Delivery!OutboxInit, EventIds, NoRow, Delivery!NoRow, Null, Delivery!Null,
         Dispatch!DispatcherInit, Delivery!DispatcherInit, Delivery!Init
<1> QED BY <1>1, <1>3, <1>4, <1>5 DEF Dispatch!Step, Delivery!Step

\* A run promotes with a time it read before.
RunTimePast == \A r \in Runs : runTime[r] <= clock

LEMMA RunTimeStep == EngineTypeInv /\ RunTimePast /\ [Next]_vars => RunTimePast'
<1> SUFFICES ASSUME EngineTypeInv, RunTimePast, [Next]_vars PROVE RunTimePast'
  OBVIOUS
<1>1. clock \in Nat /\ runTime \in [Runs -> Nat]
  BY DEF EngineTypeInv, OutboxInv, OutboxTypeOK, RunTypeOK
<1>2. ASSUME UNCHANGED runTime, clock' = clock \/ clock' = clock + 1 PROVE RunTimePast'
  BY <1>1, <1>2 DEF RunTimePast
<1>3. ASSUME NEW r \in Runs, Run(r) PROVE RunTimePast'
  <2>1. runTime' = runTime \/ runTime' = [runTime EXCEPT ![r] = clock]
    BY <1>3
       DEF Run, Runtime!RunStep, Runtime!Continue, Runtime!GoTo, Runtime!StartRun,
           Runtime!StartFails, Runtime!Observed, Runtime!ObserverReturns, Runtime!ObserverGivesUp,
           Runtime!ObserverRetries, Runtime!ObserveBreaks, Runtime!Persist, Runtime!PersistFails,
           Runtime!Promote, Runtime!PromoteStale, Runtime!PromoteMissing, Runtime!PromoteFails,
           Runtime!MarkError, Runtime!MarkErrorFails, Runtime!Die
  <2>2. clock' = clock
    BY <1>3 DEF Run
  <2> QED BY <1>1, <2>1, <2>2 DEF RunTimePast
<1>4. ASSUME NEW d \in Dispatchers, Dispatch!Step(d) \/ Dispatch!Interrupt(d) PROVE clock' = clock
  BY <1>4, DispatchStepKinds DEF EngineTypeInv
<1>5. CASE Tick
  BY <1>2, <1>5 DEF Tick, Dispatch!Tick, runVars
<1>6. CASE UNCHANGED vars
  BY <1>2, <1>6 DEF vars, runVars
<1>7. CASE Maintain /\ UNCHANGED <<clock, runVars, dispatcherVars>>
  BY <1>2, <1>7 DEF runVars
<1> QED BY <1>2, <1>3, <1>4, <1>5, <1>6, <1>7 DEF Next, DispatchStep, runVars

\* What the engine does, as the dispatcher sees it.
LEMMA DeliveryStep ==
  ASSUME EngineInv, RunTimePast, [Next]_vars
  PROVE  [Delivery!MaintainedNext]_(Delivery!vars)
<1> USE DEF Delivery!attemptVars, Delivery!outboxVars, Delivery!dispatcherVars
<1>1. ASSUME UNCHANGED <<clock, outboxVars, dispatcherVars>> PROVE UNCHANGED Delivery!vars
  BY <1>1 DEF outboxVars, attemptVars, dispatcherVars, Delivery!vars
<1>2. ASSUME NEW r \in Runs, Run(r)
      PROVE  UNCHANGED Delivery!vars \/ Delivery!Next
  <2>1. /\ RunKinds(r) /\ UNCHANGED <<clock, dispatcherVars>>
        /\ clock \in Nat /\ runTime[r] \in Nat /\ runTime[r] <= clock
    BY <1>2, RunStepKinds
       DEF RunKinds, EngineInv, EngineTypeInv, OutboxInv, OutboxTypeOK, RunTypeOK, RunTimePast
  <2>2. CASE RunQuiet(r) \/ RunMarks(r) \/ RunPersists(r)
    BY <1>1, <2>1, <2>2 DEF RunQuiet, RunMarks, RunPersists
  <2>3. ASSUME NEW n \in 0..MaxDrafts, RunPromotes(r, n)
        PROVE  UNCHANGED Delivery!vars \/ Delivery!Next
    <3>1. InsertOutbox(n, runTime[r])
      BY <2>3 DEF RunPromotes, PromoteValidObservation
    <3>2. CASE n = 0
      <4>1. UNCHANGED outboxVars
        <5>1. NextIds(0) = {} /\ outboxSeq + 0 = outboxSeq
          BY MaxEventsAssumption DEF NextIds, EngineInv, EngineTypeInv, OutboxInv, OutboxTypeOK
        <5>2. outbox = [e \in EventIds |-> outbox[e]]
          BY DEF EngineInv, EngineTypeInv, OutboxInv, OutboxTypeOK
        <5> QED BY <3>1, <3>2, <5>1, <5>2 DEF InsertOutbox, outboxVars
      <4> QED BY <1>1, <2>1, <4>1
    <3>3. CASE n # 0
      <4>1. n \in 1..MaxDrafts
        BY <3>3, EngineAssumption
      <4>2. Delivery!InsertOutbox(n, runTime[r])
        BY <3>1 DEF InsertOutbox, Delivery!InsertOutbox, attemptVars, NextIds, Delivery!NextIds,
                    EventIds, Delivery!EventIds
      <4>3. runTime[r] \in 0..clock
        BY <2>1
      <4>4. Delivery!Publish(n)
        BY <2>1, <4>2, <4>3 DEF Delivery!Publish, dispatcherVars
      <4> QED BY <4>1, <4>4 DEF Delivery!Next
    <3> QED BY <3>2, <3>3
  <2> QED BY <2>1, <2>2, <2>3 DEF RunKinds
<1>3. ASSUME NEW d \in Dispatchers, Dispatch!Step(d) \/ Dispatch!Interrupt(d)
      PROVE  Delivery!Next
  BY <1>3, SameDispatcher DEF Delivery!Next
<1>4. CASE Tick
  <2>1. Delivery!Tick
    BY <1>4, SameDispatcher DEF Tick
  <2> QED BY <2>1 DEF Delivery!Next, Delivery!MaintainedNext
<1>5. CASE Maintain /\ UNCHANGED <<clock, runVars, dispatcherVars>>
  <2>1. PICK E \in SUBSET EventIds : DropEvents(E)
    BY <1>5 DEF Maintain, PurgeBefore, DeleteWatch, DeleteRows, EventsOfWatch, WithStatus
  <2>2. Delivery!Remove(E)
    BY <1>5, <2>1 DEF DropEvents, Delivery!Remove, EventIds, Delivery!EventIds, NoRow,
                      Delivery!NoRow, Null, Delivery!Null, dispatcherVars
  <2> QED BY <2>2 DEF Delivery!MaintainedNext, EventIds, Delivery!EventIds
<1>6. CASE UNCHANGED vars
  BY <1>1, <1>6 DEF vars
<1> QED BY <1>2, <1>3, <1>4, <1>5, <1>6 DEF Next, DispatchStep, Delivery!MaintainedNext

\* Seen from the dispatcher, the engine is a dispatcher whose rows are published by the
\* runs and deleted by the operator.
THEOREM ImplementsDelivery == Spec => Delivery!MaintainedSpec
<1> DEFINE Inv == EngineInv /\ RunTimePast
<1>1. Init => Inv /\ Delivery!Init
  BY EngineInitInv, SameDispatcher DEF Init, OutboxInit, Runtime!RuntimeInit, RunTimePast
<1>2. Inv /\ [Next]_vars => Inv'
  BY EngineStep, RunTimeStep DEF EngineInv
<1>3. Inv /\ [Next]_vars => [Delivery!MaintainedNext]_(Delivery!vars)
  BY DeliveryStep
<1> HIDE DEF Inv
<1> QED BY <1>1, <1>2, <1>3, PTL DEF Spec, Delivery!MaintainedSpec

LEMMA SameRules ==
  /\ Delivery!AttemptBudget => Dispatch!AttemptBudget
  /\ Delivery!AuditTrail => Dispatch!AuditTrail
  /\ Delivery!DeliveredWasAccepted => Dispatch!DeliveredWasAccepted
  /\ Delivery!NoOrphanedClaim => Dispatch!NoOrphanedClaim
  /\ Delivery!BackoffHonoured => Dispatch!BackoffHonoured
  /\ Delivery!InFlightBounded => Dispatch!InFlightBounded
  /\ Delivery!DuplicatesNeedInterruptions => Dispatch!DuplicatesNeedInterruptions
<1> USE DEF Delivery!EventIds, Dispatch!EventIds, Delivery!WithStatus, Dispatch!WithStatus,
            Delivery!AttemptsOf, Dispatch!AttemptsOf
<1>1. Delivery!AttemptBudget => Dispatch!AttemptBudget
  BY DEF Delivery!AttemptBudget, Dispatch!AttemptBudget, Delivery!Undelivered,
         Dispatch!Undelivered, Delivery!Waiting, Dispatch!Waiting
<1>2. Delivery!AuditTrail => Dispatch!AuditTrail
  BY DEF Delivery!AuditTrail, Dispatch!AuditTrail
<1>3. Delivery!NoOrphanedClaim => Dispatch!NoOrphanedClaim
  BY DEF Delivery!NoOrphanedClaim, Dispatch!NoOrphanedClaim
<1>4. Delivery!BackoffHonoured => Dispatch!BackoffHonoured
  BY DEF Delivery!BackoffHonoured, Dispatch!BackoffHonoured
<1>5. Delivery!InFlightBounded => Dispatch!InFlightBounded
  <2>1. \A S : Dispatch!Cardinality(S) = Delivery!Cardinality(S)
    BY Zenon DEF Dispatch!Cardinality, Delivery!Cardinality
  <2> QED BY <2>1 DEF Delivery!InFlightBounded, Dispatch!InFlightBounded
<1> QED BY <1>1, <1>2, <1>3, <1>4, <1>5
        DEF Delivery!DeliveredWasAccepted, Dispatch!DeliveredWasAccepted,
            Delivery!DuplicatesNeedInterruptions, Dispatch!DuplicatesNeedInterruptions

\* In the whole engine, while runs publish and an operator purges and deletes, the
\* attempts of every row are its audit trail and stay within the budget, DELIVERED means
\* accepted, no row is stuck in flight, and no event is redelivered before its backoff.
THEOREM DeliveryCorrect ==
  Spec => [](/\ Dispatch!AttemptBudget /\ Dispatch!AuditTrail /\ Dispatch!DeliveredWasAccepted
             /\ Dispatch!NoOrphanedClaim /\ Dispatch!BackoffHonoured)
<1>1. Delivery!MaintainedSpec =>
        [](/\ Delivery!AttemptBudget /\ Delivery!AuditTrail /\ Delivery!DeliveredWasAccepted
           /\ Delivery!NoOrphanedClaim /\ Delivery!BackoffHonoured)
  BY Delivery!MaintainedCorrect, EngineAssumption, MaxEventsAssumption, MaxAttemptsAssumption,
     BatchSizeAssumption
<1>2. /\ Delivery!AttemptBudget /\ Delivery!AuditTrail /\ Delivery!DeliveredWasAccepted
      /\ Delivery!NoOrphanedClaim /\ Delivery!BackoffHonoured
      => /\ Dispatch!AttemptBudget /\ Dispatch!AuditTrail /\ Dispatch!DeliveredWasAccepted
         /\ Dispatch!NoOrphanedClaim /\ Dispatch!BackoffHonoured
  BY SameRules
<1> QED BY <1>1, <1>2, ImplementsDelivery, PTL

\* With one dispatcher, at most one batch is in flight, and a purge or a deletion between
\* the sink's answer and its acknowledgement never makes the sink see the event again.
THEOREM DeliveryOwnerCorrect ==
  ASSUME \A a, b \in Dispatchers : a = b
  PROVE  Spec => [](Dispatch!InFlightBounded /\ Dispatch!DuplicatesNeedInterruptions)
<1>1. Delivery!MaintainedSpec =>
        [](Delivery!InFlightBounded /\ Delivery!DuplicatesNeedInterruptions)
  BY Delivery!MaintainedOwner, EngineAssumption, MaxEventsAssumption, MaxAttemptsAssumption,
     BatchSizeAssumption
<1>2. Delivery!InFlightBounded /\ Delivery!DuplicatesNeedInterruptions
        => Dispatch!InFlightBounded /\ Dispatch!DuplicatesNeedInterruptions
  BY SameRules
<1> QED BY <1>1, <1>2, ImplementsDelivery, PTL

\* Terminal rows and recorded attempts change only by being purged or deleted, a row with
\* its attempts, and no event of a later run gets the id of a deleted one.
THEOREM DeliveryHistory == Spec => Delivery!HistoryOnlyShrinks
<1>1. Delivery!MaintainedSpec => Delivery!HistoryOnlyShrinks
  BY Delivery!MaintainedHistory, EngineAssumption, MaxEventsAssumption, MaxAttemptsAssumption,
     BatchSizeAssumption
<1> QED BY <1>1, ImplementsDelivery
================================================================================
