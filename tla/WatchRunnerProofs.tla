--------------------------- MODULE WatchRunnerProofs ---------------------------
(***************************************************************************)
(* Theorems about WatchRuntime, overlapping calls of run_once, and about    *)
(* WatchRunner, the tasks, triggers and threads that make those calls, for  *)
(* every set of tasks, watches and runs, every number of threads and every  *)
(* value of the other constants.  The runner implements WatchRuntime, so    *)
(* that what is proved of the calls holds under it.                        *)
(***************************************************************************)
EXTENDS WatchRunner, WatchRuntimeLedger, EvidenceStoreProofs

USE DEF attemptVars

-----------------------------------------------------------------------------
(* Types. *)

LEMMA TypeInit == Init => TypeOK
<1> SUFFICES ASSUME Init PROVE TypeOK
  OBVIOUS
<1> USE DEF Init
<1>1. OutboxTypeOK
  BY OutboxInitInv DEF OutboxInv
<1>2. EvidenceTypeOK
  BY EvidenceInitType
<1>3. RuntimeTypeOK
  BY RuntimeAssumption DEF RuntimeInit, RuntimeTypeOK, Observation, Statuses
<1> QED BY <1>1, <1>2, <1>3 DEF TypeOK

LEMMA TypeStep == TypeOK /\ [Next]_vars => TypeOK'
<1> SUFFICES ASSUME TypeOK, [Next]_vars PROVE TypeOK'
  OBVIOUS
<1> USE DEF TypeOK, OutboxTypeOK, EvidenceTypeOK, RuntimeTypeOK
<1>1. CASE UNCHANGED vars
  BY <1>1 DEF vars, outboxVars, runtimeVars, evidenceVars, runVars
<1>2. ASSUME NEW r \in Runs, RunStep(r), UNCHANGED clock PROVE TypeOK'
  <2>1. WatchOf[r] \in WatchIds /\ ObserverAttempts \in Nat \ {0}
    BY RunsAssumption, RuntimeAssumption
  <2>2. CASE StartRun(r)
    <3>1. watches' \in [WatchIds -> WatchRow]
      BY <2>1, <2>2, WatchesType DEF StartRun
    <3>2. /\ runPhase' = [runPhase EXCEPT ![r] = "observing"]
          /\ tries' = [tries EXCEPT ![r] = 1]
          /\ UNCHANGED <<outboxVars, observations, authority, events, ledger, observed, runTime>>
      BY <2>2 DEF StartRun, GoTo
    <3>3. OutboxTypeOK'
      BY <1>2, <3>2 DEF outboxVars
    <3>4. EvidenceTypeOK'
      BY <3>1, <3>2 DEF WatchRow
    <3>5. RuntimeTypeOK'
      BY <2>1, <3>2 DEF Active
    <3> HIDE DEF OutboxTypeOK, EvidenceTypeOK, RuntimeTypeOK
    <3> QED BY <3>3, <3>4, <3>5
  <2>3. CASE \/ StartFails(r) \/ ObserveBreaks(r) \/ PersistFails(r) \/ PromoteStale(r)
             \/ PromoteMissing(r) \/ PromoteFails(r) \/ MarkErrorFails(r) \/ Die(r)
    BY <1>2, <2>1, <2>3
       DEF StartFails, ObserveBreaks, PersistFails, PromoteStale, PromoteMissing, PromoteFails,
           MarkErrorFails, Die, GoTo, outboxVars, evidenceVars, Active, Finished
  <2>4. CASE ObserverRetries(r)
    BY <1>2, <2>1, <2>4 DEF ObserverRetries, outboxVars, evidenceVars
  <2>5. ASSUME NEW observation \in Observation, Observed(r, observation) PROVE TypeOK'
    BY <1>2, <2>5 DEF Observed, GoTo, outboxVars, evidenceVars, Active
  <2>6. CASE ObserverReturns(r)
    BY <2>5, <2>6, RuntimeAssumption DEF ObserverReturns, Observation
  <2>7. CASE ObserverGivesUp(r)
    BY <2>5, <2>7 DEF ObserverGivesUp, Observation, Statuses
  <2>8. CASE Persist(r)
    <3>1. observations' \in [Runs -> [status : Statuses \cup {"ABSENT"},
                                      observed_at : Nat, created_at : Nat]]
      BY <2>8 DEF Persist, PersistObservation, Observation
    <3>2. watches' \in [WatchIds -> WatchRow]
      BY <2>1, <2>8, WatchesType DEF Persist
    <3>3. EvidenceTypeOK'
      BY <2>8, <3>1, <3>2 DEF Persist, PersistObservation, WatchRow
    <3>4. OutboxTypeOK'
      BY <1>2, <2>8 DEF Persist, outboxVars
    <3>5. RuntimeTypeOK'
      BY <2>1, <2>8 DEF Persist, GoTo, Active, Finished
    <3> HIDE DEF OutboxTypeOK, EvidenceTypeOK, RuntimeTypeOK
    <3> QED BY <3>3, <3>4, <3>5
  <2>9. CASE Promote(r)
    <3>1. PICK n \in 0..MaxDrafts : PromoteValidObservation(r, n, runTime[r])
      BY <2>9 DEF Promote
    <3>2. UNCHANGED <<watches, observations, deliveryAttempts, attemptSeq>>
      BY <3>1 DEF PromoteValidObservation, InsertOutbox
    <3> QED BY <1>2, <2>9, <3>1, <3>2, PromoteType, RuntimeAssumption DEF Promote, GoTo, Finished
  <2>10. CASE MarkError(r)
    <3>1. watches' \in [WatchIds -> WatchRow]
      BY <2>1, <2>10, WatchesType DEF MarkError
    <3>2. EvidenceTypeOK'
      BY <2>10, <3>1 DEF MarkError, WatchRow
    <3>3. OutboxTypeOK'
      BY <1>2, <2>10 DEF MarkError, outboxVars
    <3>4. RuntimeTypeOK'
      BY <2>1, <2>10 DEF MarkError, GoTo, Finished
    <3> HIDE DEF OutboxTypeOK, EvidenceTypeOK, RuntimeTypeOK
    <3> QED BY <3>2, <3>3, <3>4
  <2> QED BY <1>2, <2>2, <2>3, <2>4, <2>6, <2>7, <2>8, <2>9, <2>10 DEF RunStep, Continue
<1> QED BY <1>1, <1>2 DEF Next

\* Every variable keeps its type; the observer is never tried more often than its
\* retry policy allows.
THEOREM TypeCorrect == Spec => []TypeOK
<1>1. Init => TypeOK
  BY TypeInit
<1>2. TypeOK /\ [Next]_vars => TypeOK'
  BY TypeStep
<1> QED BY <1>1, <1>2, PTL DEF Spec

-----------------------------------------------------------------------------
(* RUNNING is explained. *)

\* A call that may have left its watch RUNNING.  A promoting call has not: its first
\* transaction set IDLE, so a RUNNING seen then is another call's.
Explains == {"observing", "persisting", "erroring", "dead", "unmarked"}

RunningInv ==
  \A w \in WatchIds : watches[w].run_status = "RUNNING" =>
    \E r \in RunsOf(w) : runPhase[r] \in Explains

LEMMA RunningStep ==
  ASSUME TypeOK, RunningInv, [Next]_vars
  PROVE  RunningInv'
<1> SUFFICES ASSUME NEW w \in WatchIds, watches'[w].run_status = "RUNNING"
             PROVE  \E r \in RunsOf(w) : runPhase'[r] \in Explains
  BY DEF RunningInv, RunsOf
<1> USE DEF TypeOK, EvidenceTypeOK, RuntimeTypeOK
<1>1. CASE UNCHANGED vars
  BY <1>1 DEF vars, runtimeVars, evidenceVars, runVars, RunningInv
<1>2. ASSUME NEW q \in Runs, RunStep(q) PROVE \E r \in RunsOf(w) : runPhase'[r] \in Explains
  <2> DEFINE v == WatchOf[q]
  <2>1. v \in WatchIds
    BY RunsAssumption
  <2>2. \A r \in Runs : r # q => runPhase'[r] = runPhase[r]
    BY <1>2
       DEF RunStep, Continue, StartRun, StartFails, ObserverReturns, ObserverRetries,
           ObserverGivesUp, Observed, ObserveBreaks, Persist, PersistFails, Promote,
           PromoteStale, PromoteMissing, PromoteFails, MarkError, MarkErrorFails, Die, GoTo
  <2>3. CASE StartRun(q)
    <3>1. runPhase'[q] = "observing"
      BY <2>3 DEF StartRun, GoTo
    <3>2. w # v => watches'[w] = watches[w]
      BY <2>3 DEF StartRun, MarkRunStarted
    <3>3. CASE w = v
      BY <3>1, <3>3 DEF RunsOf, Explains
    <3>4. CASE w # v
      BY <3>2, <3>4, <2>2 DEF RunningInv, RunsOf, Explains
    <3> QED BY <3>3, <3>4
  <2>4. CASE Persist(q)
    <3>1. w # v /\ watches'[w] = watches[w]
      BY <2>1, <2>4 DEF Persist, PersistObservation
    <3> QED BY <3>1, <2>2 DEF RunningInv, RunsOf
  <2>5. CASE MarkError(q)
    <3>1. w # v => watches'[w] = watches[w]
      BY <2>5 DEF MarkError, MarkRunError
    <3>2. CASE w # v
      BY <3>1, <3>2, <2>2 DEF RunningInv, RunsOf
    <3>3. CASE w = v
      <4>1. watches'[w].run_status \in {"ABSENT", "ERROR"}
        <5> DEFINE s == IF watches[w].run_status = "ABSENT" THEN "ABSENT" ELSE "ERROR"
        <5>1. watches' = [watches EXCEPT ![w] = [watches[w] EXCEPT !.run_status = s]]
          BY <2>5, <3>3, Zenon DEF MarkError, MarkRunError
        <5>2. s \in {"ABSENT", "ERROR"}
          OBVIOUS
        <5> HIDE DEF s
        <5> QED BY <5>1, <5>2
      <4> QED BY <4>1
    <3> QED BY <3>2, <3>3
  <2>6. ASSUME watches' = watches,
               \/ runPhase'[q] \in Explains
               \/ runPhase[q] \notin Explains
        PROVE  \E r \in RunsOf(w) : runPhase'[r] \in Explains
    BY <2>2, <2>6 DEF RunningInv, RunsOf
  <2>7. CASE \/ StartFails(q) \/ ObserverReturns(q) \/ ObserverRetries(q)
             \/ ObserverGivesUp(q) \/ ObserveBreaks(q) \/ PersistFails(q)
    BY <2>6, <2>7
       DEF StartFails, ObserverReturns, ObserverRetries, ObserverGivesUp, Observed,
           ObserveBreaks, PersistFails, GoTo, Explains, evidenceVars
  <2>8. CASE \/ Promote(q) \/ PromoteStale(q) \/ PromoteMissing(q) \/ PromoteFails(q)
             \/ MarkErrorFails(q) \/ Die(q)
    BY <2>6, <2>8
       DEF Promote, PromoteValidObservation, PromoteStale, PromoteMissing, PromoteFails,
           MarkErrorFails, Die, GoTo, Explains, evidenceVars
  <2> QED BY <1>2, <2>3, <2>4, <2>5, <2>7, <2>8 DEF RunStep, Continue
<1> QED BY <1>1, <1>2 DEF Next

\* A watch shows RUNNING only while a call is under way, or after one that died or
\* could not record its failure.
THEOREM RunningExplained == Spec => []RunningIsExplained
<1>1. Init => TypeOK /\ RunningInv
  BY TypeInit DEF Init, EvidenceInit, NoWatch, RunningInv
<1>2. TypeOK /\ RunningInv /\ [Next]_vars => (TypeOK /\ RunningInv)'
  BY TypeStep, RunningStep
<1>3. RunningInv => RunningIsExplained
  BY DEF RunningInv, RunningIsExplained, Explains, Active
<1> QED BY <1>1, <1>2, <1>3, PTL DEF Spec

-----------------------------------------------------------------------------
(* The two kinds of step: the transactions of record_observation, and those *)
(* that leave evidence and outbox alone.                                    *)

\* Where a step that leaves the evidence alone may take a call.
Local(r) ==
  \/ runPhase'[r] = runPhase[r] /\ observed'[r] = observed[r]
  \/ /\ runPhase[r] \notin Finished \cup {"promoting"}
     /\ runPhase'[r] \notin {"promoting", "returned"}
  \/ /\ runPhase[r] = "promoting" /\ observed'[r] = observed[r]
     /\ \/ runPhase'[r] \notin {"promoting", "returned"}
        \/ runPhase'[r] = "returned" /\ Stored(r) /\ Stale(r)

Quiet ==
  /\ UNCHANGED <<outbox, outboxSeq, observations, authority, events, ledger>>
  /\ \A r \in Runs : Local(r)

LEMMA QuietOrRecords ==
  ASSUME TypeOK, [Next]_vars
  PROVE  \/ Quiet
         \/ \E r \in Runs : Persist(r) \/ Promote(r)
<1>1. CASE UNCHANGED vars
  BY <1>1 DEF vars, outboxVars, runtimeVars, evidenceVars, runVars, Quiet, Local
<1>2. ASSUME NEW q \in Runs, RunStep(q) PROVE Quiet \/ Persist(q) \/ Promote(q)
  <2>1. ASSUME UNCHANGED <<outbox, outboxSeq, observations, authority, events, ledger>>,
               \A r \in Runs \ {q} : runPhase'[r] = runPhase[r] /\ observed'[r] = observed[r],
               Local(q)
        PROVE  Quiet
    BY <2>1 DEF Quiet, Local
  <2>2. CASE StartRun(q)
    BY <2>1, <2>2 DEF StartRun, GoTo, Local, Finished, outboxVars, TypeOK, RuntimeTypeOK
  <2>3. CASE StartFails(q) \/ ObserverRetries(q) \/ ObserveBreaks(q) \/ PersistFails(q)
    BY <2>1, <2>3
       DEF StartFails, ObserverRetries, ObserveBreaks, PersistFails, GoTo, Local, Finished,
           outboxVars, evidenceVars, TypeOK, RuntimeTypeOK
  <2>4. CASE ObserverReturns(q) \/ ObserverGivesUp(q)
    BY <2>1, <2>4
       DEF ObserverReturns, ObserverGivesUp, Observed, GoTo, Local, Finished, outboxVars,
           evidenceVars, TypeOK, RuntimeTypeOK
  <2>5. CASE PromoteStale(q) \/ PromoteMissing(q) \/ PromoteFails(q)
    BY <2>1, <2>5
       DEF PromoteStale, PromoteMissing, PromoteFails, GoTo, Local, outboxVars,
           evidenceVars, TypeOK, RuntimeTypeOK
  <2>6. CASE MarkError(q) \/ MarkErrorFails(q)
    BY <2>1, <2>6
       DEF MarkError, MarkErrorFails, GoTo, Local, Finished, outboxVars, evidenceVars,
           TypeOK, RuntimeTypeOK
  <2>7. CASE Die(q)
    BY <2>1, <2>7
       DEF Die, GoTo, Local, Active, Finished, outboxVars, evidenceVars, TypeOK, RuntimeTypeOK
  <2> QED BY <1>2, <2>2, <2>3, <2>4, <2>5, <2>6, <2>7 DEF RunStep, Continue
<1> QED BY <1>1, <1>2 DEF Next

\* The first transaction writes one observation that was not there.
LEMMA PersistEffect ==
  ASSUME TypeOK, NEW q \in Runs, Persist(q)
  PROVE  /\ ~Stored(q)
         /\ \A r \in Runs : r # q => observations'[r] = observations[r]
         /\ observations'[q].status = observed[q].status
         /\ observations'[q].observed_at = observed[q].observed_at
         /\ observed[q].status \in Statuses
         /\ \A r \in Runs : r # q => runPhase'[r] = runPhase[r]
         /\ runPhase[q] = "persisting"
         /\ runPhase'[q] = IF observed[q].status = "VALID" THEN "promoting" ELSE "returned"
         /\ UNCHANGED <<outbox, outboxSeq, authority, events, ledger, observed>>
BY DEF Persist, PersistObservation, GoTo, outboxVars, TypeOK, EvidenceTypeOK, RuntimeTypeOK,
       Observation

\* The second transaction moves authority and ledger of its watch forward.
LEMMA PromoteEffect ==
  ASSUME TypeOK, NEW q \in Runs, Promote(q)
  PROVE  \E n \in 0..MaxDrafts :
           /\ Stored(q) /\ ~Stale(q)
           /\ UNCHANGED <<watches, observations, observed>>
           /\ authority' = [authority EXCEPT ![WatchOf[q]] = q]
           /\ ledger' = [ledger EXCEPT ![WatchOf[q]] =
                Append(@, [previous |-> Previous(WatchOf[q]), current |-> q, drafts |-> n])]
           /\ InsertOutbox(n, runTime[q])
           /\ events' = [e \in EventIds |-> IF e \in NextIds(n)
                                            THEN [run |-> q, created_at |-> runTime[q]]
                                            ELSE events[e]]
           /\ runPhase[q] = "promoting" /\ runPhase'[q] = "returned"
           /\ \A r \in Runs : r # q => runPhase'[r] = runPhase[r]
BY DEF Promote, PromoteValidObservation, GoTo, TypeOK, RuntimeTypeOK

-----------------------------------------------------------------------------
(* The chain of transitions, and the authority at its end. *)

\* The transitions of a watch are to VALID observations of that watch.
EntriesValid ==
  \A w \in WatchIds : \A i \in DOMAIN ledger[w] :
    /\ WatchOf[ledger[w][i].current] = w
    /\ observations[ledger[w][i].current].status = "VALID"

\* What a promoting call observed is what its first transaction stored.
PromotingStored ==
  \A r \in Runs : runPhase[r] = "promoting" =>
    /\ observed[r].status = "VALID"
    /\ observations[r].status = "VALID"
    /\ observations[r].observed_at = observed[r].observed_at

ChainInv == TypeOK /\ TransitionsChain /\ EntriesValid /\ PromotingStored /\ AuthorityIsNewest

\* The authority is a VALID observation of its watch, and what _read_authoritative
\* finds.
LEMMA AuthorityFacts ==
  ASSUME ChainInv, NEW w \in WatchIds
  PROVE  /\ Previous(w) = authority[w]
         /\ authority[w] # None =>
              /\ authority[w] \in Runs
              /\ WatchOf[authority[w]] = w
              /\ observations[authority[w]].status = "VALID"
              /\ Stored(authority[w])
<1> USE DEF ChainInv, TypeOK, EvidenceTypeOK
<1>1. ledger[w] \in Seq(Promotion) /\ authority[w] \in Runs \cup {None}
  OBVIOUS
<1>2. ASSUME authority[w] # None
      PROVE  WatchOf[authority[w]] = w /\ observations[authority[w]].status = "VALID"
  <2>1. ledger[w] # <<>> /\ authority[w] = ledger[w][Len(ledger[w])].current
    BY <1>2 DEF TransitionsChain
  <2>2. Len(ledger[w]) \in DOMAIN ledger[w]
    BY <1>1, <2>1
  <2> QED BY <2>1, <2>2 DEF EntriesValid
<1> QED BY <1>1, <1>2 DEF Previous, Stored

LEMMA ChainQuiet ==
  ASSUME ChainInv, Quiet
  PROVE  TransitionsChain' /\ EntriesValid' /\ PromotingStored' /\ AuthorityIsNewest'
<1>1. TransitionsChain' /\ EntriesValid'
  BY DEF Quiet, ChainInv, TransitionsChain, EntriesValid
<1>2. PromotingStored'
  BY DEF Quiet, Local, ChainInv, PromotingStored
<1>3. AuthorityIsNewest'
  <2> SUFFICES ASSUME NEW r \in Runs, runPhase'[r] = "returned", observed'[r].status = "VALID"
               PROVE  \E a \in RunsOf(WatchOf[r]) :
                        /\ authority[WatchOf[r]] = a
                        /\ observations[a].status = "VALID"
                        /\ observed'[r].observed_at <= observations[a].observed_at
    BY DEF Quiet, AuthorityIsNewest, RunsOf
  <2>1. CASE runPhase'[r] = runPhase[r] /\ observed'[r] = observed[r]
    BY <2>1 DEF ChainInv, AuthorityIsNewest
  <2>2. CASE runPhase[r] = "promoting" /\ observed'[r] = observed[r] /\ Stale(r)
    <3> DEFINE a == authority[WatchOf[r]]
    <3>1. WatchOf[r] \in WatchIds
      BY RunsAssumption
    <3>2. a # None /\ observations[r].observed_at <= observations[a].observed_at
      BY <2>2, <3>1, AuthorityFacts DEF Stale
    <3>3. observed[r].observed_at = observations[r].observed_at
      BY <2>2 DEF ChainInv, PromotingStored
    <3> QED BY <2>2, <3>1, <3>2, <3>3, AuthorityFacts DEF RunsOf
  <2> QED BY <2>1, <2>2 DEF Quiet, Local, Finished
<1> QED BY <1>1, <1>2, <1>3

LEMMA ChainPersist ==
  ASSUME ChainInv, NEW q \in Runs, Persist(q)
  PROVE  TransitionsChain' /\ EntriesValid' /\ PromotingStored' /\ AuthorityIsNewest'
<1> USE DEF ChainInv
<1>1. \A r \in Runs : observations[r].status = "VALID" =>
        r # q /\ observations'[r] = observations[r]
  BY PersistEffect DEF Stored
<1>2. UNCHANGED <<authority, ledger, observed>>
  BY PersistEffect
<1>3. \A w \in WatchIds : \A i \in DOMAIN ledger[w] : ledger[w][i].current \in Runs
  <2> SUFFICES ASSUME NEW w \in WatchIds, NEW i \in DOMAIN ledger[w]
               PROVE  ledger[w][i] \in Promotion
    BY DEF Promotion
  <2>1. ledger[w] \in Seq(Promotion)
    BY DEF TypeOK, EvidenceTypeOK
  <2> QED BY <2>1
<1>4. \A w \in WatchIds : \A i \in DOMAIN ledger[w] :
        observations'[ledger[w][i].current] = observations[ledger[w][i].current]
  BY <1>1, <1>3 DEF EntriesValid
<1>5. EntriesValid'
  BY <1>2, <1>4 DEF EntriesValid
<1>6. TransitionsChain'
  <2> SUFFICES ASSUME NEW w \in WatchIds, NEW i \in DOMAIN ledger[w], i > 1
               PROVE  observations'[ledger[w][i - 1].current].observed_at
                        < observations'[ledger[w][i].current].observed_at
    BY <1>2 DEF TransitionsChain
  <2>1. i - 1 \in DOMAIN ledger[w]
    BY DEF TypeOK, EvidenceTypeOK
  <2> QED BY <1>4, <2>1 DEF TransitionsChain
<1>7. PromotingStored'
  BY <1>1, PersistEffect DEF PromotingStored
<1>8. AuthorityIsNewest'
  <2> SUFFICES ASSUME NEW r \in Runs, runPhase'[r] = "returned", observed'[r].status = "VALID"
               PROVE  \E a \in RunsOf(WatchOf[r]) :
                        /\ authority'[WatchOf[r]] = a
                        /\ observations'[a].status = "VALID"
                        /\ observed'[r].observed_at <= observations'[a].observed_at
    BY DEF AuthorityIsNewest, RunsOf
  <2>1. r # q /\ runPhase[r] = "returned"
    BY <1>2, PersistEffect
  <2>2. PICK a \in RunsOf(WatchOf[r]) :
          /\ authority[WatchOf[r]] = a
          /\ observations[a].status = "VALID"
          /\ observed[r].observed_at <= observations[a].observed_at
    BY <1>2, <2>1 DEF AuthorityIsNewest
  <2> QED BY <1>1, <1>2, <2>2 DEF RunsOf
<1> QED BY <1>5, <1>6, <1>7, <1>8

LEMMA ChainPromote ==
  ASSUME ChainInv, NEW q \in Runs, Promote(q)
  PROVE  TransitionsChain' /\ EntriesValid' /\ PromotingStored' /\ AuthorityIsNewest'
<1> DEFINE v == WatchOf[q]
<1>1. PICK n \in 0..MaxDrafts :
        /\ Stored(q) /\ ~Stale(q)
        /\ UNCHANGED <<observations, observed>>
        /\ authority' = [authority EXCEPT ![v] = q]
        /\ ledger' = [ledger EXCEPT ![v] =
             Append(@, [previous |-> Previous(v), current |-> q, drafts |-> n])]
        /\ runPhase[q] = "promoting" /\ runPhase'[q] = "returned"
        /\ \A r \in Runs : r # q => runPhase'[r] = runPhase[r]
  BY PromoteEffect DEF ChainInv
<1>2. v \in WatchIds
  BY RunsAssumption
<1> DEFINE log   == ledger[v]
           entry == [previous |-> authority[v], current |-> q, drafts |-> n]
<1>3. /\ log \in Seq(Promotion)
      /\ Len(log) \in Nat /\ DOMAIN log = 1..Len(log)
      /\ log = <<>> <=> Len(log) = 0
  BY <1>2 DEF ChainInv, TypeOK, EvidenceTypeOK
<1>4. ledger' = [ledger EXCEPT ![v] = Append(log, entry)]
  BY <1>1, <1>2, AuthorityFacts
<1>5. /\ ledger'[v] = Append(log, entry)
      /\ Len(Append(log, entry)) = Len(log) + 1
      /\ Append(log, entry)[Len(log) + 1] = entry
      /\ DOMAIN Append(log, entry) = 1..(Len(log) + 1)
      /\ \A i \in 1..Len(log) : Append(log, entry)[i] = log[i]
  <2>1. entry \in Promotion
    BY <1>2, RuntimeAssumption DEF Promotion, ChainInv, TypeOK, EvidenceTypeOK
  <2>2. ledger'[v] = Append(log, entry)
    BY <1>2, <1>4 DEF ChainInv, TypeOK, EvidenceTypeOK
  <2> HIDE DEF log, entry
  <2> QED BY <1>3, <2>1, <2>2
<1>6. \A w \in WatchIds : w # v => ledger'[w] = ledger[w] /\ authority'[w] = authority[w]
  BY <1>1, <1>4 DEF ChainInv, TypeOK, EvidenceTypeOK
<1>7. authority'[v] = q
  BY <1>1, <1>2 DEF ChainInv, TypeOK, EvidenceTypeOK
<1>8. /\ observations[q].status = "VALID"
      /\ observed[q].observed_at = observations[q].observed_at
  BY <1>1 DEF ChainInv, PromotingStored
<1>9. authority[v] # None =>
        observations[authority[v]].observed_at < observations[q].observed_at
  <2>1. \A r \in Runs : observations[r].observed_at \in Nat
    BY DEF ChainInv, TypeOK, EvidenceTypeOK
  <2> QED BY <1>1, <1>2, <2>1, AuthorityFacts DEF Stale
<1>10. authority[v] = IF log = <<>> THEN None ELSE log[Len(log)].current
  BY <1>2 DEF ChainInv, TransitionsChain
<1>11. EntriesValid'
  <2> SUFFICES ASSUME NEW w \in WatchIds, NEW i \in DOMAIN ledger'[w]
               PROVE  /\ WatchOf[ledger'[w][i].current] = w
                      /\ observations[ledger'[w][i].current].status = "VALID"
    BY <1>1 DEF EntriesValid
  <2>1. CASE w # v
    BY <1>6, <2>1 DEF ChainInv, EntriesValid
  <2>2. CASE w = v /\ i \in 1..Len(log)
    BY <1>3, <1>5, <2>2 DEF ChainInv, EntriesValid
  <2>3. CASE w = v /\ i = Len(log) + 1
    BY <1>5, <1>8, <2>3
  <2> QED BY <1>3, <1>5, <2>1, <2>2, <2>3
<1>12. TransitionsChain'
  <2>1. ASSUME NEW w \in WatchIds
        PROVE  authority'[w] = IF ledger'[w] = <<>> THEN None
                               ELSE ledger'[w][Len(ledger'[w])].current
    <3>1. CASE w # v
      BY <1>6, <3>1 DEF ChainInv, TransitionsChain
    <3>2. CASE w = v
      <4>1. ledger'[v] # <<>>
        <5>1. Len(ledger'[v]) = Len(log) + 1 /\ Len(log) \in Nat
          BY <1>3, <1>5
        <5> HIDE DEF log
        <5> QED BY <5>1
      <4> QED BY <1>5, <1>7, <3>2, <4>1
    <3> QED BY <3>1, <3>2
  <2>2. ASSUME NEW w \in WatchIds, NEW i \in DOMAIN ledger'[w]
        PROVE  /\ ledger'[w][i].previous =
                    IF i = 1 THEN None ELSE ledger'[w][i - 1].current
               /\ i > 1 => observations[ledger'[w][i - 1].current].observed_at
                             < observations[ledger'[w][i].current].observed_at
    <3>1. CASE w # v
      BY <1>6, <3>1 DEF ChainInv, TransitionsChain
    <3>2. CASE w = v /\ i \in 1..Len(log)
      <4>1. i # 1 => i - 1 \in 1..Len(log)
        BY <1>3, <3>2
      <4>2. /\ ledger'[v][i] = log[i]
            /\ i # 1 => ledger'[v][i - 1] = log[i - 1]
        BY <1>5, <3>2, <4>1
      <4>3. i \in DOMAIN ledger[v]
        BY <1>3, <3>2
      <4> QED BY <1>2, <3>2, <4>2, <4>3 DEF ChainInv, TransitionsChain
    <3>3. CASE w = v /\ i = Len(log) + 1
      <4>1. ledger'[v][i] = entry
        BY <1>5, <3>3
      <4>2. CASE Len(log) = 0
        BY <1>3, <1>10, <3>3, <4>1, <4>2
      <4>3. CASE Len(log) # 0
        <5>1. i # 1 /\ i - 1 = Len(log) /\ Len(log) \in 1..Len(log)
          BY <1>3, <3>3, <4>3
        <5>2. ledger'[v][i - 1].current = authority[v]
          BY <1>3, <1>5, <1>10, <4>3, <5>1
        <5>3. authority[v] # None
          <6>1. log[Len(log)] \in Promotion
            BY <1>3, <5>1
          <6> QED BY <1>3, <1>10, <4>3, <6>1, RunsAssumption DEF Promotion
        <5> QED BY <1>9, <3>3, <4>1, <5>1, <5>2, <5>3
      <4> QED BY <4>2, <4>3
    <3> QED BY <1>5, <1>3, <3>1, <3>2, <3>3
  <2> QED BY <1>1, <2>1, <2>2 DEF TransitionsChain
<1>13. PromotingStored'
  BY <1>1 DEF ChainInv, PromotingStored
<1>14. AuthorityIsNewest'
  <2> SUFFICES ASSUME NEW r \in Runs, runPhase'[r] = "returned", observed[r].status = "VALID"
               PROVE  \E a \in RunsOf(WatchOf[r]) :
                        /\ authority'[WatchOf[r]] = a
                        /\ observations[a].status = "VALID"
                        /\ observed[r].observed_at <= observations[a].observed_at
    BY <1>1 DEF AuthorityIsNewest, RunsOf
  <2>1. /\ WatchOf[r] \in WatchIds /\ q \in RunsOf(v)
        /\ \A a \in Runs : observations[a].observed_at \in Nat
        /\ observed[r].observed_at \in Nat
    BY RunsAssumption DEF RunsOf, ChainInv, TypeOK, EvidenceTypeOK, RuntimeTypeOK, Observation
  <2>2. CASE r = q
    BY <1>7, <1>8, <2>1, <2>2
  <2>3. CASE r # q /\ WatchOf[r] # v
    BY <1>1, <1>6, <2>1, <2>3 DEF ChainInv, AuthorityIsNewest
  <2>4. CASE r # q /\ WatchOf[r] = v
    <3>1. PICK a \in RunsOf(v) : /\ authority[v] = a
                                 /\ observed[r].observed_at <= observations[a].observed_at
      BY <1>1, <2>4 DEF ChainInv, AuthorityIsNewest
    <3>2. a \in Runs /\ a # None
      BY RunsAssumption DEF RunsOf
    <3> QED BY <1>7, <1>8, <1>9, <2>1, <2>4, <3>1, <3>2
  <2> QED BY <2>2, <2>3, <2>4
<1> QED BY <1>11, <1>12, <1>13, <1>14

LEMMA ChainStep == ChainInv /\ [Next]_vars => ChainInv'
BY TypeStep, QuietOrRecords, ChainQuiet, ChainPersist, ChainPromote DEF ChainInv

LEMMA ChainInit == Init => ChainInv
<1> SUFFICES ASSUME Init PROVE ChainInv
  OBVIOUS
<1>1. \A w \in WatchIds : ledger[w] = <<>> /\ authority[w] = None
  BY DEF Init, EvidenceInit
<1>2. DOMAIN <<>> = {}
  OBVIOUS
<1>3. TransitionsChain /\ EntriesValid
  BY <1>1, <1>2 DEF TransitionsChain, EntriesValid
<1>4. PromotingStored /\ AuthorityIsNewest
  BY DEF Init, RuntimeInit, PromotingStored, AuthorityIsNewest
<1> QED BY <1>3, <1>4, TypeInit DEF ChainInv

\* The transitions the policy has judged form one chain per watch, strictly forward
\* in time, with the authority at its end, in whatever order calls commit.
THEOREM TransitionsCorrect == Spec => []TransitionsChain
<1>1. ChainInv => TransitionsChain
  BY DEF ChainInv
<1> QED BY <1>1, ChainInit, ChainStep, PTL DEF Spec

\* Once a VALID observation has been returned, the authority is VALID and at least as
\* new.
THEOREM AuthorityCorrect == Spec => []AuthorityIsNewest
<1>1. ChainInv => AuthorityIsNewest
  BY DEF ChainInv
<1> QED BY <1>1, ChainInit, ChainStep, PTL DEF Spec

-----------------------------------------------------------------------------
(* Promotions are atomic. *)

AtomicInv == TypeOK /\ PromotionIsAtomic /\ UnusedIds

LEMMA PromotionRuns ==
  ASSUME TypeOK, NEW w \in WatchIds, NEW p \in Promotions(w)
  PROVE  p \in Promotion /\ p.current \in Runs
<1>1. ledger[w] \in Seq(Promotion)
  BY DEF TypeOK, EvidenceTypeOK
<1>2. PICK i \in DOMAIN ledger[w] : p = ledger[w][i]
  BY DEF Promotions
<1>3. ledger[w][i] \in Promotion
  BY <1>1
<1> QED BY <1>2, <1>3 DEF Promotion

\* Steps that leave events, outbox and ledger alone.
LEMMA AtomicUnchanged ==
  ASSUME AtomicInv,
         UNCHANGED <<outbox, outboxSeq, events, ledger>>,
         \A r \in Runs : runPhase[r] = "returned" => runPhase'[r] = "returned"
  PROVE  PromotionIsAtomic' /\ UnusedIds'
<1>1. UnusedIds'
  BY DEF AtomicInv, UnusedIds
<1>2. /\ \A r \in Runs : EventsOf(r)' = EventsOf(r)
      /\ \A w \in WatchIds : Promotions(w)' = Promotions(w)
  BY DEF EventsOf, Promotions
<1>3. \A e \in EventIds : outbox'[e].status = "ABSENT" <=> events'[e].run = None
  BY DEF AtomicInv, PromotionIsAtomic
<1>4. ASSUME NEW w \in WatchIds, NEW p \in Promotions(w)'
      PROVE  Cardinality(EventsOf(p.current)') = p.drafts /\ runPhase'[p.current] = "returned"
  BY <1>2, <1>4, PromotionRuns DEF AtomicInv, PromotionIsAtomic
<1>5. ASSUME NEW r \in Runs, EventsOf(r)' # {}
      PROVE  \E p \in Promotions(WatchOf[r])' : p.current = r
  BY <1>2, <1>5, RunsAssumption DEF AtomicInv, PromotionIsAtomic
<1> QED BY <1>1, <1>3, <1>4, <1>5 DEF PromotionIsAtomic

LEMMA AtomicPromote ==
  ASSUME AtomicInv, NEW q \in Runs, Promote(q)
  PROVE  PromotionIsAtomic' /\ UnusedIds'
<1> DEFINE v == WatchOf[q]
<1>1. PICK n \in 0..MaxDrafts :
        /\ ledger' = [ledger EXCEPT ![v] =
             Append(@, [previous |-> Previous(v), current |-> q, drafts |-> n])]
        /\ InsertOutbox(n, runTime[q])
        /\ events' = [e \in EventIds |-> IF e \in NextIds(n)
                                         THEN [run |-> q, created_at |-> runTime[q]]
                                         ELSE events[e]]
        /\ runPhase[q] = "promoting" /\ runPhase'[q] = "returned"
        /\ \A r \in Runs : r # q => runPhase'[r] = runPhase[r]
  BY PromoteEffect DEF AtomicInv
<1> DEFINE entry == [previous |-> Previous(v), current |-> q, drafts |-> n]
<1>2. v \in WatchIds /\ n \in Nat /\ outboxSeq \in Nat /\ q # None
  BY RunsAssumption, RuntimeAssumption, MaxEventsAssumption
     DEF AtomicInv, TypeOK, OutboxTypeOK
<1>3. /\ outboxSeq + n <= MaxEvents /\ outboxSeq' = outboxSeq + n
      /\ outbox' = [e \in EventIds |->
           IF e \in NextIds(n)
           THEN [status |-> "PENDING", attempts |-> 0, next_attempt_at |-> runTime[q]]
           ELSE outbox[e]]
  BY <1>1 DEF InsertOutbox
<1>4. NextIds(n) \subseteq EventIds /\ \A e \in NextIds(n) : e > outboxSeq
  BY <1>2, <1>3, MaxEventsAssumption DEF NextIds, EventIds
<1>5. \A e \in NextIds(n) : events[e].run = None
  BY <1>4 DEF AtomicInv, UnusedIds, PromotionIsAtomic, NoRow
<1>6. Cardinality(NextIds(n)) = n
  <2>1. outboxSeq + 1 \in Int /\ outboxSeq + n \in Int
    BY <1>2
  <2>2. Cardinality(NextIds(n)) = IF outboxSeq + 1 > outboxSeq + n THEN 0
                                  ELSE (outboxSeq + n) - (outboxSeq + 1) + 1
    BY <2>1, FS_Interval DEF NextIds
  <2> QED BY <1>2, <2>2
<1>7. EventsOf(q) = {}
  <2> SUFFICES ASSUME NEW p \in Promotions(v), p.current = q PROVE FALSE
    BY <1>2 DEF AtomicInv, PromotionIsAtomic
  <2> QED BY <1>1, <1>2 DEF AtomicInv, PromotionIsAtomic
<1>8. EventsOf(q)' = NextIds(n)
  BY <1>1, <1>4, <1>7 DEF EventsOf
<1>9. \A r \in Runs : r # q => EventsOf(r)' = EventsOf(r)
  BY <1>1, <1>2, <1>4, <1>5, RunsAssumption DEF EventsOf
<1>10. /\ \A w \in WatchIds : w # v => Promotions(w)' = Promotions(w)
       /\ Promotions(v)' = Promotions(v) \cup {entry}
  <2>1. /\ ledger \in [WatchIds -> Seq(Promotion)]
        /\ ledger' = [ledger EXCEPT ![v] = Append(ledger[v], entry)]
    BY <1>1 DEF AtomicInv, TypeOK, EvidenceTypeOK
  <2>2. ledger[v] \in Seq(Promotion) /\ entry \in Promotion
    <3>1. Previous(v) \in Runs \cup {None}
      BY <1>2 DEF Previous, AtomicInv, TypeOK, EvidenceTypeOK
    <3> QED BY <1>2, <2>1, <3>1 DEF Promotion
  <2>3. \A w \in WatchIds : w # v => ledger'[w] = ledger[w]
    BY <2>1
  <2>4. ledger'[v] = Append(ledger[v], entry)
    BY <1>2, <2>1
  <2> DEFINE log == ledger[v]
  <2>5. /\ Len(log) \in Nat /\ DOMAIN log = 1..Len(log)
        /\ DOMAIN Append(log, entry) = 1..(Len(log) + 1)
        /\ \A i \in 1..Len(log) : Append(log, entry)[i] = log[i]
        /\ Append(log, entry)[Len(log) + 1] = entry
    <3> HIDE DEF entry
    <3> QED BY <2>2
  <2>6. {Append(log, entry)[i] : i \in DOMAIN Append(log, entry)}
          = {log[i] : i \in DOMAIN log} \cup {entry}
    <3> HIDE DEF log, entry
    <3>1. 1..(Len(log) + 1) = (1..Len(log)) \cup {Len(log) + 1}
      BY <2>5
    <3> QED BY <2>5, <3>1
  <2>7. \A w \in WatchIds : w # v => Promotions(w)' = Promotions(w)
    BY <2>3, Zenon DEF Promotions
  <2>8. Promotions(v)' = Promotions(v) \cup {entry}
    <3> HIDE DEF entry, v
    <3> QED BY <2>4, <2>6, Zenon DEF Promotions
  <2> QED BY <2>7, <2>8
<1>11. UnusedIds'
  <2> SUFFICES ASSUME NEW e \in EventIds, e > outboxSeq + n PROVE outbox'[e] = NoRow
    BY <1>3 DEF UnusedIds
  <2>1. e > outboxSeq /\ e \notin NextIds(n)
    BY <1>2, MaxEventsAssumption DEF NextIds, EventIds
  <2> QED BY <1>3, <2>1 DEF UnusedIds, AtomicInv
<1>12. \A e \in EventIds : outbox'[e].status = "ABSENT" <=> events'[e].run = None
  BY <1>1, <1>2, <1>3 DEF AtomicInv, PromotionIsAtomic
<1>13. ASSUME NEW w \in WatchIds, NEW p \in Promotions(w)'
       PROVE  Cardinality(EventsOf(p.current)') = p.drafts /\ runPhase'[p.current] = "returned"
  <2>1. CASE p \in Promotions(w)
    <3>1. /\ Cardinality(EventsOf(p.current)) = p.drafts
          /\ runPhase[p.current] = "returned" /\ p.current \in Runs
      BY <2>1, PromotionRuns DEF AtomicInv, PromotionIsAtomic
    <3>2. p.current # q
      BY <1>1, <3>1
    <3> QED BY <1>1, <1>9, <3>1, <3>2
  <2>2. CASE p = entry
    BY <1>1, <1>6, <1>8, <2>2
  <2> QED BY <1>2, <1>10, <1>13, <2>1, <2>2
<1>14. ASSUME NEW r \in Runs, EventsOf(r)' # {}
       PROVE  \E p \in Promotions(WatchOf[r])' : p.current = r
  <2>1. CASE r = q
    <3>1. entry \in Promotions(v)' /\ entry.current = q
      BY <1>10
    <3> QED BY <2>1, <3>1
  <2>2. CASE r # q
    <3>1. PICK p \in Promotions(WatchOf[r]) : p.current = r
      BY <1>9, <1>14, <2>2 DEF AtomicInv, PromotionIsAtomic
    <3> QED BY <1>10, <3>1, RunsAssumption
  <2> QED BY <2>1, <2>2
<1> QED BY <1>11, <1>12, <1>13, <1>14 DEF PromotionIsAtomic

LEMMA AtomicStep == AtomicInv /\ [Next]_vars => AtomicInv'
<1> SUFFICES ASSUME AtomicInv, [Next]_vars PROVE PromotionIsAtomic' /\ UnusedIds'
  BY TypeStep DEF AtomicInv
<1>1. CASE Quiet
  BY <1>1, AtomicUnchanged DEF Quiet, Local, Finished
<1>2. ASSUME NEW q \in Runs, Persist(q) PROVE PromotionIsAtomic' /\ UnusedIds'
  <2>1. \A r \in Runs : runPhase[r] = "returned" => runPhase'[r] = "returned"
    BY <1>2, PersistEffect DEF AtomicInv
  <2> QED BY <1>2, <2>1, PersistEffect, AtomicUnchanged DEF AtomicInv
<1>3. ASSUME NEW q \in Runs, Promote(q) PROVE PromotionIsAtomic' /\ UnusedIds'
  BY <1>3, AtomicPromote
<1> QED BY <1>1, <1>2, <1>3, QuietOrRecords DEF AtomicInv

\* Events, outbox rows and authority of a promotion appear together or not at all.
THEOREM PromotionAtomic == Spec => []PromotionIsAtomic
<1>1. ASSUME Init PROVE AtomicInv
  <2>1. \A w \in WatchIds : Promotions(w) = {}
    <3>1. DOMAIN <<>> = {}
      OBVIOUS
    <3> QED BY <1>1, <3>1 DEF Init, EvidenceInit, Promotions
  <2>2. \A r \in Runs : EventsOf(r) = {}
    BY <1>1, RunsAssumption DEF Init, EvidenceInit, EventsOf, NoEvent
  <2>3. \A e \in EventIds :
          outbox[e] = NoRow /\ outbox[e].status = "ABSENT" /\ events[e].run = None
    BY <1>1 DEF Init, OutboxInit, EvidenceInit, NoRow, NoEvent
  <2> QED BY <1>1, <2>1, <2>2, <2>3, TypeInit DEF AtomicInv, PromotionIsAtomic, UnusedIds
<1>2. AtomicInv => PromotionIsAtomic
  BY DEF AtomicInv
<1> QED BY <1>1, <1>2, AtomicStep, PTL DEF Spec

-----------------------------------------------------------------------------
(* Executions are counted. *)

StoredRuns(w) == {r \in RunsOf(w) : Stored(r)}

\* Only finitely many calls have stored anything, so that Cardinality counts; and a
\* watch without a row has counted nothing, so that _ensure_watch may start at 0.
CountInv ==
  /\ TypeOK
  /\ \A w \in WatchIds :
       /\ IsFiniteSet(StoredRuns(w))
       /\ watches[w].execution_count = Cardinality(StoredRuns(w))
       /\ watches[w].run_status = "ABSENT" => watches[w].execution_count = 0

\* Steps that count nothing.
LEMMA CountUnchanged ==
  ASSUME CountInv, TypeOK', observations' = observations,
         \A w \in WatchIds :
           /\ watches'[w].execution_count = watches[w].execution_count
           /\ watches'[w].run_status = "ABSENT" => watches[w].run_status = "ABSENT"
  PROVE  CountInv'
<1>1. \A w \in WatchIds : StoredRuns(w)' = StoredRuns(w)
  BY DEF StoredRuns, RunsOf, Stored
<1> QED BY <1>1 DEF CountInv

LEMMA CountPersist ==
  ASSUME CountInv, TypeOK', NEW q \in Runs, Persist(q)
  PROVE  CountInv'
<1> DEFINE v == WatchOf[q]
<1>1. v \in WatchIds
  BY RunsAssumption
<1>2. /\ q \notin StoredRuns(v)
      /\ StoredRuns(v)' = StoredRuns(v) \cup {q}
      /\ \A w \in WatchIds : w # v => StoredRuns(w)' = StoredRuns(w)
  BY PersistEffect DEF CountInv, StoredRuns, RunsOf, Stored, Statuses
<1>3. Ensured(v).execution_count = watches[v].execution_count
  BY <1>1 DEF Ensured, CountInv
<1>4. /\ watches'[v].run_status = "IDLE"
      /\ watches'[v].execution_count = watches[v].execution_count + 1
      /\ \A w \in WatchIds : w # v => watches'[w] = watches[w]
  BY <1>1, <1>3 DEF Persist, PersistObservation, CountInv, TypeOK, EvidenceTypeOK
<1>5. /\ IsFiniteSet(StoredRuns(v) \cup {q})
      /\ Cardinality(StoredRuns(v) \cup {q}) = Cardinality(StoredRuns(v)) + 1
  BY <1>1, <1>2, FS_AddElement DEF CountInv
<1> QED BY <1>1, <1>2, <1>4, <1>5 DEF CountInv

LEMMA CountStep == CountInv /\ [Next]_vars => CountInv'
<1> SUFFICES ASSUME CountInv, [Next]_vars PROVE CountInv'
  OBVIOUS
<1> TypeOK'
  BY TypeStep DEF CountInv
<1>1. CASE UNCHANGED vars
  BY <1>1, CountUnchanged DEF vars, runtimeVars, evidenceVars
<1>2. ASSUME NEW q \in Runs, RunStep(q) PROVE CountInv'
  <2> DEFINE v == WatchOf[q]
  <2>1. v \in WatchIds
    BY RunsAssumption
  <2>2. CASE StartRun(q)
    <3>1. Ensured(v).execution_count = watches[v].execution_count
      BY <2>1 DEF Ensured, CountInv
    <3>2. watches' = [watches EXCEPT ![v] = [Ensured(v) EXCEPT !.run_status = "RUNNING"]]
      BY <2>2 DEF StartRun, MarkRunStarted
    <3>3. watches'[v].execution_count = watches[v].execution_count
          /\ watches'[v].run_status # "ABSENT"
      BY <2>1, <3>1, <3>2, EnsuredType DEF CountInv, TypeOK, EvidenceTypeOK
    <3>4. \A w \in WatchIds : w # v => watches'[w] = watches[w]
      BY <3>2 DEF CountInv, TypeOK, EvidenceTypeOK
    <3> QED BY <2>2, <3>3, <3>4, CountUnchanged DEF StartRun
  <2>3. CASE MarkError(q)
    <3> DEFINE s == IF watches[v].run_status = "ABSENT" THEN "ABSENT" ELSE "ERROR"
    <3>1. watches' = [watches EXCEPT ![v] = [watches[v] EXCEPT !.run_status = s]]
      BY <2>1, <2>3, Zenon DEF MarkError, MarkRunError, CountInv
    <3>2. s = "ABSENT" => watches[v].run_status = "ABSENT"
      OBVIOUS
    <3> HIDE DEF s
    <3>3. /\ watches'[v].execution_count = watches[v].execution_count
          /\ watches'[v].run_status = s
          /\ \A w \in WatchIds : w # v => watches'[w] = watches[w]
      BY <2>1, <3>1 DEF CountInv, TypeOK, EvidenceTypeOK
    <3> QED BY <2>3, <3>2, <3>3, CountUnchanged DEF MarkError
  <2>4. CASE Persist(q)
    BY <2>4, CountPersist
  <2>5. CASE Promote(q)
    BY <2>5, PromoteEffect, CountUnchanged DEF CountInv
  <2>6. CASE \/ StartFails(q) \/ ObserverReturns(q) \/ ObserverRetries(q)
             \/ ObserverGivesUp(q) \/ ObserveBreaks(q) \/ PersistFails(q)
    BY <2>6, CountUnchanged
       DEF StartFails, ObserverReturns, ObserverRetries, ObserverGivesUp, Observed,
           ObserveBreaks, PersistFails, evidenceVars
  <2>7. CASE \/ PromoteStale(q) \/ PromoteMissing(q) \/ PromoteFails(q)
             \/ MarkErrorFails(q) \/ Die(q)
    BY <2>7, CountUnchanged
       DEF PromoteStale, PromoteMissing, PromoteFails, MarkErrorFails, Die, evidenceVars
  <2> QED BY <1>2, <2>2, <2>3, <2>4, <2>5, <2>6, <2>7 DEF RunStep, Continue
<1> QED BY <1>1, <1>2 DEF Next

\* execution_count is the number of observations that were stored.
THEOREM ExecutionsCorrect == Spec => []ExecutionsCounted
<1>1. ASSUME Init PROVE CountInv
  <2>1. \A w \in WatchIds : StoredRuns(w) = {}
    BY <1>1 DEF Init, EvidenceInit, StoredRuns, RunsOf, Stored, NoObservation
  <2>2. \A w \in WatchIds : watches[w].execution_count = 0
    BY <1>1 DEF Init, EvidenceInit, NoWatch
  <2> QED BY <1>1, <2>1, <2>2, TypeInit, FS_EmptySet DEF CountInv
<1>2. CountInv => ExecutionsCounted
  BY DEF CountInv, ExecutionsCounted, StoredRuns
<1> QED BY <1>1, <1>2, CountStep, PTL DEF Spec
-----------------------------------------------------------------------------
(* run_once implements the ledger. *)

\* The clock of this module stands still, and an observation was reported by an
\* observer or made up when the attempts were used up.
LedgerInv ==
  /\ ChainInv
  /\ clock = 0
  /\ \A r \in Runs : observed[r].observed_at \in ObservedTimes \cup {0}

LEMMA LedgerInvStep == LedgerInv /\ [Next]_vars => LedgerInv'
<1> SUFFICES ASSUME LedgerInv, [Next]_vars PROVE LedgerInv'
  OBVIOUS
<1>1. clock' = 0
  BY DEF LedgerInv, Next, vars
<1>2. ASSUME NEW r \in Runs PROVE observed'[r].observed_at \in ObservedTimes \cup {0}
  <2>1. CASE observed' = observed
    BY <2>1 DEF LedgerInv
  <2>2. ASSUME NEW q \in Runs, NEW observation, Observed(q, observation),
               observation.observed_at \in ObservedTimes \cup {0}
        PROVE  observed'[r].observed_at \in ObservedTimes \cup {0}
    BY <2>2 DEF Observed, LedgerInv, ChainInv, TypeOK, RuntimeTypeOK
  <2>3. ASSUME NEW q \in Runs, ObserverReturns(q)
        PROVE  observed'[r].observed_at \in ObservedTimes \cup {0}
    BY <2>2, <2>3 DEF ObserverReturns
  <2>4. ASSUME NEW q \in Runs, ObserverGivesUp(q)
        PROVE  observed'[r].observed_at \in ObservedTimes \cup {0}
    BY <2>2, <2>4 DEF ObserverGivesUp, LedgerInv
  <2> QED BY <2>1, <2>3, <2>4
             DEF Next, RunStep, Continue, StartRun, StartFails, ObserverRetries, ObserveBreaks,
                 Persist, PersistFails, Promote, PromoteStale, PromoteMissing, PromoteFails,
                 MarkError, MarkErrorFails, Die, vars, runtimeVars, runVars
<1>3. ChainInv'
  BY ChainStep DEF LedgerInv
<1> QED BY <1>1, <1>2, <1>3 DEF LedgerInv

LEMMA LedgerStep ==
  ASSUME LedgerInv, [Next]_vars
  PROVE  [Log!Next]_Log!vars
<1> USE DEF LedgerInv
<1>1. CASE Quiet
  <2>1. Evidence' = Evidence /\ ledger' = ledger
    BY <1>1 DEF Quiet, Evidence, Stored
  <2> QED BY <2>1 DEF Log!vars
<1>2. ASSUME NEW q \in Runs, Persist(q) PROVE Log!Next
  <2> DEFINE row == [watch |-> WatchOf[q], status |-> observed[q].status,
                     observed_at |-> observed[q].observed_at]
  <2>1. /\ ~Stored(q)
        /\ \A r \in Runs : r # q => observations'[r] = observations[r]
        /\ observations'[q].status = observed[q].status
        /\ observations'[q].observed_at = observed[q].observed_at
        /\ observed[q].status \in Statuses
        /\ ledger' = ledger
    BY <1>2, PersistEffect DEF ChainInv
  <2>2. Evidence[q] = [watch |-> None, status |-> "ABSENT", observed_at |-> 0]
    BY <2>1 DEF Evidence
  <2>3. Evidence' = [Evidence EXCEPT ![q] = row]
    BY <2>1 DEF Evidence, Stored, Statuses
  <2>4. Log!Record(q, WatchOf[q], observed[q].status, observed[q].observed_at)
    BY <2>1, <2>2, <2>3 DEF Log!Record, Log!Absent
  <2>5. WatchOf[q] \in WatchIds /\ observed[q].observed_at \in ObservedTimes \cup {0}
    BY RunsAssumption
  <2> QED BY <2>1, <2>4, <2>5 DEF Log!Next
<1>3. ASSUME NEW q \in Runs, Promote(q) PROVE Log!Next
  <2> DEFINE v == WatchOf[q]
  <2>1. PICK n \in 0..MaxDrafts :
          /\ ~Stale(q)
          /\ observations' = observations
          /\ ledger' = [ledger EXCEPT ![v] =
               Append(@, [previous |-> Previous(v), current |-> q, drafts |-> n])]
          /\ runPhase[q] = "promoting"
    BY <1>3, PromoteEffect DEF ChainInv
  <2>2. v \in WatchIds
    BY RunsAssumption
  <2>3. Log!LastOf(v) = Previous(v)
    BY <2>2, AuthorityFacts DEF ChainInv, TransitionsChain, Log!LastOf
  <2>4. Evidence[q] = [watch |-> v, status |-> "VALID",
                       observed_at |-> observations[q].observed_at]
    BY <2>1 DEF ChainInv, PromotingStored, Evidence, Stored
  <2>5. ASSUME Previous(v) # None
        PROVE  Evidence[Previous(v)].observed_at < Evidence[q].observed_at
    <3>1. /\ Previous(v) \in Runs /\ Stored(Previous(v))
          /\ ~(observations[q].observed_at <= observations[Previous(v)].observed_at)
      BY <2>1, <2>2, <2>5, AuthorityFacts DEF Stale
    <3>2. Evidence[Previous(v)].observed_at = observations[Previous(v)].observed_at
      BY <3>1 DEF Evidence
    <3>3. /\ observations[q].observed_at \in Nat
          /\ observations[Previous(v)].observed_at \in Nat
      BY <3>1 DEF ChainInv, TypeOK, EvidenceTypeOK
    <3> QED BY <2>4, <3>1, <3>2, <3>3
  <2>6. Evidence' = Evidence
    BY <2>1 DEF Evidence, Stored
  <2>7. Log!Transition(q, n)
    <3>1. Evidence[q].status = "VALID" /\ Evidence[q].watch = v
      BY <2>4
    <3>2. Log!LastOf(v) # None => Evidence[Log!LastOf(v)].observed_at < Evidence[q].observed_at
      BY <2>3, <2>5
    <3>3. ledger' = [ledger EXCEPT ![v] =
            Append(@, [previous |-> Log!LastOf(v), current |-> q, drafts |-> n])]
      BY <2>1, <2>3
    <3> HIDE DEF v
    <3> QED BY <3>1, <3>2, <3>3, <2>6 DEF Log!Transition
  <2> QED BY <2>1, <2>7 DEF Log!Next
<1> QED BY <1>1, <1>2, <1>3, QuietOrRecords DEF ChainInv

\* run_once over the store implements the ledger: evidence is only added, and each
\* transition is judged against the one before it, in the order of observation.
THEOREM ImplementsLedgerCorrect == Spec => ImplementsLedger
<1>1. Init => LedgerInv
  BY ChainInit, RuntimeAssumption DEF Init, OutboxInit, RuntimeInit, LedgerInv
<1>2. LedgerInv /\ [Next]_vars => LedgerInv'
  BY LedgerInvStep
<1>3. Init => Log!Init
  BY DEF Init, EvidenceInit, NoObservation, Evidence, Stored, Log!Init, Log!Absent
<1>4. LedgerInv /\ [Next]_vars => [Log!Next]_Log!vars
  BY LedgerStep
<1> QED BY <1>1, <1>2, <1>3, <1>4, PTL DEF Spec, ImplementsLedger, Log!Spec
-----------------------------------------------------------------------------
(* The runner implements WatchRuntime. *)

\* A thread's step is a step of run_once; every other step leaves the store alone.
LEMMA RunnerStep == RunnerNext => Next \/ UNCHANGED vars
<1> SUFFICES ASSUME RunnerNext PROVE Next \/ UNCHANGED vars
  OBVIOUS
<1> USE DEF storeVars, vars
<1>1. ASSUME NEW w \in WatchIds, Fire(w) PROVE UNCHANGED vars
  BY <1>1 DEF Fire
<1>2. ASSUME NEW t \in Tasks, TaskStep(t) PROVE UNCHANGED vars
  BY <1>2 DEF TaskStep, CheckStop, TakeRequest, TimerEnds, TimerRaises, Resume, Submit
<1>3. ASSUME NEW t \in Tasks, SetStop(t) \/ Cancel(t) \/ ServeAgain(t) PROVE UNCHANGED vars
  BY <1>3 DEF SetStop, Cancel, ServeAgain
<1>4. CASE WorkerTakes
  BY <1>4 DEF WorkerTakes
<1>5. ASSUME NEW r \in Runs, ThreadStep(r) PROVE Next
  BY <1>5 DEF ThreadStep, Next, RunStep
<1> QED BY <1>1, <1>2, <1>3, <1>4, <1>5 DEF RunnerNext

\* RunsAsRunOnce: serve, its triggers, cancellations and the executor (runtime.py
\* 130-136) only decide when run_once is called; the calls are WatchRuntime's.
THEOREM RunnerImplementsRuntime == RunnerSpec => RunsAsRunOnce
<1>1. RunnerInit => Init
  BY DEF RunnerInit
<1>2. [RunnerNext]_<<storeVars, runnerVars>> => [Next]_vars
  BY RunnerStep DEF storeVars, vars
<1> QED BY <1>1, <1>2, PTL DEF RunnerSpec, RunsAsRunOnce, Spec

\* Under the runner too, cancelled and overlapping calls included, the policy judges
\* one chain of transitions per watch, the authority is the newest valid observation,
\* promotions are atomic and executions are counted.
THEOREM RunnerEvidence ==
  RunnerSpec => [](TransitionsChain /\ AuthorityIsNewest /\ PromotionIsAtomic /\ ExecutionsCounted)
BY RunnerImplementsRuntime, TransitionsCorrect, AuthorityCorrect, PromotionAtomic,
   ExecutionsCorrect, PTL DEF RunsAsRunOnce
-----------------------------------------------------------------------------
(* The executor's queue. *)

allVars == <<storeVars, runnerVars>>

RunnerTyped ==
  /\ task \in [Tasks -> TaskPhases \cup Over]
  /\ job \in [Tasks -> Runs \cup {None}]
  /\ requests \in [WatchIds -> Nat]
  /\ pool \in Seq(Runs)
  /\ taken \in SUBSET Runs
  /\ fires \in [WatchIds -> Nat]
  /\ cancels \in [WatchIds -> Nat]

\* A task awaits a call of its own watch, and only while it is in to_thread.
JobsFit ==
  \A t \in Tasks :
    /\ task[t] # "awaiting" => job[t] = None
    /\ job[t] # None => WatchOf[job[t]] = Serves[t]

\* Withdrawing a job from the queue loses that job at most.
LEMMA WithdrawnEffect ==
  ASSUME pool \in Seq(Runs), NEW r, pool' = Withdrawn(r)
  PROVE  /\ pool' \in Seq(Runs)
         /\ \A x \in Runs : Pooled(x)' => Pooled(x)
         /\ \A x \in Runs : Pooled(x) /\ x # r => Pooled(x)'
<1>1. CASE ~Pooled(r)
  BY <1>1 DEF Withdrawn, Pooled
<1>2. CASE Pooled(r)
  <2>1. PICK at \in DOMAIN pool :
          /\ pool[at] = r
          /\ pool' = [i \in 1..(Len(pool) - 1) |-> IF i < at THEN pool[i] ELSE pool[i + 1]]
    BY <1>2 DEF Withdrawn, Pooled
  <2>2. /\ Len(pool) \in Nat /\ Len(pool) > 0 /\ DOMAIN pool = 1..Len(pool)
        /\ \A i \in 1..Len(pool) : pool[i] \in Runs
    BY <2>1
  <2>3. pool' \in [1..(Len(pool) - 1) -> Runs] /\ Len(pool) - 1 \in Nat
    BY <2>1, <2>2
  <2>4. pool' \in Seq(Runs) /\ DOMAIN pool' = 1..(Len(pool) - 1)
    BY <2>3
  <2>5. ASSUME NEW x \in Runs, Pooled(x)' PROVE Pooled(x)
    <3>1. PICK i \in 1..(Len(pool) - 1) : pool'[i] = x
      BY <2>4, <2>5 DEF Pooled
    <3>2. i \in 1..Len(pool) /\ i + 1 \in 1..Len(pool) /\ (x = pool[i] \/ x = pool[i + 1])
      BY <2>1, <2>2, <3>1
    <3> QED BY <2>2, <3>2 DEF Pooled
  <2>6. ASSUME NEW x \in Runs, Pooled(x), x # r PROVE Pooled(x)'
    <3>1. PICK k \in 1..Len(pool) : pool[k] = x
      BY <2>2, <2>6 DEF Pooled
    <3>2. CASE k < at
      <4>1. k \in 1..(Len(pool) - 1) /\ pool'[k] = x
        BY <2>1, <2>2, <3>1, <3>2
      <4> QED BY <2>4, <4>1 DEF Pooled
    <3>3. CASE k > at
      <4>1. k - 1 \in 1..(Len(pool) - 1) /\ ~(k - 1 < at) /\ (k - 1) + 1 = k
        BY <2>1, <2>2, <3>1, <3>3
      <4>2. pool'[k - 1] = x
        BY <2>1, <3>1, <4>1
      <4> QED BY <2>4, <4>1, <4>2 DEF Pooled
    <3> QED BY <2>1, <2>2, <2>6, <3>1, <3>2, <3>3
  <2> QED BY <2>4, <2>5, <2>6
<1> QED BY <1>1, <1>2

\* Queueing a call adds that call.
LEMMA AppendEffect ==
  ASSUME pool \in Seq(Runs), NEW r \in Runs, pool' = Append(pool, r)
  PROVE  /\ pool' \in Seq(Runs)
         /\ \A x \in Runs : Pooled(x)' <=> Pooled(x) \/ x = r
<1>1. /\ Len(pool) \in Nat /\ DOMAIN pool = 1..Len(pool) /\ DOMAIN pool' = 1..(Len(pool) + 1)
      /\ \A i \in 1..Len(pool) : pool'[i] = pool[i]
      /\ pool'[Len(pool) + 1] = r
      /\ pool' \in Seq(Runs)
  OBVIOUS
<1>2. ASSUME NEW x \in Runs PROVE Pooled(x)' <=> Pooled(x) \/ x = r
  BY <1>1 DEF Pooled
<1> QED BY <1>1, <1>2

\* A thread that takes the oldest job moves it from the queue to its own.
LEMMA TakeEffect ==
  ASSUME RunnerTyped, WorkerTakes
  PROVE  /\ pool' \in Seq(Runs)
         /\ taken' \in SUBSET Runs
         /\ \A x \in Runs : x \in taken' \/ Pooled(x)' <=> x \in taken \/ Pooled(x)
<1>1. /\ pool \in Seq(Runs) /\ pool # <<>>
      /\ pool' = Tail(pool) /\ taken' = taken \cup {Head(pool)}
  BY DEF WorkerTakes, RunnerTyped
<1>2. /\ Len(pool) \in Nat /\ Len(pool) > 0
      /\ DOMAIN pool = 1..Len(pool) /\ DOMAIN pool' = 1..(Len(pool) - 1)
      /\ \A i \in 1..(Len(pool) - 1) : pool'[i] = pool[i + 1]
      /\ Head(pool) = pool[1] /\ pool[1] \in Runs
      /\ pool' \in Seq(Runs)
  BY <1>1
<1>3. ASSUME NEW x \in Runs PROVE Pooled(x) <=> Pooled(x)' \/ x = pool[1]
  <2>1. ASSUME Pooled(x)' PROVE Pooled(x)
    <3>1. PICK i \in 1..(Len(pool) - 1) : pool'[i] = x
      BY <1>2, <2>1 DEF Pooled
    <3>2. i + 1 \in 1..Len(pool) /\ pool[i + 1] = x
      BY <1>2, <3>1
    <3> QED BY <1>2, <3>2 DEF Pooled
  <2>2. ASSUME Pooled(x), x # pool[1] PROVE Pooled(x)'
    <3>1. PICK i \in 1..Len(pool) : pool[i] = x
      BY <1>2, <2>2 DEF Pooled
    <3>2. i - 1 \in 1..(Len(pool) - 1) /\ (i - 1) + 1 = i
      BY <1>2, <2>2, <3>1
    <3>3. pool'[i - 1] = x
      BY <1>2, <3>1, <3>2
    <3> QED BY <1>2, <3>2, <3>3 DEF Pooled
  <2>3. x = pool[1] => Pooled(x)
    BY <1>2 DEF Pooled
  <2> QED BY <2>1, <2>2, <2>3
<1> QED BY <1>1, <1>2, <1>3 DEF RunnerTyped
\* A submitted call is new, and of the watch of its task.
LEMMA SubmitEffect ==
  ASSUME RunnerTyped, NEW t \in Tasks, Submit(t)
  PROVE  \E r \in Runs :
           /\ WatchOf[r] = Serves[t] /\ r \notin taken /\ ~Pooled(r)
           /\ job' = [job EXCEPT ![t] = r]
           /\ task' = [task EXCEPT ![t] = "awaiting"]
           /\ pool' \in Seq(Runs) /\ taken' = taken
           /\ \A x \in Runs : Pooled(x)' <=> Pooled(x) \/ x = r
           /\ UNCHANGED <<storeVars, stop, fires, cancels>>
<1>1. PICK r \in Fresh(Serves[t]) : pool' = Append(pool, r) /\ job' = [job EXCEPT ![t] = r]
  BY DEF Submit
<1>2. r \in Runs /\ WatchOf[r] = Serves[t] /\ r \notin taken /\ ~Pooled(r)
  BY DEF Fresh, RunsOf
<1>3. pool' \in Seq(Runs) /\ \A x \in Runs : Pooled(x)' <=> Pooled(x) \/ x = r
  BY <1>1, <1>2, AppendEffect DEF RunnerTyped
<1> QED BY <1>1, <1>2, <1>3 DEF Submit, TaskTo

LEMMA RunnerTypedStep == RunnerTyped /\ JobsFit /\ [RunnerNext]_allVars => RunnerTyped' /\ JobsFit'
<1> SUFFICES ASSUME RunnerTyped, JobsFit, [RunnerNext]_allVars PROVE RunnerTyped' /\ JobsFit'
  OBVIOUS
<1> USE DEF RunnerTyped, JobsFit, TaskPhases, Over
<1>0. Serves \in [Tasks -> WatchIds] /\ None \notin Runs
  BY RunnerAssumption, RunsAssumption
<1>1. ASSUME NEW w \in WatchIds, Fire(w) PROVE RunnerTyped' /\ JobsFit'
  BY <1>1 DEF Fire, serveVars, executorVars
<1>2. ASSUME NEW t \in Tasks, SetStop(t) \/ CheckStop(t) \/ TimerRaises(t) \/ ServeAgain(t)
      PROVE  RunnerTyped' /\ JobsFit'
  BY <1>2 DEF SetStop, CheckStop, TimerRaises, ServeAgain, TaskTo, triggerVars, executorVars
<1>3. ASSUME NEW t \in Tasks, Cancel(t) PROVE RunnerTyped' /\ JobsFit'
  <2>1. pool' \in Seq(Runs)
    BY <1>3, WithdrawnEffect DEF Cancel
  <2>2. /\ cancels' = [cancels EXCEPT ![Serves[t]] = @ + 1]
        /\ task' = [task EXCEPT ![t] = "cancelled"]
        /\ job' = [job EXCEPT ![t] = None]
        /\ UNCHANGED <<requests, fires, taken>>
    BY <1>3 DEF Cancel, TaskTo, triggerVars
  <2>3. cancels' \in [WatchIds -> Nat]
    BY <1>0, <2>2
  <2>4. job' \in [Tasks -> Runs \cup {None}] /\ task' \in [Tasks -> TaskPhases \cup Over]
    BY <2>2
  <2>5. JobsFit'
    BY <2>2
  <2> QED BY <2>1, <2>2, <2>3, <2>4, <2>5
<1>4. ASSUME NEW t \in Tasks, TakeRequest(t) \/ TimerEnds(t) PROVE RunnerTyped' /\ JobsFit'
  <2>1. PICK r \in Runs :
           /\ WatchOf[r] = Serves[t]
           /\ job' = [job EXCEPT ![t] = r]
           /\ task' = [task EXCEPT ![t] = "awaiting"]
           /\ pool' \in Seq(Runs) /\ taken' = taken
           /\ UNCHANGED <<storeVars, stop, fires, cancels>>
    BY <1>4, SubmitEffect DEF TakeRequest, TimerEnds
  <2>2. requests' \in [WatchIds -> Nat]
    <3>1. CASE TimerEnds(t)
      BY <3>1 DEF TimerEnds
    <3>2. CASE TakeRequest(t)
      <4>1. requests[Serves[t]] \in Nat /\ requests[Serves[t]] > 0
        BY <1>0, <3>2 DEF TakeRequest
      <4>2. requests[Serves[t]] - 1 \in Nat
        BY <4>1
      <4> QED BY <3>2, <4>2 DEF TakeRequest
    <3> QED BY <1>4, <3>1, <3>2
  <2>3. job' \in [Tasks -> Runs \cup {None}] /\ task' \in [Tasks -> TaskPhases \cup Over]
    BY <2>1
  <2>4. JobsFit'
    BY <2>1
  <2> QED BY <2>1, <2>2, <2>3, <2>4
<1>5. ASSUME NEW t \in Tasks, Resume(t) PROVE RunnerTyped' /\ JobsFit'
  BY <1>5 DEF Resume, TaskTo, triggerVars, executorVars
<1>6. CASE WorkerTakes
  BY <1>6, TakeEffect DEF WorkerTakes, serveVars, triggerVars
<1>7. CASE UNCHANGED runnerVars
  BY <1>7 DEF runnerVars, serveVars, triggerVars, executorVars
<1> QED BY <1>1, <1>2, <1>3, <1>4, <1>5, <1>6, <1>7
           DEF RunnerNext, TaskStep, ThreadStep, allVars

-----------------------------------------------------------------------------
(* Every fire is accounted for. *)

ReleasedFinite == \A w \in WatchIds : IsFiniteSet(Released(w))

FiresInv == RunnerTyped /\ JobsFit /\ ReleasedFinite /\ FiresAccounted

LEMMA ReleasedUnchanged ==
  ASSUME UNCHANGED <<pool, taken>>, NEW w
  PROVE  Released(w)' = Released(w)
BY DEF Released, Pooled

LEMMA AccountedUnchanged ==
  ASSUME FiresInv, UNCHANGED <<requests, fires, cancels>>,
         \A w \in WatchIds : Released(w)' = Released(w)
  PROVE  ReleasedFinite' /\ FiresAccounted'
<1>1. Manual \subseteq WatchIds
  BY RunnerAssumption
<1> QED BY <1>1 DEF FiresInv, ReleasedFinite, FiresAccounted

\* Queueing a call releases that call.
LEMMA ReleasedSubmit ==
  ASSUME FiresInv, NEW t \in Tasks, Submit(t)
  PROVE  \A w \in WatchIds :
           IF w = Serves[t]
           THEN /\ IsFiniteSet(Released(w)')
                /\ Cardinality(Released(w)') = Cardinality(Released(w)) + 1
           ELSE Released(w)' = Released(w)
<1>1. PICK r \in Runs :
        /\ WatchOf[r] = Serves[t] /\ r \notin taken /\ ~Pooled(r)
        /\ taken' = taken
        /\ \A x \in Runs : Pooled(x)' <=> Pooled(x) \/ x = r
  BY SubmitEffect DEF FiresInv
<1> SUFFICES ASSUME NEW w \in WatchIds
             PROVE  IF w = Serves[t]
                    THEN /\ IsFiniteSet(Released(w)')
                         /\ Cardinality(Released(w)') = Cardinality(Released(w)) + 1
                    ELSE Released(w)' = Released(w)
  OBVIOUS
<1>2. CASE w = Serves[t]
  <2>1. Released(w)' = Released(w) \cup {r} /\ r \notin Released(w)
    BY <1>1, <1>2 DEF Released, RunsOf
  <2>2. IsFiniteSet(Released(w))
    BY DEF FiresInv, ReleasedFinite
  <2> QED BY <1>2, <2>1, <2>2, FS_AddElement
<1>3. CASE w # Serves[t]
  BY <1>1, <1>3 DEF Released, RunsOf
<1> QED BY <1>2, <1>3

\* A cancellation takes back at most the call of its task, which is of the watch the
\* cancellation counts for.
LEMMA ReleasedCancel ==
  ASSUME FiresInv, NEW t \in Tasks, Cancel(t), NEW w \in WatchIds
  PROVE  /\ Released(w)' \subseteq Released(w)
         /\ Released(w) \subseteq Released(w)' \cup {job[t]}
         /\ w # Serves[t] => Released(w)' = Released(w)
<1>1. /\ taken' = taken
      /\ \A x \in Runs : Pooled(x)' => Pooled(x)
      /\ \A x \in Runs : Pooled(x) /\ x # job[t] => Pooled(x)'
  BY WithdrawnEffect DEF Cancel, FiresInv, RunnerTyped
<1>2. Released(w)' \subseteq Released(w) /\ Released(w) \subseteq Released(w)' \cup {job[t]}
  BY <1>1 DEF Released, RunsOf
<1>3. job[t] \in Released(w) => w = Serves[t]
  BY RunsAssumption DEF Released, RunsOf, FiresInv, JobsFit
<1> QED BY <1>2, <1>3

LEMMA AccountedStep ==
  ASSUME FiresInv, [RunnerNext]_allVars
  PROVE  ReleasedFinite' /\ FiresAccounted'
<1>0. /\ Serves \in [Tasks -> WatchIds] /\ Manual \subseteq WatchIds
      /\ requests \in [WatchIds -> Nat] /\ fires \in [WatchIds -> Nat]
      /\ cancels \in [WatchIds -> Nat]
      /\ \A w \in WatchIds : IsFiniteSet(Released(w)) /\ Cardinality(Released(w)) \in Nat
  BY RunnerAssumption, FS_CardinalityType DEF FiresInv, RunnerTyped, ReleasedFinite
<1>acc. ASSUME NEW w \in Manual
        PROVE  /\ requests[w] + Cardinality(Released(w)) <= fires[w]
               /\ fires[w] <= requests[w] + Cardinality(Released(w)) + cancels[w]
  BY DEF FiresInv, FiresAccounted
<1>1. ASSUME NEW v \in WatchIds, Fire(v) PROVE ReleasedFinite' /\ FiresAccounted'
  <2>1. /\ fires' = [fires EXCEPT ![v] = @ + 1]
        /\ requests' = [requests EXCEPT ![v] = @ + 1]
        /\ cancels' = cancels
        /\ \A w \in WatchIds : Released(w)' = Released(w)
    BY <1>1, ReleasedUnchanged DEF Fire, executorVars
  <2>2. \A w \in WatchIds :
          \/ fires'[w] = fires[w] /\ requests'[w] = requests[w]
          \/ fires'[w] = fires[w] + 1 /\ requests'[w] = requests[w] + 1
    BY <1>0, <2>1
  <2>3. ReleasedFinite'
    BY <1>0, <2>1 DEF ReleasedFinite
  <2>4. FiresAccounted'
    <3> SUFFICES ASSUME NEW w \in Manual
                 PROVE  /\ requests'[w] + Cardinality(Released(w)') <= fires'[w]
                        /\ fires'[w] <= requests'[w] + Cardinality(Released(w)') + cancels'[w]
      BY DEF FiresAccounted
    <3> QED BY <1>0, <1>acc, <2>1, <2>2
  <2> QED BY <2>3, <2>4
<1>2. ASSUME NEW t \in Tasks, Cancel(t) PROVE ReleasedFinite' /\ FiresAccounted'
  <2>1. UNCHANGED <<requests, fires>> /\ cancels' = [cancels EXCEPT ![Serves[t]] = @ + 1]
    BY <1>2 DEF Cancel, triggerVars
  <2>2. ASSUME NEW w \in WatchIds
        PROVE  /\ IsFiniteSet(Released(w)')
               /\ Cardinality(Released(w)') <= Cardinality(Released(w))
               /\ Cardinality(Released(w)) <= Cardinality(Released(w)') + cancels'[w] - cancels[w]
               /\ Cardinality(Released(w)') \in Nat
    <3> DEFINE R == Released(w)
    <3>1. IsFiniteSet(R)
      BY <1>0
    <3>2. /\ R' \subseteq R /\ R \subseteq R' \cup {job[t]}
          /\ w # Serves[t] => R' = R
      BY <1>2, <2>2, ReleasedCancel
    <3>3. IsFiniteSet(R') /\ Cardinality(R') <= Cardinality(R)
      BY <3>1, <3>2, FS_Subset
    <3>4. CASE w # Serves[t]
      BY <1>0, <2>1, <3>2, <3>3, <3>4
    <3>5. CASE w = Serves[t]
      <4>1. cancels'[w] = cancels[w] + 1
        BY <1>0, <2>1, <3>5
      <4>2. /\ IsFiniteSet(R' \cup {job[t]})
            /\ Cardinality(R' \cup {job[t]}) <= Cardinality(R') + 1
            /\ Cardinality(R') \in Nat /\ Cardinality(R' \cup {job[t]}) \in Nat
        <5>1. /\ IsFiniteSet(R' \cup {job[t]})
              /\ Cardinality(R' \cup {job[t]})
                   = IF job[t] \in R' THEN Cardinality(R') ELSE Cardinality(R') + 1
          <6> HIDE DEF R
          <6> QED BY <3>3, FS_AddElement
        <5>2. Cardinality(R') \in Nat /\ Cardinality(R' \cup {job[t]}) \in Nat
          BY <3>3, <5>1, FS_CardinalityType
        <5> QED BY <5>1, <5>2
      <4>3. Cardinality(R) <= Cardinality(R' \cup {job[t]})
        BY <3>2, <4>2, FS_Subset
      <4> QED BY <1>0, <3>3, <4>1, <4>2, <4>3
    <3> QED BY <3>4, <3>5
  <2>3. ReleasedFinite'
    BY <2>2 DEF ReleasedFinite
  <2>4. FiresAccounted'
    <3> SUFFICES ASSUME NEW w \in Manual
                 PROVE  /\ requests'[w] + Cardinality(Released(w)') <= fires'[w]
                        /\ fires'[w] <= requests'[w] + Cardinality(Released(w)') + cancels'[w]
      BY DEF FiresAccounted
    <3>1. cancels'[w] \in Nat
      BY <1>0, <2>1
    <3> QED BY <1>0, <1>acc, <2>1, <2>2, <3>1
  <2> QED BY <2>3, <2>4
<1>3. ASSUME NEW t \in Tasks, TakeRequest(t) \/ TimerEnds(t)
      PROVE  ReleasedFinite' /\ FiresAccounted'
  <2>1. \A w \in WatchIds :
          IF w = Serves[t]
          THEN /\ IsFiniteSet(Released(w)')
               /\ Cardinality(Released(w)') = Cardinality(Released(w)) + 1
          ELSE Released(w)' = Released(w)
    BY <1>3, ReleasedSubmit DEF TakeRequest, TimerEnds
  <2>2. UNCHANGED <<fires, cancels>>
    BY <1>3 DEF TakeRequest, TimerEnds, Submit
  <2>3. ReleasedFinite'
    BY <1>0, <2>1 DEF ReleasedFinite
  <2>4. FiresAccounted'
    <3> SUFFICES ASSUME NEW w \in Manual
                 PROVE  /\ requests'[w] + Cardinality(Released(w)') <= fires'[w]
                        /\ fires'[w] <= requests'[w] + Cardinality(Released(w)') + cancels'[w]
      BY DEF FiresAccounted
    <3>1. CASE w = Serves[t]
      <4>1. requests'[w] = requests[w] - 1
        BY <1>0, <1>3, <3>1 DEF TakeRequest, TimerEnds
      <4> QED BY <1>0, <1>acc, <2>1, <2>2, <3>1, <4>1
    <3>2. CASE w # Serves[t]
      <4>1. requests'[w] = requests[w]
        BY <1>0, <1>3, <3>2 DEF TakeRequest, TimerEnds
      <4> QED BY <1>0, <1>acc, <2>1, <2>2, <3>2, <4>1
    <3> QED BY <3>1, <3>2
  <2> QED BY <2>3, <2>4
<1>4. CASE WorkerTakes
  <2>1. \A w \in WatchIds : Released(w)' = Released(w)
    <3>1. \A x \in Runs : x \in taken' \/ Pooled(x)' <=> x \in taken \/ Pooled(x)
      BY <1>4, TakeEffect DEF FiresInv
    <3> QED BY <3>1 DEF Released, RunsOf
  <2> QED BY <1>4, <2>1, AccountedUnchanged DEF WorkerTakes, triggerVars
<1>5. CASE UNCHANGED <<triggerVars, executorVars, cancels>>
  BY <1>5, ReleasedUnchanged, AccountedUnchanged DEF triggerVars, executorVars
<1> QED BY <1>1, <1>2, <1>3, <1>4, <1>5
           DEF RunnerNext, TaskStep, CheckStop, TimerRaises, Resume, SetStop, ServeAgain,
               ThreadStep, allVars, runnerVars

LEMMA FiresInvInit == RunnerInit => FiresInv
<1> SUFFICES ASSUME RunnerInit PROVE FiresInv
  OBVIOUS
<1> USE DEF RunnerInit
<1>1. RunnerTyped /\ JobsFit
  BY DEF RunnerTyped, JobsFit, TaskPhases
<1>2. \A w \in WatchIds : Released(w) = {}
  BY DEF Released, Pooled
<1>3. \A w \in WatchIds : IsFiniteSet(Released(w)) /\ Cardinality(Released(w)) = 0
  BY <1>2, FS_EmptySet
<1>4. \A w \in Manual : w \in WatchIds /\ requests[w] = 0 /\ fires[w] = 0 /\ cancels[w] = 0
  BY RunnerAssumption
<1>5. FiresAccounted
  BY <1>3, <1>4 DEF FiresAccounted
<1> QED BY <1>1, <1>3, <1>5 DEF FiresInv, ReleasedFinite

\* No call is executed that was not fired for, and each fire is queued, has its own
\* call, or was withdrawn by a cancellation of its watch.
THEOREM FiresCorrect == RunnerSpec => []FiresAccounted
<1>1. FiresInv /\ [RunnerNext]_allVars => FiresInv'
  BY RunnerTypedStep, AccountedStep DEF FiresInv
<1>2. FiresInv => FiresAccounted
  BY DEF FiresInv
<1> QED BY <1>1, <1>2, FiresInvInit, PTL DEF RunnerSpec, allVars
-----------------------------------------------------------------------------
(* Overlap needs a cancellation. *)

\* The calls of a watch that are queued or run, and those of them nobody awaits.
Unfinished(w) == Released(w) \ {r \in Runs : runPhase[r] \in Finished}
Awaited(w)    == {job[t] : t \in Servers(w)}
LeftBehind(w) == Unfinished(w) \ Awaited(w)

LeftBehindFew == \A w \in WatchIds : Cardinality(LeftBehind(w)) <= cancels[w]

OverlapInv == FiresInv /\ LeftBehindFew

LEMMA OverlapFinite ==
  ASSUME FiresInv, NEW w \in WatchIds
  PROVE  /\ IsFiniteSet(LeftBehind(w)) /\ Cardinality(LeftBehind(w)) \in Nat
         /\ cancels[w] \in Nat
<1>1. IsFiniteSet(Released(w)) /\ LeftBehind(w) \subseteq Released(w)
  BY DEF FiresInv, ReleasedFinite, LeftBehind, Unfinished
<1>2. IsFiniteSet(LeftBehind(w))
  BY <1>1, FS_Subset
<1> QED BY <1>2, FS_CardinalityType DEF FiresInv, RunnerTyped

\* A step that leaves nothing more behind.
LEMMA LeftBehindShrinks ==
  ASSUME OverlapInv, cancels' = cancels,
         \A w \in WatchIds : LeftBehind(w)' \subseteq LeftBehind(w)
  PROVE  LeftBehindFew'
<1> SUFFICES ASSUME NEW w \in WatchIds PROVE Cardinality(LeftBehind(w)') <= cancels[w]
  BY DEF LeftBehindFew
<1>1. IsFiniteSet(LeftBehind(w)) /\ Cardinality(LeftBehind(w)) \in Nat /\ cancels[w] \in Nat
  BY OverlapFinite DEF OverlapInv
<1>2. LeftBehind(w)' \subseteq LeftBehind(w)
  OBVIOUS
<1>3. IsFiniteSet(LeftBehind(w)') /\ Cardinality(LeftBehind(w)') <= Cardinality(LeftBehind(w))
  BY <1>1, <1>2, FS_Subset
<1>4. Cardinality(LeftBehind(w)') \in Nat
  BY <1>3, FS_CardinalityType
<1> QED BY <1>1, <1>3, <1>4 DEF OverlapInv, LeftBehindFew

\* A call that is over stays over.
LEMMA FinishedStays ==
  ASSUME TypeOK, [RunnerNext]_allVars, NEW r \in Runs, runPhase[r] \in Finished
  PROVE  runPhase'[r] \in Finished
<1>1. CASE UNCHANGED runPhase
  BY <1>1
<1>2. ASSUME NEW q \in Runs, ThreadStep(q) PROVE runPhase'[r] \in Finished
  BY <1>2
     DEF ThreadStep, StartRun, StartFails, Continue, ObserverReturns, ObserverRetries,
         ObserverGivesUp, Observed, ObserveBreaks, Persist, PersistFails, Promote, PromoteStale,
         PromoteMissing, PromoteFails, MarkError, MarkErrorFails, GoTo, Finished, TypeOK,
         RuntimeTypeOK
<1> QED BY <1>1, <1>2
           DEF RunnerNext, TaskStep, Fire, SetStop, Cancel, ServeAgain, CheckStop, TakeRequest,
               TimerEnds, Submit, TimerRaises, Resume, WorkerTakes, allVars, storeVars,
               runtimeVars, runVars

LEMMA OverlapStep ==
  ASSUME TypeOK, OverlapInv, [RunnerNext]_allVars
  PROVE  LeftBehindFew'
<1>0. /\ job \in [Tasks -> Runs \cup {None}] /\ None \notin Runs
      /\ cancels \in [WatchIds -> Nat]
      /\ Serves \in [Tasks -> WatchIds]
  BY RunsAssumption, RunnerAssumption DEF OverlapInv, FiresInv, RunnerTyped
<1>1. ASSUME UNCHANGED <<job, cancels>>, \A w \in WatchIds : Released(w)' = Released(w)
      PROVE  LeftBehindFew'
  <2>1. \A w \in WatchIds : LeftBehind(w)' \subseteq LeftBehind(w)
    BY <1>1, FinishedStays DEF LeftBehind, Unfinished, Awaited, Servers, Released, RunsOf
  <2> QED BY <1>1, <2>1, LeftBehindShrinks
<1>2. ASSUME NEW t \in Tasks, TakeRequest(t) \/ TimerEnds(t) PROVE LeftBehindFew'
  <2>1. PICK r \in Runs :
          /\ WatchOf[r] = Serves[t]
          /\ job' = [job EXCEPT ![t] = r]
          /\ taken' = taken
          /\ \A x \in Runs : Pooled(x)' <=> Pooled(x) \/ x = r
          /\ UNCHANGED <<storeVars, stop, fires, cancels>>
    BY <1>2, SubmitEffect DEF TakeRequest, TimerEnds, OverlapInv, FiresInv
  <2>2. job[t] = None
    BY <1>2 DEF TakeRequest, TimerEnds, OverlapInv, FiresInv, JobsFit
  <2>3. runPhase' = runPhase
    BY <2>1 DEF storeVars, runtimeVars, runVars
  <2>4. ASSUME NEW w \in WatchIds, NEW x \in LeftBehind(w)' PROVE x \in LeftBehind(w)
    <3>1. /\ x \in Runs /\ WatchOf[x] = w /\ (x \in taken \/ Pooled(x) \/ x = r)
          /\ runPhase[x] \notin Finished
          /\ \A u \in Tasks : Serves[u] = w => job'[u] # x
      BY <2>1, <2>3, <2>4 DEF LeftBehind, Unfinished, Awaited, Servers, Released, RunsOf
    <3>2. x # r
      BY <1>0, <2>1, <3>1
    <3>3. \A u \in Tasks : Serves[u] = w => job[u] # x
      BY <1>0, <2>1, <2>2, <3>1
    <3> QED BY <3>1, <3>2, <3>3 DEF LeftBehind, Unfinished, Awaited, Servers, Released, RunsOf
  <2> QED BY <2>1, <2>4, LeftBehindShrinks
<1>3. ASSUME NEW t \in Tasks, Resume(t) PROVE LeftBehindFew'
  <2>1. /\ job' = [job EXCEPT ![t] = None]
        /\ runPhase[job[t]] \in Finished
        /\ UNCHANGED <<pool, taken, cancels, runPhase>>
    BY <1>3 DEF Resume, executorVars, storeVars, runtimeVars, runVars
  <2>2. ASSUME NEW w \in WatchIds PROVE LeftBehind(w)' \subseteq LeftBehind(w)
    <3>1. Released(w)' = Released(w)
      BY <2>1, ReleasedUnchanged
    <3>2. Unfinished(w)' = Unfinished(w)
      BY <2>1, <3>1 DEF Unfinished
    <3>3. ASSUME NEW x \in Unfinished(w), x \in Awaited(w) PROVE x \in Awaited(w)'
      <4>1. PICK u \in Tasks : Serves[u] = w /\ job[u] = x
        BY <3>3 DEF Awaited, Servers
      <4>2. x \in Runs /\ runPhase[x] \notin Finished
        BY <3>3 DEF Unfinished, Released, RunsOf
      <4>3. job'[u] = x
        BY <1>0, <2>1, <4>1, <4>2
      <4> QED BY <4>1, <4>3 DEF Awaited, Servers
    <3> QED BY <3>2, <3>3 DEF LeftBehind
  <2> QED BY <2>1, <2>2, LeftBehindShrinks
<1>4. ASSUME NEW t \in Tasks, Cancel(t) PROVE LeftBehindFew'
  <2>1. /\ job' = [job EXCEPT ![t] = None]
        /\ cancels' = [cancels EXCEPT ![Serves[t]] = @ + 1]
        /\ runPhase' = runPhase
    BY <1>4 DEF Cancel, storeVars, runtimeVars, runVars
  <2> SUFFICES ASSUME NEW w \in WatchIds PROVE Cardinality(LeftBehind(w)') <= cancels'[w]
    BY DEF LeftBehindFew
  <2>2. Released(w)' \subseteq Released(w)
    BY <1>4, ReleasedCancel DEF OverlapInv
  <2>3. /\ IsFiniteSet(LeftBehind(w)) /\ Cardinality(LeftBehind(w)) \in Nat
        /\ cancels[w] \in Nat /\ Cardinality(LeftBehind(w)) <= cancels[w]
    BY OverlapFinite DEF OverlapInv, LeftBehindFew
  <2>4. ASSUME NEW x \in LeftBehind(w)'
        PROVE  x \in LeftBehind(w) \/ (x = job[t] /\ w = Serves[t])
    <3>1. /\ x \in Released(w) /\ runPhase[x] \notin Finished /\ x \in Runs
          /\ \A u \in Tasks : Serves[u] = w => job'[u] # x
      BY <2>1, <2>2, <2>4 DEF LeftBehind, Unfinished, Awaited, Servers, Released, RunsOf
    <3>2. \A u \in Tasks : Serves[u] = w /\ u # t => job[u] # x
      BY <1>0, <2>1, <3>1
    <3> QED BY <3>1, <3>2 DEF LeftBehind, Unfinished, Awaited, Servers
  <2>5. CASE w # Serves[t]
    <3>1. LeftBehind(w)' \subseteq LeftBehind(w)
      BY <2>4, <2>5
    <3>2. IsFiniteSet(LeftBehind(w)') /\ Cardinality(LeftBehind(w)') <= Cardinality(LeftBehind(w))
      BY <2>3, <3>1, FS_Subset
    <3>3. Cardinality(LeftBehind(w)') \in Nat /\ cancels'[w] = cancels[w]
      BY <1>0, <2>1, <2>5, <3>2, FS_CardinalityType
    <3> QED BY <2>3, <3>2, <3>3
  <2>6. CASE w = Serves[t]
    <3> DEFINE L == LeftBehind(w) \cup {job[t]}
    <3>1. LeftBehind(w)' \subseteq L
      BY <2>4
    <3>2. /\ IsFiniteSet(L)
          /\ Cardinality(L) = IF job[t] \in LeftBehind(w) THEN Cardinality(LeftBehind(w))
                              ELSE Cardinality(LeftBehind(w)) + 1
      BY <2>3, FS_AddElement
    <3> HIDE DEF L
    <3>3. IsFiniteSet(LeftBehind(w)') /\ Cardinality(LeftBehind(w)') <= Cardinality(L)
      BY <3>1, <3>2, FS_Subset
    <3>4. Cardinality(LeftBehind(w)') \in Nat /\ Cardinality(L) \in Nat
      BY <3>2, <3>3, FS_CardinalityType
    <3>5. cancels'[w] = cancels[w] + 1
      BY <1>0, <2>1, <2>6
    <3> QED BY <2>3, <3>2, <3>3, <3>4, <3>5
  <2> QED BY <2>5, <2>6
<1>5. CASE WorkerTakes
  <2>1. \A w \in WatchIds : Released(w)' = Released(w)
    <3>1. \A x \in Runs : x \in taken' \/ Pooled(x)' <=> x \in taken \/ Pooled(x)
      BY <1>5, TakeEffect DEF OverlapInv, FiresInv
    <3> QED BY <3>1 DEF Released, RunsOf
  <2> QED BY <1>1, <1>5, <2>1 DEF WorkerTakes, serveVars
<1>6. CASE UNCHANGED <<job, cancels, executorVars>>
  BY <1>1, <1>6, ReleasedUnchanged DEF executorVars
<1> QED BY <1>2, <1>3, <1>4, <1>5, <1>6
           DEF RunnerNext, TaskStep, CheckStop, TimerRaises, Fire, SetStop, ServeAgain,
               ThreadStep, allVars, runnerVars, serveVars

\* Each task awaits one call at most.
LEMMA FewAwaited ==
  ASSUME NEW w \in WatchIds
  PROVE  /\ IsFiniteSet(Awaited(w)) /\ IsFiniteSet(Servers(w))
         /\ Cardinality(Awaited(w)) <= Cardinality(Servers(w))
<1>1. Servers(w) \subseteq Tasks
  BY DEF Servers
<1>2. IsFiniteSet(Servers(w))
  BY <1>1, RunnerAssumption, FS_Subset
<1> DEFINE S == Servers(w)
           f == [t \in S |-> job[t]]
<1>3. f \in Surjection(S, Awaited(w))
  BY DEF Surjection, Awaited
<1> QED BY <1>2, <1>3, FS_Surjection

\* Calls of a watch overlap only if several tasks serve it or one was cancelled.
THEOREM OverlapCorrect == RunnerSpec => []OverlapNeedsCancellation
<1>1. RunnerInit => OverlapInv
  <2> SUFFICES ASSUME RunnerInit PROVE LeftBehindFew
    BY FiresInvInit DEF OverlapInv
  <2>1. \A w \in WatchIds : LeftBehind(w) = {} /\ cancels[w] = 0
    BY DEF RunnerInit, LeftBehind, Unfinished, Released, Pooled
  <2> QED BY <2>1, FS_EmptySet DEF LeftBehindFew
<1>2. TypeOK /\ OverlapInv /\ [RunnerNext]_allVars => OverlapInv'
  BY RunnerTypedStep, AccountedStep, OverlapStep DEF OverlapInv, FiresInv
<1>3. OverlapInv => OverlapNeedsCancellation
  <2> SUFFICES ASSUME OverlapInv, NEW w \in WatchIds
               PROVE  Cardinality(Unfinished(w)) <= Cardinality(Servers(w)) + cancels[w]
    BY DEF OverlapNeedsCancellation, Unfinished
  <2> DEFINE U == LeftBehind(w) \cup Awaited(w)
  <2>1. /\ IsFiniteSet(LeftBehind(w)) /\ Cardinality(LeftBehind(w)) \in Nat
        /\ cancels[w] \in Nat /\ Cardinality(LeftBehind(w)) <= cancels[w]
    BY OverlapFinite DEF OverlapInv, LeftBehindFew
  <2>2. /\ IsFiniteSet(Awaited(w)) /\ IsFiniteSet(Servers(w))
        /\ Cardinality(Awaited(w)) <= Cardinality(Servers(w))
        /\ Cardinality(Awaited(w)) \in Nat /\ Cardinality(Servers(w)) \in Nat
    BY FewAwaited, FS_CardinalityType
  <2>3. Unfinished(w) \subseteq U
    BY DEF LeftBehind
  <2>4. /\ IsFiniteSet(U)
        /\ Cardinality(U) <= Cardinality(LeftBehind(w)) + Cardinality(Awaited(w))
    <3>1. /\ IsFiniteSet(U) /\ IsFiniteSet(LeftBehind(w) \cap Awaited(w))
          /\ Cardinality(U) = Cardinality(LeftBehind(w)) + Cardinality(Awaited(w))
                                - Cardinality(LeftBehind(w) \cap Awaited(w))
      BY <2>1, <2>2, FS_Union, FS_Intersection
    <3>2. Cardinality(LeftBehind(w) \cap Awaited(w)) \in Nat
      BY <3>1, FS_CardinalityType
    <3> QED BY <2>1, <2>2, <3>1, <3>2
  <2>5. /\ Cardinality(Unfinished(w)) <= Cardinality(U)
        /\ Cardinality(Unfinished(w)) \in Nat /\ Cardinality(U) \in Nat
    <3> HIDE DEF U
    <3>1. IsFiniteSet(Unfinished(w)) /\ Cardinality(Unfinished(w)) <= Cardinality(U)
      BY <2>3, <2>4, FS_Subset
    <3> QED BY <2>4, <3>1, FS_CardinalityType
  <2> QED BY <2>1, <2>2, <2>4, <2>5
<1>4. Spec => []TypeOK
  BY TypeCorrect
<1>5. RunnerSpec => []TypeOK
  BY <1>4, RunnerImplementsRuntime, PTL DEF RunsAsRunOnce
<1> QED BY <1>1, <1>2, <1>3, <1>5, PTL DEF RunnerSpec, allVars
================================================================================
