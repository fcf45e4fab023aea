----------------------------- MODULE WatchRuntime -----------------------------
(***************************************************************************)
(* WatchRuntime.run_once (runtime.py) over the evidence store, for any     *)
(* number of overlapping calls on the same or different watches.  A call   *)
(* is a thread of control whose steps are the observer's attempts and the  *)
(* store's transactions; between any two of them another call may run, and *)
(* the thread may die.                                                     *)
(***************************************************************************)
EXTENDS EvidenceStore

CONSTANTS
  ObserverAttempts,  \* RetryPolicy.max_attempts of the watch definition
  ObservedTimes,     \* bound: the observed_at an observer may report
  MaxDrafts,         \* bound: how many events one policy answer contains
  Faults             \* the faults that may happen, a subset of AllFaults

AllFaults == {"start",    \* mark_run_started raises
              "observe",  \* the observer raises, or its call breaks
              "persist",  \* the first transaction raises and rolls back
              "promote",  \* the policy or the second transaction raises
              "mark",     \* mark_run_error raises
              "crash"}    \* the thread dies (BaseException, process death)

ASSUME RuntimeAssumption ==
  /\ ObserverAttempts \in Nat \ {0}
  /\ ObservedTimes \subseteq Nat
  /\ MaxDrafts \in Nat
  /\ Faults \subseteq AllFaults

VARIABLES
  runPhase,  \* where each call is in run_once
  tries,     \* the loop variable `attempt' of _observe
  observed,  \* the local `observation'
  runTime    \* the local timestamp of record_observation

runVars     == <<runPhase, tries, observed, runTime>>
runtimeVars == <<evidenceVars, runVars>>
vars        == <<clock, outboxVars, runtimeVars>>

Active   == {"observing", "persisting", "promoting", "erroring"}
Finished == {"returned", "raised", "unmarked", "dead"}

RuntimeTypeOK ==
  /\ runPhase \in [Runs -> {"idle"} \cup Active \cup Finished]
  /\ tries \in [Runs -> 0..ObserverAttempts]
  /\ observed \in [Runs -> Observation]
  /\ runTime \in [Runs -> Nat]

TypeOK == OutboxTypeOK /\ EvidenceTypeOK /\ RuntimeTypeOK

RuntimeInit ==
  /\ runPhase = [r \in Runs |-> "idle"]
  /\ tries = [r \in Runs |-> 0]
  /\ observed = [r \in Runs |-> [status |-> "FAILED", observed_at |-> 0]]
  /\ runTime = [r \in Runs |-> 0]

Init == OutboxInit /\ EvidenceInit /\ RuntimeInit

GoTo(r, phase) == runPhase' = [runPhase EXCEPT ![r] = phase]

-----------------------------------------------------------------------------
StartRun(r) ==
  /\ runPhase[r] = "idle"
  /\ MarkRunStarted(WatchOf[r])
  /\ tries' = [tries EXCEPT ![r] = 1]
  /\ GoTo(r, "observing")
  /\ UNCHANGED <<outboxVars, observations, authority, events, ledger, observed, runTime>>

\* mark_run_started is outside the `try': its exception goes to the caller.
StartFails(r) ==
  /\ "start" \in Faults
  /\ runPhase[r] = "idle"
  /\ GoTo(r, "raised")
  /\ UNCHANGED <<outboxVars, evidenceVars, tries, observed, runTime>>

\* _observe returned an Observation, and record_observation read its clock.
Observed(r, observation) ==
  /\ observed' = [observed EXCEPT ![r] = observation]
  /\ runTime' = [runTime EXCEPT ![r] = clock]
  /\ GoTo(r, "persisting")
  /\ UNCHANGED <<outboxVars, evidenceVars, tries>>

ObserverReturns(r) ==
  /\ runPhase[r] = "observing"
  /\ \E s \in Statuses, t \in ObservedTimes :
       Observed(r, [status |-> s, observed_at |-> t])

\* Mutant: one observer attempt too many.
ObserverRetries_OneMore(r) ==
  /\ "observe" \in Faults
  /\ runPhase[r] = "observing"
  /\ tries[r] <= ObserverAttempts
  /\ tries' = [tries EXCEPT ![r] = @ + 1]
  /\ UNCHANGED <<outboxVars, evidenceVars, runPhase, observed, runTime>>

ObserverRetries(r) ==
  /\ "observe" \in Faults
  /\ runPhase[r] = "observing"
  /\ tries[r] < ObserverAttempts
  /\ tries' = [tries EXCEPT ![r] = @ + 1]
  /\ UNCHANGED <<outboxVars, evidenceVars, runPhase, observed, runTime>>

\* The last attempt raised: the run goes on with Observation.failed.
ObserverGivesUp(r) ==
  /\ "observe" \in Faults
  /\ runPhase[r] = "observing"
  /\ tries[r] = ObserverAttempts
  /\ Observed(r, [status |-> "FAILED", observed_at |-> clock])

\* A wrong return type, or a clock or sleep that raises.
ObserveBreaks(r) ==
  /\ "observe" \in Faults
  /\ runPhase[r] = "observing"
  /\ GoTo(r, "erroring")
  /\ UNCHANGED <<outboxVars, evidenceVars, tries, observed, runTime>>

\* record_observation, first transaction.
Persist(r) ==
  /\ runPhase[r] = "persisting"
  /\ PersistObservation(r, observed[r], runTime[r])
  /\ GoTo(r, IF observed[r].status = "VALID" THEN "promoting" ELSE "returned")
  /\ UNCHANGED <<outboxVars, tries, observed, runTime>>

PersistFails(r) ==
  /\ "persist" \in Faults
  /\ runPhase[r] = "persisting"
  /\ GoTo(r, "erroring")
  /\ UNCHANGED <<outboxVars, evidenceVars, tries, observed, runTime>>

\* record_observation, second transaction.
Promote(r) ==
  /\ runPhase[r] = "promoting"
  /\ \E n \in 0..MaxDrafts : PromoteValidObservation(r, n, runTime[r])
  /\ GoTo(r, "returned")
  /\ UNCHANGED <<tries, observed, runTime>>

PromoteStale(r) ==
  /\ runPhase[r] = "promoting"
  /\ Stored(r) /\ Stale(r)
  /\ GoTo(r, "returned")
  /\ UNCHANGED <<outboxVars, evidenceVars, tries, observed, runTime>>

\* The observation of the first transaction is gone: RuntimeError.
PromoteMissing(r) ==
  /\ runPhase[r] = "promoting"
  /\ ~Stored(r)
  /\ GoTo(r, "erroring")
  /\ UNCHANGED <<outboxVars, evidenceVars, tries, observed, runTime>>

\* Mutant: the events inserted before the failure are kept.
PromoteFails_NoRollback(r) ==
  /\ "promote" \in Faults
  /\ runPhase[r] = "promoting"
  /\ InsertOutbox(1, runTime[r])
  /\ events' = [e \in EventIds |-> IF e \in NextIds(1)
                                   THEN [run |-> r, created_at |-> runTime[r]]
                                   ELSE events[e]]
  /\ GoTo(r, "erroring")
  /\ UNCHANGED <<watches, observations, authority, ledger, tries, observed, runTime>>

\* The policy raised or answered with something else than event drafts, or the
\* transaction itself failed: everything it did is rolled back.
PromoteFails(r) ==
  /\ "promote" \in Faults
  /\ runPhase[r] = "promoting"
  /\ GoTo(r, "erroring")
  /\ UNCHANGED <<outboxVars, evidenceVars, tries, observed, runTime>>

\* The `except' of run_once; the exception goes on to the caller.
MarkError(r) ==
  /\ runPhase[r] = "erroring"
  /\ MarkRunError(WatchOf[r])
  /\ GoTo(r, "raised")
  /\ UNCHANGED <<outboxVars, observations, authority, events, ledger,
                 tries, observed, runTime>>

\* A failing mark_run_error is logged only.
MarkErrorFails(r) ==
  /\ "mark" \in Faults
  /\ runPhase[r] = "erroring"
  /\ GoTo(r, "unmarked")
  /\ UNCHANGED <<outboxVars, evidenceVars, tries, observed, runTime>>

Die(r) ==
  /\ "crash" \in Faults
  /\ runPhase[r] \in Active
  /\ GoTo(r, "dead")
  /\ UNCHANGED <<outboxVars, evidenceVars, tries, observed, runTime>>

\* What a call that was started does by itself.
Continue(r) ==
  \/ ObserverReturns(r)
  \/ ObserverRetries(r)
  \/ ObserverGivesUp(r)
  \/ ObserveBreaks(r)
  \/ Persist(r)
  \/ PersistFails(r)
  \/ Promote(r)
  \/ PromoteStale(r)
  \/ PromoteMissing(r)
  \/ PromoteFails(r)
  \/ MarkError(r)
  \/ MarkErrorFails(r)

RunStep(r) == StartRun(r) \/ StartFails(r) \/ Continue(r) \/ Die(r)

Next == \E r \in Runs : RunStep(r) /\ UNCHANGED clock

\* A call that was made goes on until it returns or raises; nothing makes the
\* application call run_once.
Fairness == \A r \in Runs : WF_vars(Continue(r) /\ UNCHANGED clock)

Spec     == Init /\ [][Next]_vars
FairSpec == Spec /\ Fairness

-----------------------------------------------------------------------------
(* Safety. *)

RunsOf(w)    == {r \in Runs : WatchOf[r] = w}
EventsOf(r)  == {e \in EventIds : events[e].run = r}
Promotions(w) == {ledger[w][i] : i \in DOMAIN ledger[w]}

\* execution_count counts exactly the observations that were stored: the first
\* transaction writes both, and no failure of the second takes either back.
ExecutionsCounted ==
  \A w \in WatchIds :
    watches[w].execution_count = Cardinality({r \in RunsOf(w) : Stored(r)})

\* Once run_once has returned a VALID observation, the authority is VALID and at
\* least as new, in whatever order overlapping calls committed.
AuthorityIsNewest ==
  \A r \in Runs :
    runPhase[r] = "returned" /\ observed[r].status = "VALID" =>
      \E a \in RunsOf(WatchOf[r]) :
        /\ authority[WatchOf[r]] = a
        /\ observations[a].status = "VALID"
        /\ observed[r].observed_at <= observations[a].observed_at

\* The transitions the policy has judged form one chain per watch: each starts
\* from the state the one before established, time moves strictly forward, and
\* the authority is where the chain ends.  No two calls judge the same step.
TransitionsChain ==
  \A w \in WatchIds :
    LET log == ledger[w] IN
    /\ authority[w] = IF log = <<>> THEN None ELSE log[Len(log)].current
    /\ \A i \in DOMAIN log :
         /\ log[i].previous = IF i = 1 THEN None ELSE log[i - 1].current
         /\ i > 1 => observations[log[i - 1].current].observed_at
                       < observations[log[i].current].observed_at

\* Events, outbox rows and authority appear together or not at all: a call has
\* exactly the events of its promotion, each with its outbox row, and one that
\* raised or died has neither events nor a promotion.
PromotionIsAtomic ==
  /\ \A e \in EventIds : outbox[e].status = "ABSENT" <=> events[e].run = None
  /\ \A w \in WatchIds : \A p \in Promotions(w) :
       /\ Cardinality(EventsOf(p.current)) = p.drafts
       /\ runPhase[p.current] = "returned"
  /\ \A r \in Runs : EventsOf(r) # {} => \E p \in Promotions(WatchOf[r]) : p.current = r

\* A watch shows RUNNING only while a call is under way, or after one that died
\* or could not record its failure.
RunningIsExplained ==
  \A w \in WatchIds : watches[w].run_status = "RUNNING" =>
    \E r \in RunsOf(w) : runPhase[r] \in Active \cup {"dead", "unmarked"}

-----------------------------------------------------------------------------
(* Liveness, under FairSpec. *)

\* No watch stays RUNNING: every path of run_once ends IDLE or ERROR, unless a
\* call died or could not record its failure.
RunStatusSettles ==
  \A w \in WatchIds :
    (watches[w].run_status = "RUNNING") ~>
      \/ watches[w].run_status \in {"IDLE", "ERROR"}
      \/ \E r \in RunsOf(w) : runPhase[r] \in {"dead", "unmarked"}
=============================================================================
