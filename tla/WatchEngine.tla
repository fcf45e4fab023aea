----------------------------- MODULE WatchEngine -----------------------------
(***************************************************************************)
(* The whole engine on one database: run_once calls produce evidence and   *)
(* events (WatchRuntime), dispatchers deliver the events                   *)
(* (OutboxDispatcher), and an operator purges old history or deletes a     *)
(* watch (storage.py: purge_before, delete_watch) while both are running.  *)
(*                                                                         *)
(* A crash of the process is a Die of its calls and an Interrupt of its    *)
(* dispatcher with nothing in between.                                     *)
(***************************************************************************)
EXTENDS EvidenceStore

CONSTANTS
  ObserverAttempts, ObservedTimes, MaxDrafts, Faults,          \* WatchRuntime
  Dispatchers, RetryDelay, MaxDate, MaxInterruptions,          \* OutboxDispatcher
  MaxAcceptances, IdleClock,
  Forced  \* the watches that are also deleted with allow_undelivered set

ASSUME ForcedAssumption == Forced \subseteq WatchIds

\* What the two components assume of their constants.
ASSUME EngineAssumption ==
  /\ ObserverAttempts \in Nat \ {0}
  /\ ObservedTimes \subseteq Nat
  /\ MaxDrafts \in Nat
  /\ RetryDelay \in [1..MaxAttempts -> Nat]
  /\ MaxDate \in Nat
  /\ MaxInterruptions \in Nat
  /\ MaxAcceptances \in Nat \ {0}
  /\ IdleClock \in Nat

VARIABLES
  runPhase, tries, observed, runTime,
  phase, recovered, claimTime, batch, accepted, interruptions

Runtime  == INSTANCE WatchRuntime
Dispatch == INSTANCE OutboxDispatcher

runVars        == <<runPhase, tries, observed, runTime>>
dispatcherVars == <<phase, recovered, claimTime, batch, accepted, interruptions>>
vars           == <<clock, outboxVars, evidenceVars, runVars, dispatcherVars>>

Init == OutboxInit /\ EvidenceInit /\ Runtime!RuntimeInit /\ Dispatch!DispatcherInit

-----------------------------------------------------------------------------
Exists(e) == outbox[e].status # "ABSENT"
WatchOfEvent(e) == WatchOf[events[e].run]
EventsOfWatch(w) == {e \in EventIds : Exists(e) /\ WatchOfEvent(e) = w}

\* Deleting the events E takes their outbox rows and attempts along.
DropEvents(E) ==
  /\ outbox' = [e \in EventIds |-> IF e \in E THEN NoRow ELSE outbox[e]]
  /\ events' = [e \in EventIds |-> IF e \in E THEN NoEvent ELSE events[e]]
  /\ deliveryAttempts' = {a \in deliveryAttempts : a.outbox_id \notin E}
  /\ UNCHANGED <<outboxSeq, attemptSeq>>

DropObservations(R) ==
  observations' = [r \in Runs |-> IF r \in R THEN NoObservation ELSE observations[r]]

\* Mutants: a purge that does not spare the authority, and one that takes rows
\* that wait for a retry.
PurgeBefore_TakesAuthority(cutoff, scope) ==
  /\ DropEvents({e \in WithStatus(Terminal) :
                   WatchOfEvent(e) \in scope /\ events[e].created_at < cutoff})
  /\ DropObservations({r \in Runs : /\ Stored(r) /\ WatchOf[r] \in scope
                                    /\ observations[r].created_at < cutoff})
  /\ UNCHANGED <<watches, authority, ledger>>

PurgeBefore_TakesRetries(cutoff, scope) ==
  /\ DropEvents({e \in WithStatus(Terminal \cup {"RETRY"}) :
                   WatchOfEvent(e) \in scope /\ events[e].created_at < cutoff})
  /\ UNCHANGED <<watches, observations, authority, ledger>>

\* purge_before over the watches in scope (one, or all).
PurgeBefore(cutoff, scope) ==
  /\ DropEvents({e \in WithStatus(Terminal) :
                   WatchOfEvent(e) \in scope /\ events[e].created_at < cutoff})
  /\ DropObservations({r \in Runs : /\ Stored(r) /\ WatchOf[r] \in scope
                                    /\ observations[r].created_at < cutoff
                                    /\ \A w \in WatchIds : authority[w] # r})
  /\ UNCHANGED <<watches, authority, ledger>>

\* Mutant: the observations of a deleted watch stay.
DeleteRows_KeepsObservations(w) ==
  /\ DropEvents(EventsOfWatch(w))
  /\ authority' = [authority EXCEPT ![w] = None]
  /\ watches' = [watches EXCEPT ![w] = NoWatch]
  /\ ledger' = [ledger EXCEPT ![w] = <<>>]
  /\ UNCHANGED observations

\* The deletions of delete_watch.  The ledger is that of the watch's present life.
DeleteRows(w) ==
  /\ DropEvents(EventsOfWatch(w))
  /\ DropObservations({r \in Runs : WatchOf[r] = w})
  /\ authority' = [authority EXCEPT ![w] = None]
  /\ watches' = [watches EXCEPT ![w] = NoWatch]
  /\ ledger' = [ledger EXCEPT ![w] = <<>>]

\* Mutant: rows in flight do not count as undelivered.
DeleteWatch_InFlight(w, allowUndelivered) ==
  /\ allowUndelivered \/ EventsOfWatch(w) \cap WithStatus(Waiting) = {}
  /\ DeleteRows(w)

\* delete_watch; a refusal raises and changes nothing.
DeleteWatch(w, allowUndelivered) ==
  /\ allowUndelivered \/ EventsOfWatch(w) \cap WithStatus(Undelivered) = {}
  /\ DeleteRows(w)

Maintain ==
  \/ \E cutoff \in 1..(clock + 1), scope \in {{w} : w \in WatchIds} \cup {WatchIds} :
       PurgeBefore(cutoff, scope)
  \/ \E w \in WatchIds, allow \in BOOLEAN :
       (allow => w \in Forced) /\ DeleteWatch(w, allow)

Run(r) == Runtime!RunStep(r) /\ UNCHANGED <<clock, dispatcherVars>>

DispatchStep(d) == Dispatch!Step(d) /\ UNCHANGED <<evidenceVars, runVars>>

Tick == Dispatch!Tick /\ UNCHANGED <<evidenceVars, runVars>>

Next ==
  \/ \E r \in Runs : Run(r)
  \/ \E d \in Dispatchers : DispatchStep(d)
  \/ \E d \in Dispatchers : Dispatch!Interrupt(d) /\ UNCHANGED <<evidenceVars, runVars>>
  \/ Tick
  \/ Maintain /\ UNCHANGED <<clock, runVars, dispatcherVars>>

\* As in OutboxDispatcher: dispatch_ready is called again and again, and the clock
\* moves while a retry waits.  Nobody has to run a watch, purge or delete.
Fairness == WF_vars(Tick) /\ \A d \in Dispatchers : WF_vars(DispatchStep(d))

Spec     == Init /\ [][Next]_vars
FairSpec == Spec /\ Fairness

-----------------------------------------------------------------------------
(* Safety. *)

\* Every reference between the tables resolves: an event has its outbox row and
\* an existing watch, an attempt its row, an observation its watch, and every
\* authority its own watch's VALID observation, also when a purge or a deletion
\* falls between the two transactions of a run.
ReferencesResolve ==
  /\ \A e \in EventIds :
       /\ Exists(e) <=> events[e].run # None
       /\ Exists(e) => watches[WatchOfEvent(e)].run_status # "ABSENT"
  /\ \A a \in deliveryAttempts : Exists(a.outbox_id)
  /\ \A r \in Runs : Stored(r) => watches[WatchOf[r]].run_status # "ABSENT"
  /\ \A w \in WatchIds : authority[w] # None =>
       WatchOf[authority[w]] = w /\ observations[authority[w]].status = "VALID"

\* The authority of a watch is as new as every VALID observation that is still
\* stored and whose run returned.
AuthorityCoversStored ==
  \A r \in Runs :
    Stored(r) /\ observations[r].status = "VALID" /\ runPhase[r] = "returned" =>
      /\ authority[WatchOf[r]] # None
      /\ observations[r].observed_at <= observations[authority[WatchOf[r]]].observed_at

StoredOf(w) == {r \in Runs : WatchOf[r] = w /\ Stored(r)}

\* What is stored of a watch was counted in its execution_count, also when a run that
\* was under way as its watch was deleted brings the watch back.
CounterCoversStored ==
  \A w \in WatchIds : Cardinality(StoredOf(w)) <= watches[w].execution_count

\* The row and the authority of a watch account for everything that is still stored of
\* it, whatever purges and deletions took between the two transactions of its runs.
StoredIsAccounted == AuthorityCoversStored /\ CounterCoversStored

\* An authority only ever gives way to a later observation, unless its watch is
\* deleted.
AuthorityMovesForward ==
  [][ \A w \in WatchIds :
        authority[w] # None /\ authority'[w] # authority[w] =>
          \/ watches'[w].run_status = "ABSENT"
          \/ /\ authority'[w] # None
             /\ observations[authority[w]].observed_at
                  < observations'[authority'[w]].observed_at ]_vars

\* An event that is not delivered yet disappears only with its whole watch, and only
\* if that is deleted with allow_undelivered set: no purge takes it, and no deletion
\* of another watch.
UndeliveredSurvives ==
  [][ \A e \in WithStatus(Undelivered) : outbox'[e].status = "ABSENT" =>
        /\ watches'[WatchOfEvent(e)].run_status = "ABSENT"
        /\ WatchOfEvent(e) \in Forced ]_vars

\* Only such a deletion takes a claim away from the dispatcher that works on it: a
\* purge or a deletion without the flag never makes an acknowledgement fail.
ClaimsStayActive ==
  [][ \A d \in Dispatchers : \A c \in batch'[d] :
        (c \in batch[d] => ClaimActive(c) /\ WatchOfEvent(c.outbox_id) \notin Forced)
          => ClaimActive(c)' ]_vars

-----------------------------------------------------------------------------
(* Liveness, under FairSpec. *)

\* Every event a promotion queued is delivered, given up, or deleted with its
\* watch; a deletion that takes a claim away does not stop the dispatcher.
EveryEventSettles ==
  \A e \in EventIds :
    (outbox[e].status \in Undelivered) ~> (outbox[e].status \in Terminal \cup {"ABSENT"})
=============================================================================
