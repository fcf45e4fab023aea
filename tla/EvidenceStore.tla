---------------------------- MODULE EvidenceStore ----------------------------
(***************************************************************************)
(* The evidence half of SQLiteStore (storage.py): the tables `watches',    *)
(* `observations', `authoritative_states' and `events', and the            *)
(* transactions of one run.  A promotion also inserts outbox rows, so this *)
(* module builds on OutboxStore; an event has the id of its outbox row.    *)
(*                                                                         *)
(* A run (one call of run_once) persists at most one observation, so the   *)
(* run stands for the observation_id it was given.  What is observed is    *)
(* reduced to its status and its observed_at.                              *)
(***************************************************************************)
EXTENDS OutboxStore, Sequences

CONSTANTS
  WatchIds,  \* the watch ids
  Runs,      \* the calls of run_once, and the observations they persist
  WatchOf,   \* the watch each run is for
  None       \* SQL: no such row

ASSUME RunsAssumption == WatchOf \in [Runs -> WatchIds] /\ None \notin Runs

VARIABLES
  watches,       \* the table watches
  observations,  \* the table observations
  authority,     \* the table authoritative_states: its observation_id
  events,        \* the table events: the run each belongs to, and created_at
  ledger         \* history: the promotions of each watch, with what the policy saw

evidenceVars == <<watches, observations, authority, events, ledger>>

Statuses    == {"VALID", "DEGRADED", "FAILED"}
Observation == [status : Statuses, observed_at : Nat]

NoWatch       == [run_status |-> "ABSENT", execution_count |-> 0]
NoObservation == [status |-> "ABSENT", observed_at |-> 0, created_at |-> 0]
NoEvent       == [run |-> None, created_at |-> 0]

Promotion == [previous : Runs \cup {None}, current : Runs, drafts : Nat]

EvidenceTypeOK ==
  /\ watches \in [WatchIds -> [run_status : {"ABSENT", "IDLE", "RUNNING", "ERROR"},
                               execution_count : Nat]]
  /\ observations \in [Runs -> [status : Statuses \cup {"ABSENT"},
                                observed_at : Nat, created_at : Nat]]
  /\ authority \in [WatchIds -> Runs \cup {None}]
  /\ events \in [EventIds -> [run : Runs \cup {None}, created_at : Nat]]
  /\ ledger \in [WatchIds -> Seq(Promotion)]

EvidenceInit ==
  /\ watches = [w \in WatchIds |-> NoWatch]
  /\ observations = [r \in Runs |-> NoObservation]
  /\ authority = [w \in WatchIds |-> None]
  /\ events = [e \in EventIds |-> NoEvent]
  /\ ledger = [w \in WatchIds |-> <<>>]

Stored(r) == observations[r].status # "ABSENT"

-----------------------------------------------------------------------------
\* Mutant: INSERT OR REPLACE.
Ensured_Replaced(w) == [run_status |-> "IDLE", execution_count |-> 0]

\* _ensure_watch: INSERT ... ON CONFLICT DO NOTHING.
Ensured(w) == IF watches[w].run_status = "ABSENT"
              THEN [run_status |-> "IDLE", execution_count |-> 0]
              ELSE watches[w]

MarkRunStarted(w) ==
  watches' = [watches EXCEPT ![w] = [Ensured(w) EXCEPT !.run_status = "RUNNING"]]

\* Mutant: the error is recorded for idle watches only.
MarkRunError_WhereIdle(w) ==
  watches' = [watches EXCEPT ![w].run_status = IF @ = "IDLE" THEN "ERROR" ELSE @]

\* An UPDATE: nothing happens to a watch that was deleted.
MarkRunError(w) ==
  watches' = [watches EXCEPT ![w].run_status = IF @ = "ABSENT" THEN @ ELSE "ERROR"]

\* Mutant: run_status is left alone.
PersistObservation_KeepsStatus(r, observation, now) ==
  /\ ~Stored(r)
  /\ observations' = [observations EXCEPT ![r] =
                        [status |-> observation.status,
                         observed_at |-> observation.observed_at, created_at |-> now]]
  /\ watches' = [watches EXCEPT ![WatchOf[r]] =
                   [Ensured(WatchOf[r]) EXCEPT !.execution_count = @ + 1]]
  /\ UNCHANGED <<authority, events, ledger>>

\* _persist_observation, the first transaction of record_observation.
PersistObservation(r, observation, now) ==
  /\ ~Stored(r)
  /\ observations' = [observations EXCEPT ![r] =
                        [status |-> observation.status,
                         observed_at |-> observation.observed_at, created_at |-> now]]
  /\ watches' = [watches EXCEPT ![WatchOf[r]] =
                   [run_status |-> "IDLE",
                    execution_count |-> Ensured(WatchOf[r]).execution_count + 1]]
  /\ UNCHANGED <<authority, events, ledger>>

\* Mutant: the join finds nothing.
Previous_Never(w) == None

\* _read_authoritative: the authority joined with its observation.
Previous(w) ==
  IF authority[w] # None /\ Stored(authority[w]) THEN authority[w] ELSE None

\* Mutants: no staleness check; equal timestamps are promoted.
Stale_Never(r) == FALSE

Stale_OlderOnly(r) ==
  LET previous == Previous(WatchOf[r])
  IN  /\ previous # None
      /\ observations[r].observed_at < observations[previous].observed_at

Stale(r) ==
  LET previous == Previous(WatchOf[r])
  IN  /\ previous # None
      /\ observations[r].observed_at <= observations[previous].observed_at

\* _promote_valid_observation after a policy answered with n drafts: events,
\* outbox rows and authority in one transaction, the second of the run.
PromoteValidObservation(r, n, now) ==
  LET w == WatchOf[r]
  IN  /\ Stored(r)
      /\ ~Stale(r)
      /\ InsertOutbox(n, now)
      /\ events' = [e \in EventIds |-> IF e \in NextIds(n)
                                       THEN [run |-> r, created_at |-> now] ELSE events[e]]
      /\ authority' = [authority EXCEPT ![w] = r]
      /\ ledger' = [ledger EXCEPT ![w] =
                      Append(@, [previous |-> Previous(w), current |-> r, drafts |-> n])]
      /\ UNCHANGED <<watches, observations>>
=============================================================================
