# Verification of watch-engine

watch-engine runs *watches*: it observes something, keeps every observation as
evidence, lets a policy judge the transition from the last authoritative
observation to the new one, and delivers the events the policy answers with, at
least once, through an outbox in SQLite. This directory holds TLA+ modules of its
state and its transactions, TLC runs over them, and proofs checked by TLAPS.

Paths below are relative to `src/src/watch_engine/`.

## 1. The system

| part | state | operations | interacts with |
|---|---|---|---|
| `SQLiteStore`, outbox half (`storage.py`) | tables `outbox`, `delivery_attempts` | `recover_in_flight`, `claim_due`, `record_delivery_success`, `record_delivery_failure`, `_insert_outbox` | one short transaction per call; called by the dispatcher and by promotions |
| `OutboxDispatcher` (`delivery.py`) | `_recovered`; locals of one call | `dispatch_ready` | the store; the sink, which returns or raises |
| `RetryPolicy` (`models.py`) | none | `delay_for_failure` | dispatcher, observer retries |
| `SQLiteStore`, evidence half | tables `watches`, `observations`, `authoritative_states`, `events` | `mark_run_started`, `mark_run_error`, `record_observation` (two transactions) | called by the runtime; the second transaction runs the policy and fills the outbox |
| `WatchRuntime` (`runtime.py`) | locals of one call | `run_once`, `_observe` | store, observer, policy; calls may overlap |
| maintenance (`storage.py`) | none | `purge_before`, `delete_watch`, `compact_storage` | delete from every table while calls and dispatchers run |
| opening (`storage.py`) | the file, `schema_meta` | `SQLiteStore.__init__` and the validators | other constructions on the same path |
| readers (`storage.py`) | none | `get_*`, `list_*_diagnostics` | single SELECTs |
| `WatchRunner` (`runtime.py`) | where each task is | `run_next`, `serve` | awaits a trigger, then `run_once` in a thread of the executor that all runners share |
| triggers (`triggers.py`) | the queue of a `ManualTrigger` | `fire`, `wait_next` | the event loop's timers, the wall clock |
| schema fingerprint (`storage.py`) | none | `_normalize_schema_sql` | decides, with the PRAGMA validators, whether a database is opened |
| timestamps (`_time.py`, `storage.py`) | texts in columns | `to_iso`, `to_sortable_iso`, `from_iso`, `_sortable_timestamp_sql` | every table; compared in SQL |
| JSON (`_json.py`) | `active_containers` of one traversal | `encode_json`, `decode_json`, `_validate_json_shape` | every payload, state and evidence |
| helpers | none | `_errors.py`, dataclass validation | everything |

What is hard in it:

* Every store operation is a transaction of its own, so a call is a *sequence* of
  transactions; between two of them another call, another dispatcher, a purge or a
  deletion may commit, and the process may stop.
* The sink is called between the claim and the acknowledgement: an acceptance can be
  lost, and must then be repeated.
* Several `run_once` calls for one watch may overlap (README 281 ff. of the repository
  supports it), and finish in another order than they observed.
* `recover_in_flight` cannot tell whose claims it takes back. Only one owner is
  supported at a time, but the acknowledgements' compare-and-set has to keep the data
  right when two overlap.
* A task can be cancelled, the thread that runs its call cannot: the call goes on
  unawaited, holds a thread of the shared executor, and overlaps what is started next.
* A sleep is computed once, from a clock that may be set before it ends, by a loop that
  may wake a little early.
* A reader of diagnostics walks a table in several transactions while rows come and go.
* A retry budget, a backoff, a batch limit and a representable time have boundaries.

## 2. Modules

```
OutboxStore ── OutboxDispatcher ── OutboxDispatcherQueue ──(refines)── AtLeastOnce
     │               │                 ├── MCOutboxDispatcher ── RetryPolicy
     │               │                 └── OutboxDispatcherProofs
     │               └────────────────────────────────────────┐
EvidenceStore ── WatchRuntime ── WatchRuntimeLedger ──(refines)── WatchLedger
     │               │                 └── MCWatchRuntime     │
     │               └── WatchRunner ──(refines)── WatchRuntime
     │                       ├── MCWatchRunner                │
     │                       └── WatchRunnerProofs ── WatchRuntimeLedger, EvidenceStoreProofs
     └── WatchEngine (INSTANCE WatchRuntime, OutboxDispatcher)
                     ├── MCWatchEngine
                     └── WatchEngineProofs ── EvidenceStoreProofs (INSTANCE OutboxDispatcherProofs)
OutboxStore ── DiagnosticPages ── MCDiagnosticPages, DiagnosticPagesProofs
TimedTriggers ── TimedTriggersProofs
Timestamps, JsonShape, SchemaFingerprint ── MCAlgorithms
StoreOpen, SchemaFingerprint ── StoreOpenProofs
Timestamps, JsonShape ── AlgorithmsProofs
```

**OutboxStore** holds the tables `outbox` and `delivery_attempts` and one operator per
transaction. The id a row gets from AUTOINCREMENT stands for the row and its event
(the two are inserted together, the event id is UNIQUE). A row is its `status`,
`attempts` and `next_attempt_at`. The CAS of both acknowledgements is `ClaimActive`;
`event_id` in its WHERE clause adds nothing to the id and is left out.

**OutboxDispatcher** is `dispatch_ready` for a set of dispatchers. `phase` is the
position in the method: `recover`, `claim`, `deliver` (at the head of the loop),
`succeeded`/`failed` (the sink has answered, nothing recorded). `Start` reads
`claim_time`; `Recover` and `Claim` are the transactions; `SinkAccepts`/`SinkFails` the
call of the sink; `AckSuccess`, `AckDead`, `AckRetry` the recording; `AckLost` a refused
acknowledgement; `RetryUnschedulable` the `OverflowError` of `completed_at + timedelta`;
`Interrupt` everything else that ends the call (a clock, row decoding or transaction
that raises, a `BaseException`, the death of the process and a new dispatcher object).
All of the latter leave `_recovered` false, which is what `Abort` says. `accepted` and
`interruptions` are history variables.

**RetryPolicy** is `delay_for_failure` in integers: cap, and overflow of the power.

**AtLeastOnce** is the promise of the outbox: an event once queued stays queued until
it was accepted or failed `MaxAttempts` times; the sink is offered queued events only.
**OutboxDispatcherQueue** is the mapping: the state of an event is the status of its row, its
failures are its FAILED attempts.

**EvidenceStore** holds the other four tables and the transactions of a run:
`MarkRunStarted`, `MarkRunError`, `PersistObservation` (first transaction of
`record_observation`) and `PromoteValidObservation` (second). An observation is its
status and `observed_at`; the policy's answer is the number of its drafts. `ledger` is a
history variable: the (previous, current) pairs the policy judged, with that number.

**WatchRuntime** is `run_once` for a set of calls. A call goes through `observing`,
`persisting`, `promoting`, `erroring` and ends `returned`, `raised`, `unmarked` (its
failure could not be recorded) or `dead`. `Faults` chooses which faults may happen.

**WatchLedger** is the promise of both: evidence only grows, and the transitions of a
watch form one log, each judged against the last, in order of observation. Evidence that
is not there is the record `Absent`. **WatchRuntimeLedger** is the mapping: what is stored of
an observation, and the log as it is.

**WatchEngine** puts calls, dispatchers, `PurgeBefore` and `DeleteWatch` on one
database. It instantiates the two modules rather than repeating them; only the frame
conditions are its own.

**StoreOpen** is `SQLiteStore.__init__`, one step per system call or statement. What the
path holds is one of `absent`, `empty`, `engine` (the engine's schema, with `metaRows`
version rows), `foreign` (whatever the validators refuse) and `irregular` (a link, a
directory or a file with further links, which `_prepare_database_file` refuses).

**WatchRunner** is `serve` for a set of tasks over the calls of WatchRuntime. A task is
`looping` (at the condition of the `while`), `waiting` (in `wait_next`), `awaiting` (a
call handed to `asyncio.to_thread`) or over. `Fire` and `TakeRequest` are the two ends
of a `ManualTrigger`'s queue; `TakeRequest` and `TimerEnds` go on to `Submit`, because
nothing is awaited between the return of `wait_next` and the submission.
The executor (external) is a queue `pool` and at most `Workers` calls that a
thread has `taken` and not finished. `Cancel` withdraws a call that no thread has taken
and abandons one that a thread has; `ServeAgain` is the application starting over.
The fault `crash` of WatchRuntime is excluded: an exception of any kind in a thread
is passed to the awaiting task, and the end of the process ends the runner with it.

**TimedTriggers** is `IntervalTrigger` and `CronTrigger`, each in the loop of a runner. `time`
is the loop's monotonic time, `wall` the clock of the host, which `SetClock` moves either
way; `Wake` may be early by `Early`. The slots of a cron expression are the multiples
of `Period`: `croniter`, time zones and daylight saving are not modelled.

**DiagnosticPages** is a reader that walks the outbox or the attempts with the last id it
was given, against the transactions of OutboxStore and the deletions of both maintenance
operations. `eventWatch` stands for the table `events` as far as the join reads it.
Only the outbox ids and attempt ids of AUTOINCREMENT make the walk safe: with ids that
are reused (`NextIds_AfterLargest`) a walk misses rows.

**Timestamps** has the conversions as operators on sequences of character codes, in the
order of ASCII, with `Base`, `SecondWidth` and `MicroWidth` in place of ten, fourteen
and six digits; the parts of a text that are the same in all texts are left out.
`Write` and `Select` take every datetime with every offset.

**JsonShape** is the recursion of `_validate_json_shape` as a stack of frames, over every
graph of lists and dicts of a bounded size. The reference it is compared with
speaks of the paths of references from the root (`Paths`), how long they are and whether
one comes back to a container, and not of a traversal. `MAX_JSON_NESTING` is a rigid
variable, `nesting`, so that one run takes several limits.

**SchemaFingerprint** is the scanner of `_normalize_schema_sql`, one action per kind of
token. One quote stands for the three that work alike, a line break and
a blank for all white space, one letter in two cases for the
characters of words, and `->>`, `->`, `>>` for the operators. The reference
defines a token by what it looks like, longest first: a literal is closed by a quote
when every run of quotes inside it is even.

**MC…** modules give the constants their values for TLC. **MCAlgorithms**
joins the three modules above into one model for TLC: a behaviour is one of the three, and
what belongs to the others stays as it is.

Operators named `X_Something` next to an operator `X` are faulty variants of it (a
dropped guard, a missing reset), used to confirm that each property notices the bug.

### What the models leave out

Texts (`last_error`, payloads, JSON), timestamps that nothing reads (`locked_at`,
`updated_at`), return values and logs. Time is one integer clock every component reads;
it never runs backwards. A transaction is one step: `BEGIN IMMEDIATE` serializes
writers, and `recover_in_flight` and `mark_run_error` are single UPDATEs. A busy
timeout is a transaction that raises.

## 3. Runs

| run | question | bounds |
|---|---|---|
| `OutboxDispatcher_single` | one owner: at most one batch in flight, duplicates cost interruptions, caught failures are recorded, implements `AtLeastOnce`; every event settles (fair) | 3 events, promotions of 1–2, batch 2, 2 attempts, 2 interruptions |
| `OutboxDispatcher_overlap` | two dispatchers: audit trail, budget, finality, no orphaned claim, growing backoff honoured | 2 events, batch 2, 3 attempts with delays 1 and 2, 1 interruption, last instant 3 so that retries can be unschedulable |
| `OutboxDispatcher_overflow` | **violated**: a caught failure is recorded | 1 event, 2 attempts, delay past the last instant |
| `WatchRuntime_overlap` | overlapping calls with every fault; implements `WatchLedger`; no watch stays RUNNING (fair) | 3 calls on 1 watch, `observed_at` in {1, 2} (so equal ones too), 0–1 drafts |
| `WatchEngine_delete` | calls, dispatcher, purge, deletion with and without `allow_undelivered` | 2 calls on 1 watch, 2 events, 2 attempts, 1 interruption |
| `WatchEngine_two` | only a deletion with `allow_undelivered` loses events or takes claims away; every queued event settles or goes with its watch (fair) | 2 watches, one also deleted with the flag, 2 events, batch 2, 2 observer attempts, 2 interruptions |
| `WatchRunner_serve` | no fire lost or served twice; calls overlap only after a cancellation; implements `WatchRuntime`; a stop ends `serve` and requests are executed although a call that was left behind or another watch's call holds the only thread (fair) | 2 watches: one with a `ManualTrigger`, 2 calls and 2 fires, one with a timed trigger that may raise and 1 call; 1 cancellation, 1 thread |
| `TimedTriggers` | a slot is released again only for a clock set back or an early wake-up; a sleep leads to its slot; executions of an interval are the minimum apart | period 3, interval 2–3, random values 0, 2, 3, 9 and none, time to 8, clock set by 2 in all, early by 2 in all |
| `DiagnosticPages` | each row once, none missed | both tables, 3 events of 2 watches, 1 attempt each, pages of 1–2, every filter |
| `Algorithms` | timestamps compare as instants and are read back; JSON values are refused exactly when they must be; tokens of SQL are the lexemes, and format does not matter | every pair of 81 times with offsets 0, 2, 3; every value of 3 containers of up to 2 items, limits 2 and 3; every text of up to 5 of 10 characters, 3 separators |
| `StoreOpen_serial` | sequential openings with crashes | 3 openers, 5 contents, 2 crashes |
| `StoreOpen_overlap` | **violated**: one version row | 2 openers of a new path |

The bounds and why they are enough: the dispatcher's hazards need two rows (a batch with
one row done and one not), two attempts (a first and a last failure) and two interruptions
(one that orphans a claim, one during its recovery); backoff needs three attempts to
tell the first delay from the second. Overlap hazards need two claims on one row. For
`run_once` three calls give a promoted, an overtaken and a late one; two instants
give older, equal and newer. A runner needs two calls of a watch to have one that
is abandoned and one that overlaps it, or that waits behind it for the only thread, and
a call of another watch that does the same. A
shared reference, a cycle and a cycle below the root need three containers; five
characters hold the shortest text on which a comment's star could count twice (`/*/*/`), a
doubled quote inside a literal, and an operator between two words. Three rows
and pages of one and two give a page boundary before, at and behind a row that is removed. Bounds that exist only to make the state space finite are
`MaxEvents`, `MaxDrafts`, `MaxInterruptions`, `MaxAcceptances` (where the history counter
saturates), `IdleClock` (how far time runs with nobody waiting), `ObservedTimes`,
`MaxCrashes`, `MaxFires`, `MaxCancels`, `MaxEarly`, `MaxSettings`, `Horizon`, `MaxLimit`,
`MaxItems`, `MaxLength`; `nesting` (100 in the code), `MaxAttempts`, `BatchSize`, `RetryDelay`, `ObserverAttempts`, `MaxDate` are
parameters of the program.

`CHECK_DEADLOCK FALSE` is set for `WatchRuntime_overlap` (every call has been made) and
`StoreOpen_*` (every opener is refused): there the system really stops. It is also set
for `WatchRunner_serve` (calls, fires and stops are used up), `TimedTriggers` (time is up), and
for `DiagnosticPages` and `Algorithms`: one walk, one query, one traversal or one scan ends.

### Fairness

* `dispatch_ready` is called again and again, and every call goes on: weak fairness of
  `Step(d)`. The application's loop does this; without it nothing is delivered and the
  documentation promises nothing.
* The clock moves while a retry waits: weak fairness of `Tick`.
* A call of `run_once` that was made goes on: weak fairness of `Continue(r)`. Nothing makes
  the application call it.
* The event loop runs its tasks and the executor its threads: weak fairness of `TaskStep(t)`,
  `WorkerTakes` and `ThreadStep(r)`. Nothing makes the application fire, stop, cancel or
  serve again, and nothing ends a wait of which no request comes.
* A construction of the store that was interrupted is repeated: weak fairness of
  `Open(o)`.

Nothing is assumed of the sink's verdicts, of promotions, purges or deletions, nor of
interruptions, which are bounded in number (an endless series of crashes prevents
delivery in the program too).

### What the runs show, property by property

* `AuditTrail`, `HistoryIsFinal`: `delivery_attempts.attempt_number` is not UNIQUE in the
  schema; only `attempts = ?` in the acknowledgements' WHERE clause keeps two
  dispatchers, one of which was overtaken by a recovery, from both counting.
* `NoOrphanedClaim`, `InFlightBounded`, `EveryEventSettles`: what the `finally` of
  `dispatch_ready` is for.
* `BackoffHonoured`: recovery sets `next_attempt_at` to the present, but only on rows that
  had waited already.
* `DuplicatesNeedInterruptions`: the only source of duplicates with one owner.
* `AuthorityIsNewest`, `TransitionsChain`, `AuthorityMovesForward`: the staleness check inside the
  second transaction is enough for any overlap, equal timestamps included.
* `PromotionIsAtomic`, `ExecutionsCounted`: a failure of the second transaction leaves the first.
* `RunningIsExplained`, `RunStatusSettles`: RUNNING needs a call under way, a dead one or one
  whose status write failed. (With overlapping calls the converse does not hold: the
  status is that of the last write.)
* `ReferencesResolve`, `StoredIsAccounted`, `UndeliveredSurvives`, `ClaimsStayActive`: purges
  and deletions between any two steps of calls and dispatchers. A watch that a call brings
  back after its deletion has the counter and the authority that what is stored needs. A watch that is never
  deleted with `allow_undelivered` keeps its events and claims, whatever happens to others.
* `RejectedUntouched`, `EmptyBecomesUsable`, `SchemaMetaSingleRow`: opening.
* `FiresAccounted`: a request is taken from the queue before the call is submitted. Only
  a cancellation can come between it and its execution, so at most one request is lost
  per cancellation, and none is executed twice.
* `OverlapNeedsCancellation`, `RunsAsRunOnce`: the documentation allows
  cancelling the task and says that the call under way must be left to finish; then
  the next one may overlap it, and the theorems on overlapping calls are what keeps
  the evidence right.
* `StopEndsServe`: the stop event is read between calls. One set while a trigger
  waits is noticed after the call which that wait releases, as documented, so the property
  excludes this case.
* `RepeatsNeedClock`: `CronTrigger` does not remember the slot it released.
* `ReadExactlyOnce`: also for rows that begin to match by being inserted during
  the walk; a row that changes its status into the filter behind the cursor is not seen,
  and is not promised to be.
* `TextsAreInstants`: `…00Z` sorts after `…00.5Z`; the key of `_sortable_timestamp_sql` repairs it.

### Disagreements found

1. `StoreOpen_overlap`. `_initialize` (storage.py:533) reads the schema objects before the
   script's `BEGIN IMMEDIATE`. Two overlapping first openings both find none; the second
   creates nothing (`IF NOT EXISTS`) and still inserts a version row, after which every
   opening raises "schema_meta must contain exactly one row".
2. `OutboxDispatcher_overflow`. `completed_at + timedelta(seconds=delay)` (delivery.py:71) raises
   for a delay that `RetryPolicy` accepts but `datetime` cannot reach. The failure
   is then never recorded: the event is recovered and offered again without using up
   an attempt, and the events behind it in the batch wait.

## 4. Proofs

Every theorem holds for all values of the constants: any set of dispatchers, calls and
watches, any bounds. The assumptions are the named ones of the modules, and TLC evaluates
all of them in the runs: ranges of numbers, one watch per call, `None` not being a call;
`EngineAssumption` repeats for the composition what its two components assume. The sets of
dispatchers, calls and watches need not be finite; the tasks of a runner are finitely many
(`RunnerAssumption`), as they are in an event loop.

Where a theorem has a hypothesis of its own, the run that checks the property has it too:

* *single owner* (`\A a, b \in Dispatchers : a = b`): what `delivery.py` documents, and false of the
  property otherwise. Theorems without it hold for overlapping dispatchers.
* *no overlapping openings* (`~Overlapping`): `StoreOpen_overlap` shows that the property fails
  without it.
* *no unschedulable retry* (`[][\A d : ~RetryUnschedulable(d)]_vars`): `OutboxDispatcher_overflow`
  shows that the property fails without it. Nothing else can lose a failure.

`OutboxDispatcherProofs`:

| theorem | inductive invariant | why the property alone is not inductive |
|---|---|---|
| `TypeCorrect`: `TypeOK`, `AttemptBudget` | `TypeInv`, their conjunction | an acknowledgement adds 1 to `attempts`, which stays in range only because a claimed row is still below the budget |
| `AuditTrailCorrect`: `AuditTrail` | `AuditInv` adds `UnusedIds` | a promotion must not find attempts under the ids it gives out |
| `HistoryFinal`: `HistoryIsFinal` | `AuditInv` | the action property needs that only an active claim is acknowledged |
| `DeliveredCorrect`: `DeliveredWasAccepted` | `AcceptedInv` adds that a dispatcher in `succeeded` holds an accepted event | the acceptance is one step, its recording a later one |
| `NoOrphanedClaimCorrect`: `NoOrphanedClaim` | `OrphanInv` adds `NothingHeld` (an idle dispatcher holds no batch) | dropping a batch must be matched by clearing `_recovered` |
| `BackoffCorrect`: `BackoffHonoured` | `BackoffInv` adds `ClaimTimePast`, `WaitsForBackoff` | recovery moves `next_attempt_at` back to the present; only rows that were due can be in flight |
| `InFlightCorrect`: `InFlightBounded` (single owner) | `OwnerInv` adds `RecoversFirst`, `HoldsWhatIsInFlight` and `ClaimsGivenOut` | a claim adds a batch to the rows in flight: there must be none, because the owner has recovered and holds nothing; what it holds may have been removed, but its id is not given out again |
| `DuplicatesCorrect`: `DuplicatesNeedInterruptions` (single owner) | `DuplicateInv` adds `LastAcceptanceCounts` | an acceptance beyond the interruptions so far must be recorded or next to be recorded, or the event could be offered once more |
| `FailureRecordedUnlessOverflow`: `FailureRecorded` | `AuditInv` with `OneClaimEach` | the attempt row that appears must be that of the event that failed |
| `ImplementsQueue`: `ImplementsAtLeastOnce` (single owner) | `QueueInv`: `AuditInv`, `AcceptedInv`, `OwnerInv` and `FailuresCounted` | an accepted event must still be queued when its delivery is recorded, and an event may die only with its attempts all failed |

A step of the dispatcher is classified once (`QuietOrAck`): either it changes status
without adding attempts, or it is an acknowledgement, with the effect `AckEffect` states.
The proofs about history then have two cases instead of one for each action.
`FirstDueBounded` is the fact behind `LIMIT`: at most `BatchSize` rows have fewer than
`BatchSize` due rows before them.

The module then lets somebody else remove events: `MaintainedSpec` adds to the steps of the
dispatchers `Remove(E)`, which deletes any set of events with their rows and attempts between
any two of those steps, in mid-delivery too. The invariants above are proved of it as well:

| theorem | what it says |
|---|---|
| `MaintainedCorrect` | `AttemptBudget`, `AuditTrail`, `DeliveredWasAccepted`, `NoOrphanedClaim`, `BackoffHonoured` |
| `MaintainedOwner` (single owner) | `InFlightBounded`, `DuplicatesNeedInterruptions` |
| `MaintainedHistory` | settled rows and attempts are removed at most, never changed, and no id is given out again |

`HistoryIsFinal` and `ImplementsAtLeastOnce` are false of it: an operator may delete what is queued.

`WatchRunnerProofs`, first about WatchRuntime:

| theorem | inductive invariant | why the property alone is not inductive |
|---|---|---|
| `TypeCorrect`: `TypeOK` | itself | |
| `RunningExplained`: `RunningIsExplained` | `RunningInv`, with the phases `Explains` | a promoting call is active but explains no RUNNING (its first transaction wrote IDLE), so it may end without leaving one unexplained |
| `TransitionsCorrect`: `TransitionsChain`, `AuthorityCorrect`: `AuthorityIsNewest` | `ChainInv` adds `EntriesValid` and `PromotingStored` | the authority must be a stored VALID observation of its own watch for `_read_authoritative` to find it; a promoting call is judged by what its first transaction stored, not by what it holds |
| `PromotionAtomic`: `PromotionIsAtomic` | `AtomicInv` adds `UnusedIds` | the new ids must be fresh, or the promotion would take over another's events |
| `ExecutionsCorrect`: `ExecutionsCounted` | `CountInv` adds finiteness, and that an absent watch has counted nothing | `_ensure_watch` starts a missing watch at 0 |
| `ImplementsLedgerCorrect`: `ImplementsLedger` | `LedgerInv`: `ChainInv` and the range of `observed_at` | a transition is the next of the log only because the authority is what the log ends with |

Here too each step is classified first (`QuietOrRecords`): it leaves the evidence alone, or
it is the first (`PersistEffect`) or the second transaction (`PromoteEffect`).
`EvidenceStoreProofs` holds what the transactions do to the types of the tables, used for
the runtime and for the engine.

`WatchEngineProofs` is about the composition, purges and deletions included:

| theorem | inductive invariant | why the property alone is not inductive |
|---|---|---|
| `ReferencesCorrect`: `ReferencesResolve` | `EngineInv`: it, the types, `AuthorityCoversStored` and `PromotingValid` | a promotion looks its observation up again, and it may be gone; what replaces the authority must be VALID and newer than everything the purge spared |
| `AccountsCorrect`: `StoredIsAccounted` | `CounterInv`: `EngineInv` and finiteness | `_ensure_watch` may start a missing watch at 0 only because nothing of it is stored |
| `AuthorityForward`: `AuthorityMovesForward` | `EngineInv` | the authority must be stored for the comparison of the second transaction to see its instant |
| `UndeliveredKept`: `UndeliveredSurvives` | `EngineInv` | an event of a watch that is deleted is found through its references |
| `ClaimsKept`: `ClaimsStayActive` (single owner) | `ClaimInv` adds `NothingHeld` | a recovery would take the claims of a batch that is still held |

The steps of the two components are brought into the vocabulary of the engine first
(`RunStepKinds`, `DispatchStepKinds`): a run writes nothing, marks, persists or promotes; a
dispatcher moves on, recovers, claims or acknowledges; maintenance drops rows.

`ImplementsDelivery` shows that the engine implements `MaintainedSpec`: a promotion publishes
its drafts with a `created_at` that is not in the future, a purge or a deletion removes the events it
took with their rows and attempts, and a run leaves the outbox alone otherwise. The theorems
about the maintained dispatcher are therefore theorems about the engine: `DeliveryCorrect`,
`DeliveryOwnerCorrect`, `DeliveryHistory`.

About the runner, `WatchRunnerProofs` proves `RunnerImplementsRuntime` (`RunsAsRunOnce`): each step of tasks,
triggers and executor is a step of WatchRuntime or leaves the store alone. With the theorems
above this gives `RunnerEvidence`: the evidence stays right under any number of
runners, threads and cancellations. It needs no assumption besides those of WatchRuntime.

| theorem | inductive invariant | why the property alone is not inductive |
|---|---|---|
| `FiresCorrect`: `FiresAccounted` | `FiresInv` adds `RunnerTyped`, `JobsFit`, `ReleasedFinite` | a call that is submitted must be new to the counted ones, and a cancellation may withdraw only what is queued once |
| `OverlapCorrect`: `OverlapNeedsCancellation` | `OverlapInv` adds `LeftBehindFew` | a call that was left behind is paid for by the cancellation at once, and overlaps another only later |

`TimedTriggersProofs`:

| theorem | inductive invariant | why the property alone is not inductive |
|---|---|---|
| `SleepCorrect`: `SleepAimsAtSlot` | adds `Typed` | `NextFireLater`: the next slot is later than now for every period, so that the code's `max(0, …)` never cuts a sleep |
| `IntervalsCorrect`: `IntervalsKept` | `IntervalInv` | the distance is decided when the sleep begins and released when it ends: the wake-up time must be the minimum after the last release |
| `RepeatsCorrect`: `RepeatsNeedClock` | `RepeatsPaid` | what was spent on the clock is used up by the next repetition: between releases the clock lags the last slot by no more than what is left, during a sleep the arrival lags its slot by no more |

`DiagnosticPagesProofs`:

| theorem | inductive invariant | why the property alone is not inductive |
|---|---|---|
| `PagesCorrect`: `ReadExactlyOnce` | `WalkInv` with `RowsTyped` | an id that is inserted during the walk must lie behind the cursor: the cursor never passes the last id given out, and `OthersTables` shows that every new id does |

`FirstOnes` is the fact behind `ORDER BY id LIMIT n`: the page is an initial part of the rows
that are left, and all of them when it is short.

`StoreOpenProofs`:

| theorem | inductive invariant | why the property alone is not inductive |
|---|---|---|
| `SingleRowCorrect`: `SchemaMetaSingleRow` (no overlap) | `SerialInv` | whoever is about to create the schema must still find the database empty, so nobody else may be under way |
| `RejectedCorrect`: `RejectedUntouched` (no overlap) | `SerialInv` and `ForeignAlone` | no opener may be past the inspection of a foreign database |
| `ForeignUntouched` (openings may overlap) | `ForeignAlone` | for an irregular path, nobody is under way at all |
| `LexemesCorrect`: `TokensAreLexemes` | `ScanInv`: `Halfway`, `FirstScan`, `SecondScan` | the tokens are right only at the end; on the way, what was taken and what the lexemes still hold make up all lexemes |

`LexemesCorrect` is about the scanner of `SchemaFingerprint`, for every alphabet, every length
of text and every set of separators that consist of closed white space and comments
(`FingerprintAssumption`). A round of the loop skips the longest format (`FormatStep`) or takes
the longest token (`TokenStep`) at its position; `LexemesIs` takes the same step in the
reference. The reformatted text is laid out in blocks of a separator and a token
(`FlattenLaid`). `SecondScan` says in which block the scan is, at a piece of its
separator or at its token: a piece ends where the separator says (`GapAgain`), and a token is
found again (`TokenAgain`) because only the last one can be a literal without an end
(`FirstScan`), and what follows the others is white space. A doubled quote is the hard case:
the code goes from quote to quote, the reference counts runs, and `QuoteEndsDoubled` shows that
they agree.

`AlgorithmsProofs`:

| theorem | inductive invariant | why the property alone is not inductive |
|---|---|---|
| `VerdictCorrect`: `VerdictIsRight` (`VerdictMatches`, `ActiveIsPath`) | `ShapeInv` adds `StackIsPath`, `BehindPasses`, `VerdictEnds` | a refusal needs a path that shows the reason: the active calls are one; an acceptance needs that everything behind a call was JSON, with the levels it had left |
| `TextsCorrect`: `TextsAreInstants` | `TimeInv`: what a text and an answer are | the property is about every datetime, not about the state: `Sortable` (texts in the order of their instants) and `ReadBack` (a text gives its instant) are facts about the conversions |

A container that a cycle leads back to has paths of every length, so that it is no JSON for
any limit (`JsonFromItems`, `PathTail`); that is why one number of levels left is enough for
both refusals. For texts, `KeyOrder` reduces the order of two keys to the first digit in
which they differ (`DigitsOrder`, `DivOfDiv`), and `NumberOfDigits` reads a number back digit by digit.
Facts about all numbers are proved by the least counterexample (`LeastExists`), which the
provers can follow where they cannot instantiate an induction theorem.

Only model-checked:

* The liveness properties: temporal reasoning under fairness and `ENABLED` are out of the
  prover's reach.
* `RetryPolicy`, which computes the delays of the runs; the theorems hold for any.

The types of `OutboxDispatcher` are proved and not checked by a run. The theorems of
`WatchRunnerProofs` are about the components without maintenance; what maintenance adds is the
subject of `WatchEngineProofs`.

## 5. What is not modelled, and the plan

Done in this order, most important behaviour first: outbox and dispatcher, evidence and
runtime, composition with maintenance, opening, proofs about dispatcher and runtime; then
runner and triggers, diagnostic pages, timestamps, JSON traversal, schema fingerprint,
proofs about runner and triggers; then proofs about the composition, the two refinements,
the single owner, the runner's queue, the repeated slots, the pages and the openings.

Last: proofs that delivery stays right under maintenance, in the dispatcher and in the engine,
and proofs of the JSON traversal, the texts of timestamps and the scanner. With these each safety
property of the passing runs is a theorem.

Not modelled:

* The PRAGMA comparisons of the validators (columns, indexes, expected objects): a
  comparison of constants, one predicate of `StoreOpen`.
* `get_*`, `list_observations`, `list_events`: single SELECTs; row decoding raises or does not.
* `encode_json`/`decode_json` around the traversal: the encoder and parser of the standard
  library, and one comparison with a size limit.
* Error texts and dataclass validation: no state. What they guarantee appears as ASSUMEs
  and sets of inputs.
* `compact_storage`: WAL checkpoint and VACUUM are internals of SQLite and change no table.
* Cron expressions, time zones and daylight saving (`croniter`); the adapter protocols and the
  published event schema.
* A sink that kills the process: the attempt is not recorded and the event is offered again
  after the restart, without bound. The code makes no promise about it.
