--------------------------- MODULE DiagnosticPages ---------------------------
(***************************************************************************)
(* list_outbox_diagnostics and list_delivery_attempt_diagnostics           *)
(* (storage.py): a reader walks a table page by page, handing the last id  *)
(* of a page to the next call, while rows are inserted, delivered and      *)
(* removed.  Each page is one SELECT, the walk is many.                    *)
(***************************************************************************)
EXTENDS OutboxStore, FiniteSetsExt

CONSTANTS
  WatchIds,  \* the watch ids
  Any,       \* a filter that is not given
  Tables,    \* the tables a reader may walk
  MaxLimit   \* bound: the page sizes in use

ASSUME PagesAssumption ==
  /\ Any \notin WatchIds
  /\ Tables \subseteq {"outbox", "attempts"}
  /\ MaxLimit \in Nat \ {0}

VARIABLES
  eventWatch,  \* the table events: the watch of each event, or Any if absent
  query,       \* the arguments of the walk: table, filters, limit
  cursor,      \* the last id read; 0 stands for None, ids start at 1
  ended,       \* the last page was short
  seen,        \* the ids the reader was given
  given,       \* how many rows it was given
  lasting      \* history: the ids that matched ever since the walk or the row began

readVars == <<query, cursor, ended, seen, given>>
vars     == <<clock, outboxVars, eventWatch, readVars, lasting>>

Filters(table) ==
  [table  : {table},
   watch  : WatchIds \cup {Any},
   status : {Any} \cup IF table = "outbox" THEN {"PENDING", "DELIVERED"} ELSE {"FAILED"},
   event  : {Any} \cup IF table = "outbox" THEN {} ELSE EventIds,
   limit  : 1..MaxLimit]

-----------------------------------------------------------------------------
(* What a page selects. *)

OutboxRows ==
  {[id |-> e, event |-> e, status |-> outbox[e].status] :
     e \in WithStatus(Undelivered \cup Terminal)}

AttemptRows ==
  {[id |-> a.attempt_id, event |-> a.outbox_id, status |-> a.status] :
     a \in deliveryAttempts}

Rows(table) == IF table = "outbox" THEN OutboxRows ELSE AttemptRows

\* The clauses on watch, status and event; the join drops rows without an event.
Matches(row, q) ==
  /\ eventWatch[row.event] # Any
  /\ q.watch \in {Any, eventWatch[row.event]}
  /\ q.status \in {Any, row.status}
  /\ q.event \in {Any, row.event}

Matching(q) == {row.id : row \in {r \in Rows(q.table) : Matches(r, q)}}

\* WHERE ... AND id > after ORDER BY id LIMIT limit.
PageAfter(q, after) ==
  LET rest == {i \in Matching(q) : i > after}
  IN  {i \in rest : Cardinality({j \in rest : j < i}) < q.limit}

-----------------------------------------------------------------------------
Init ==
  /\ OutboxInit
  /\ eventWatch = [e \in EventIds |-> Any]
  /\ query \in UNION {Filters(t) : t \in Tables}
  /\ cursor = 0
  /\ ended = FALSE
  /\ seen = {}
  /\ given = 0
  /\ lasting = {}

\* One call of list_..._diagnostics with the last id of the page before.
ReadPage ==
  /\ ~ended
  /\ LET page == PageAfter(query, cursor)
     IN  /\ seen' = seen \cup page
         /\ given' = given + Cardinality(page)
         /\ cursor' = IF page = {} THEN cursor ELSE Max(page)
         /\ ended' = (Cardinality(page) < query.limit)
  /\ UNCHANGED <<clock, outboxVars, eventWatch, query, lasting>>

-----------------------------------------------------------------------------
(* The other users of the tables, one transaction each. *)

InsertedIds == {r.id : r \in Rows(query.table)'} \ {r.id : r \in Rows(query.table)}

\* The history begins with the first page that is not empty.
Keeps == lasting' = IF given = 0 THEN Matching(query)'
                    ELSE (lasting \cup InsertedIds) \cap Matching(query)'

\* A promotion of w queues one event.
Publish(w) ==
  /\ InsertOutbox(1, clock)
  /\ eventWatch' = [e \in EventIds |-> IF e \in NextIds(1) THEN w ELSE eventWatch[e]]

Claims == ClaimsOf(WithStatus({"DELIVERING"}))

\* dispatch_ready's transactions.
Deliver ==
  /\ \/ DueAt(clock) # {} /\ ClaimDue(clock)
     \/ WithStatus({"DELIVERING"}) # {} /\ RecoverInFlight(clock)
     \/ \E c \in Claims : RecordDeliverySuccess(c, clock)
     \/ \E c \in Claims :
          RecordDeliveryFailure(c, IF c.attempts + 1 = MaxAttempts THEN Null ELSE clock, clock)
  /\ UNCHANGED eventWatch

\* purge_before takes settled events, delete_watch all events of a watch; both take
\* outbox rows and attempts along.
Remove(E) ==
  /\ outbox' = [e \in EventIds |-> IF e \in E THEN NoRow ELSE outbox[e]]
  /\ eventWatch' = [e \in EventIds |-> IF e \in E THEN Any ELSE eventWatch[e]]
  /\ deliveryAttempts' = {a \in deliveryAttempts : a.outbox_id \notin E}
  /\ UNCHANGED <<outboxSeq, attemptSeq>>

Maintain ==
  \/ \E E \in SUBSET WithStatus(Terminal) \ {{}} : Remove(E)
  \/ \E w \in WatchIds :
       LET E == {e \in EventIds : eventWatch[e] = w}
       IN  E # {} /\ Remove(E)

\* (What happens after the walk does not matter and is left out.)
Others ==
  /\ ~ended
  /\ (\E w \in WatchIds : Publish(w)) \/ Deliver \/ Maintain
  /\ UNCHANGED <<clock, readVars>>
  /\ Keeps

Next == ReadPage \/ Others

Spec == Init /\ [][Next]_vars

-----------------------------------------------------------------------------
\* A row is given to the reader once, however rows before and after it come, go or
\* change between the pages; and a row that matched from the beginning of the walk,
\* or from its own insertion, is never left behind the cursor unread, and none is
\* unread when a short page ends the walk: ids of removed rows are not given to new
\* ones.
ReadExactlyOnce ==
  /\ given = Cardinality(seen)
  /\ \A i \in lasting : (i <= cursor \/ ended) => i \in seen
=============================================================================
