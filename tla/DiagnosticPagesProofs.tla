------------------------ MODULE DiagnosticPagesProofs ------------------------
(***************************************************************************)
(* A theorem about DiagnosticPages, for every number of rows and watches,  *)
(* every page size, every filter and everything the other users of the     *)
(* tables may do between two pages.                                        *)
(***************************************************************************)
EXTENDS DiagnosticPages, FiniteSetTheorems, WellFoundedInduction, TLAPS

(* Numbers. *)

\* Max is the largest element of a bounded, non-empty set of naturals.
LEMMA MaxOfBounded ==
  ASSUME NEW S \in SUBSET Nat, NEW b \in Nat, \A x \in S : x <= b, S # {}
  PROVE  Max(S) \in S /\ \A x \in S : x <= Max(S)
<1> DEFINE T == {b - x : x \in S}
<1>1. T \in SUBSET Nat /\ T # {}
  <2>1. \A x \in S : b - x \in Nat
    OBVIOUS
  <2> QED BY <2>1
<1>2. PICK t \in T : \A y \in T : <<y, t>> \notin OpToRel(<, Nat)
  <2> HIDE DEF T
  <2> QED BY <1>1, NatLessThanWellFounded, WFMin
<1>3. \A y \in T : ~(y < t)
  BY <1>1, <1>2 DEF OpToRel
<1>4. PICK m \in S : t = b - m
  BY <1>2
<1>5. ASSUME NEW x \in S PROVE m >= x
  <2>1. b - x \in T
    OBVIOUS
  <2>2. ~(b - x < t)
    BY <1>3, <2>1
  <2> QED BY <1>4, <2>2
<1>6. Max(S) \in S /\ \A y \in S : Max(S) >= y
  BY <1>5 DEF Max
<1> QED BY <1>6

\* ORDER BY id LIMIT n.
First(rest, n) == {i \in rest : Cardinality({j \in rest : j < i}) < n}

\* What it selects of the rows that are left is an initial part of them, and all of
\* them if it is short.
LEMMA FirstOnes ==
  ASSUME NEW rest \in SUBSET Nat, IsFiniteSet(rest), NEW n \in Nat
  PROVE  /\ First(rest, n) \subseteq rest
         /\ \A i \in rest, k \in First(rest, n) : i <= k => i \in First(rest, n)
         /\ Cardinality(First(rest, n)) < n => First(rest, n) = rest
<1> DEFINE page == First(rest, n)
           Before(i) == {j \in rest : j < i}
<1>1. \A i \in Nat : IsFiniteSet(Before(i)) /\ Cardinality(Before(i)) \in Nat
  BY FS_Subset, FS_CardinalityType
<1>2. page \subseteq rest /\ \A i \in rest : i \in page <=> Cardinality(Before(i)) < n
  BY DEF First
<1> HIDE DEF page
<1>3. IsFiniteSet(page) /\ Cardinality(page) \in Nat
  BY <1>2, FS_Subset, FS_CardinalityType
<1>4. ASSUME NEW i \in rest, NEW k \in page, i <= k PROVE i \in page
  <2>1. Before(i) \subseteq Before(k)
    <3> SUFFICES ASSUME NEW j \in rest, j < i PROVE j < k
      OBVIOUS
    <3>1. i \in Nat /\ k \in Nat /\ j \in Nat
      BY <1>2
    <3> QED BY <1>4, <3>1
  <2>2. Cardinality(Before(i)) <= Cardinality(Before(k))
    BY <1>1, <1>2, <2>1, FS_Subset
  <2> HIDE DEF Before
  <2>3. Cardinality(Before(i)) < n
    BY <1>1, <1>2, <2>2
  <2> QED BY <1>2, <2>3
<1>5. ASSUME Cardinality(page) < n, page # rest PROVE FALSE
  <2> DEFINE Left == rest \ page
  <2>1. Left \in SUBSET Nat /\ Left # {}
    BY <1>2, <1>5
  <2>2. PICK i \in Left : \A y \in Left : <<y, i>> \notin OpToRel(<, Nat)
    <3> HIDE DEF Left
    <3> QED BY <2>1, NatLessThanWellFounded, WFMin
  <2>3. \A y \in Left : ~(y < i)
    BY <2>1, <2>2 DEF OpToRel
  <2>4. Before(i) \subseteq page
    BY <2>1, <2>3
  <2>5. Cardinality(Before(i)) <= Cardinality(page)
    BY <1>3, <2>4, FS_Subset
  <2>6. i \in Nat /\ i \in rest /\ i \notin page
    BY <2>1
  <2> HIDE DEF Before, Left
  <2>7. Cardinality(Before(i)) < n
    BY <1>1, <1>3, <1>5, <2>5, <2>6
  <2> QED BY <1>2, <2>6, <2>7
<1>6. page \subseteq rest
  BY <1>2
<1> QED BY <1>4, <1>5, <1>6 DEF page

-----------------------------------------------------------------------------
(* The ids of a table. *)

Row == [status          : Undelivered \cup Terminal \cup {"ABSENT"},
        attempts        : Nat,
        next_attempt_at : Int]

\* The types the ids depend on: no id is larger than the last one given out.
RowsTyped ==
  /\ outbox \in [EventIds -> Row]
  /\ clock \in Nat /\ outboxSeq \in Nat /\ attemptSeq \in Nat
  /\ \A e \in EventIds : outbox[e].status # "ABSENT" => e <= outboxSeq
  /\ \A a \in deliveryAttempts : a.attempt_id \in 1..attemptSeq

\* A transaction gives new rows ids that were never given out.
NewIdsOnly ==
  /\ outboxSeq <= outboxSeq' /\ attemptSeq <= attemptSeq'
  /\ \A e \in EventIds :
       outbox[e].status = "ABSENT" /\ outbox'[e].status # "ABSENT" => e > outboxSeq
  /\ \A a \in deliveryAttempts' : a \in deliveryAttempts \/ a.attempt_id > attemptSeq

LEMMA AttemptInserted ==
  ASSUME RowsTyped, NEW c, NEW status, InsertAttempt(c, status, clock)
  PROVE  /\ attemptSeq' \in Nat /\ attemptSeq <= attemptSeq'
         /\ \A a \in deliveryAttempts' : a \in deliveryAttempts \/ a.attempt_id > attemptSeq
         /\ \A a \in deliveryAttempts' : a.attempt_id \in 1..attemptSeq'
<1> DEFINE id == attemptSeq + 1
<1>1. attemptSeq \in Nat /\ id \in Nat /\ id > attemptSeq /\ attemptSeq' = id
  BY DEF RowsTyped, Row, InsertAttempt
<1>2. \A a \in deliveryAttempts' : a \in deliveryAttempts \/ a.attempt_id = id
  BY DEF InsertAttempt
<1>3. \A a \in deliveryAttempts : a.attempt_id \in 1..attemptSeq
  BY DEF RowsTyped, Row
<1> HIDE DEF id
<1> QED BY <1>1, <1>2, <1>3

\* A row whose delivery is acknowledged exists before and after.
LEMMA RowAcknowledged ==
  ASSUME RowsTyped, NEW e \in EventIds, outbox[e].status = "DELIVERING",
         NEW row \in [status : Waiting \cup Terminal, attempts : Nat, next_attempt_at : Int],
         outbox' = [outbox EXCEPT ![e] = row], outboxSeq' = outboxSeq
  PROVE  /\ outbox' \in [EventIds -> Row]
         /\ \A f \in EventIds : outbox'[f].status # "ABSENT" => outbox[f].status # "ABSENT"
BY DEF RowsTyped, Row, Undelivered

LEMMA OthersTables ==
  ASSUME RowsTyped, UNCHANGED clock, (\E w \in WatchIds : Publish(w)) \/ Deliver \/ Maintain
  PROVE  RowsTyped' /\ NewIdsOnly
<1>1. ASSUME NEW w \in WatchIds, Publish(w) PROVE RowsTyped' /\ NewIdsOnly
  <2>1. /\ outboxSeq' = outboxSeq + 1 /\ UNCHANGED attemptVars
        /\ outbox' = [e \in EventIds |->
                        IF e \in NextIds(1)
                        THEN [status |-> "PENDING", attempts |-> 0, next_attempt_at |-> clock]
                        ELSE outbox[e]]
    BY <1>1 DEF Publish, InsertOutbox
  <2>2. \A e \in EventIds : e \in NextIds(1) <=> e = outboxSeq + 1
    BY DEF NextIds, EventIds, RowsTyped
  <2>3. RowsTyped'
    BY <2>1, <2>2 DEF RowsTyped, Row, Undelivered, Waiting, attemptVars, EventIds
  <2>4. NewIdsOnly
    BY <2>1, <2>2 DEF RowsTyped, Row, NewIdsOnly, attemptVars, EventIds
  <2> QED BY <2>3, <2>4
<1>2. CASE DueAt(clock) # {} /\ ClaimDue(clock) /\ UNCHANGED eventWatch
  <2>1. \A e \in FirstDue(clock) : outbox[e].status # "ABSENT"
    BY DEF FirstDue, DueAt, WithStatus, Waiting
  <2>2. RowsTyped'
    BY <1>2, <2>1 DEF ClaimDue, RowsTyped, Row, Undelivered, attemptVars
  <2>3. NewIdsOnly
    BY <1>2, <2>1 DEF ClaimDue, RowsTyped, Row, NewIdsOnly, attemptVars
  <2> QED BY <2>2, <2>3
<1>3. CASE RecoverInFlight(clock) /\ UNCHANGED eventWatch
  <2>1. ASSUME NEW e \in EventIds
        PROVE  /\ outbox'[e] \in Row
               /\ outbox'[e].status # "ABSENT" <=> outbox[e].status # "ABSENT"
    <3>1. outbox[e] \in Row /\ clock \in Int
      BY DEF RowsTyped, Row
    <3>2. CASE outbox[e].status = "DELIVERING"
      <4> DEFINE due == [outbox[e] EXCEPT !.status = "RETRY", !.next_attempt_at = clock]
      <4>1. due \in Row /\ due.status = "RETRY"
        BY <3>1 DEF Row, Undelivered, Waiting
      <4>2. outbox'[e] = due
        BY <1>3, <3>2 DEF RecoverInFlight
      <4> HIDE DEF due
      <4> QED BY <3>2, <4>1, <4>2
    <3>3. CASE outbox[e].status # "DELIVERING"
      BY <1>3, <3>1, <3>3 DEF RecoverInFlight
    <3> QED BY <3>2, <3>3
  <2>2. /\ outbox' \in [EventIds -> Row]
        /\ UNCHANGED <<outboxSeq, attemptSeq, deliveryAttempts>>
    <3>1. DOMAIN outbox' = EventIds /\ outbox' = [e \in EventIds |-> outbox'[e]]
      BY <1>3 DEF RecoverInFlight
    <3> QED BY <1>3, <2>1, <3>1 DEF RecoverInFlight, attemptVars
  <2> QED BY <2>1, <2>2 DEF RowsTyped, Row, NewIdsOnly
<1>4. ASSUME NEW c \in Claims,
             \/ RecordDeliverySuccess(c, clock)
             \/ RecordDeliveryFailure(c, IF c.attempts + 1 = MaxAttempts THEN Null ELSE clock, clock)
      PROVE  RowsTyped' /\ NewIdsOnly
  <2>1. /\ c.outbox_id \in EventIds /\ outbox[c.outbox_id].status = "DELIVERING"
        /\ c.attempts = outbox[c.outbox_id].attempts
    BY DEF Claims, ClaimsOf, WithStatus
  <2>2. c.attempts + 1 \in Nat
    BY <2>1 DEF RowsTyped, Row
  <2>3. /\ outboxSeq' = outboxSeq
        /\ \E status : InsertAttempt(c, status, clock)
        /\ \E row \in [status : Waiting \cup Terminal, attempts : Nat, next_attempt_at : Int] :
             outbox' = [outbox EXCEPT ![c.outbox_id] = row]
    <3>1. CASE RecordDeliverySuccess(c, clock)
      <4> DEFINE row == [status |-> "DELIVERED", attempts |-> c.attempts + 1,
                         next_attempt_at |-> Null]
      <4>1. row \in [status : Waiting \cup Terminal, attempts : Nat, next_attempt_at : Int]
        BY <2>2 DEF Terminal, Null
      <4>2. /\ outboxSeq' = outboxSeq /\ InsertAttempt(c, "SUCCEEDED", clock)
            /\ outbox' = [outbox EXCEPT ![c.outbox_id] = row]
        BY <3>1 DEF RecordDeliverySuccess
      <4> HIDE DEF row
      <4> QED BY <4>1, <4>2
    <3>2. CASE RecordDeliveryFailure(c, IF c.attempts + 1 = MaxAttempts THEN Null ELSE clock, clock)
      <4> DEFINE at == IF c.attempts + 1 = MaxAttempts THEN Null ELSE clock
      <4>1. at \in Int
        BY DEF RowsTyped, Row, Null
      <4> HIDE DEF at
      <4>2. RecordDeliveryFailure(c, at, clock)
        BY <3>2 DEF at
      <4> DEFINE row == [status |-> IF at = Null THEN "DEAD" ELSE "RETRY",
                         attempts |-> c.attempts + 1, next_attempt_at |-> at]
      <4>3. row \in [status : Waiting \cup Terminal, attempts : Nat, next_attempt_at : Int]
        BY <2>2, <4>1 DEF Terminal, Waiting
      <4>4. /\ outboxSeq' = outboxSeq /\ InsertAttempt(c, "FAILED", clock)
            /\ outbox' = [outbox EXCEPT ![c.outbox_id] = row]
        BY <4>2 DEF RecordDeliveryFailure
      <4> HIDE DEF row
      <4> QED BY <4>3, <4>4
    <3> QED BY <1>4, <3>1, <3>2
  <2>4. /\ outbox' \in [EventIds -> Row]
        /\ \A f \in EventIds : outbox'[f].status # "ABSENT" => outbox[f].status # "ABSENT"
    BY <2>1, <2>3, RowAcknowledged
  <2>5. /\ attemptSeq' \in Nat /\ attemptSeq <= attemptSeq'
        /\ \A a \in deliveryAttempts' : a \in deliveryAttempts \/ a.attempt_id > attemptSeq
        /\ \A a \in deliveryAttempts' : a.attempt_id \in 1..attemptSeq'
    BY <2>3, AttemptInserted
  <2>6. RowsTyped'
    BY <2>3, <2>4, <2>5 DEF RowsTyped, Row
  <2>7. NewIdsOnly
    BY <2>3, <2>4, <2>5 DEF RowsTyped, Row, NewIdsOnly
  <2> QED BY <2>6, <2>7
<1>5. ASSUME NEW E, Remove(E) PROVE RowsTyped' /\ NewIdsOnly
  <2>1. RowsTyped'
    BY <1>5 DEF Remove, RowsTyped, Row, NoRow, Null
  <2>2. NewIdsOnly
    BY <1>5 DEF Remove, RowsTyped, Row, NewIdsOnly, NoRow
  <2> QED BY <2>1, <2>2
<1>6. CASE Deliver
  <2>1. (\E c \in Claims : RecordDeliverySuccess(c, clock)) => RowsTyped' /\ NewIdsOnly
    BY <1>4
  <2>2. (\E c \in Claims :
           RecordDeliveryFailure(c, IF c.attempts + 1 = MaxAttempts THEN Null ELSE clock, clock))
        => RowsTyped' /\ NewIdsOnly
    BY <1>4
  <2> QED BY <1>2, <1>3, <1>6, <2>1, <2>2 DEF Deliver
<1>7. CASE Maintain
  BY <1>5, <1>7 DEF Maintain
<1> QED BY <1>1, <1>6, <1>7

-----------------------------------------------------------------------------
(* The walk. *)

Ids     == {r.id : r \in Rows(query.table)}
LastId  == IF query.table = "outbox" THEN outboxSeq ELSE attemptSeq

QueryTyped == query.table \in {"outbox", "attempts"} /\ query.limit \in Nat \ {0}

\* What the ids of the rows are.
OutboxIdsAre  == query.table = "outbox" => Ids = WithStatus(Undelivered \cup Terminal)
AttemptIdsAre == query.table = "attempts" => Ids = {a.attempt_id : a \in deliveryAttempts}

LEMMA OutboxIds == OutboxIdsAre
<1> DEFINE S == WithStatus(Undelivered \cup Terminal)
           RowOf(e) == [id |-> e, event |-> e, status |-> outbox[e].status]
<1> SUFFICES ASSUME query.table = "outbox" PROVE Ids = S
  BY DEF OutboxIdsAre
<1>1. Rows(query.table) = {RowOf(e) : e \in S}
  BY DEF Rows, OutboxRows
<1>2. \A e : RowOf(e).id = e
  OBVIOUS
<1> HIDE DEF RowOf, S
<1>3. ASSUME NEW e \in S PROVE e \in Ids
  <2>1. RowOf(e) \in Rows(query.table)
    BY <1>1
  <2> QED BY <1>2, <2>1 DEF Ids
<1>4. ASSUME NEW i \in Ids PROVE i \in S
  <2>1. PICK r \in Rows(query.table) : i = r.id
    BY DEF Ids
  <2>2. PICK e \in S : r = RowOf(e)
    BY <1>1, <2>1
  <2> QED BY <1>2, <2>1, <2>2
<1> QED BY <1>3, <1>4

LEMMA AttemptIds == AttemptIdsAre
<1> DEFINE S == {a.attempt_id : a \in deliveryAttempts}
           RowOf(a) == [id |-> a.attempt_id, event |-> a.outbox_id, status |-> a.status]
<1> SUFFICES ASSUME query.table = "attempts" PROVE Ids = S
  BY DEF AttemptIdsAre
<1>1. Rows(query.table) = {RowOf(a) : a \in deliveryAttempts}
  BY DEF Rows, AttemptRows
<1>2. \A a : RowOf(a).id = a.attempt_id
  OBVIOUS
<1> HIDE DEF RowOf
<1>3. ASSUME NEW i \in S PROVE i \in Ids
  <2>1. PICK a \in deliveryAttempts : i = a.attempt_id
    OBVIOUS
  <2>2. RowOf(a) \in Rows(query.table)
    BY <1>1
  <2> QED BY <1>2, <2>1, <2>2 DEF Ids
<1>4. ASSUME NEW i \in Ids PROVE i \in S
  <2>1. PICK r \in Rows(query.table) : i = r.id
    BY DEF Ids
  <2>2. PICK a \in deliveryAttempts : r = RowOf(a)
    BY <1>1, <2>1
  <2> QED BY <1>2, <2>1, <2>2
<1> QED BY <1>3, <1>4

\* The ids of the walked table lie between 1 and the last one given out, and those
\* inserted beside the walk are later than it.
IdsBounded ==
  LastId \in Nat /\ Ids \subseteq 1..LastId /\ Matching(query) \subseteq 1..LastId

LEMMA IdsFit == RowsTyped /\ QueryTyped => IdsBounded
<1> SUFFICES ASSUME RowsTyped, QueryTyped PROVE LastId \in Nat /\ Ids \subseteq 1..LastId
  <2>1. Matching(query) \subseteq Ids
    BY DEF Matching, Ids
  <2> QED BY <2>1 DEF IdsBounded
<1>1. CASE query.table = "outbox"
  <2>1. \A e \in WithStatus(Undelivered \cup Terminal) : e \in 1..outboxSeq
    BY DEF RowsTyped, WithStatus, EventIds, Undelivered, Waiting, Terminal
  <2> QED BY <1>1, <2>1, OutboxIds DEF LastId, RowsTyped, OutboxIdsAre
<1>2. CASE query.table = "attempts"
  BY <1>2, AttemptIds DEF LastId, RowsTyped, AttemptIdsAre
<1> QED BY <1>1, <1>2 DEF QueryTyped

LEMMA InsertedLater ==
  ASSUME RowsTyped, QueryTyped, NewIdsOnly, RowsTyped', UNCHANGED query
  PROVE  /\ LastId' >= LastId
         /\ \A i \in InsertedIds : i > LastId
<1>1. InsertedIds = Ids' \ Ids
  BY DEF InsertedIds, Ids
<1>2. CASE query.table = "outbox"
  <2>1. OutboxIdsAre'
    BY OutboxIds, PTL
  <2>2. Ids' = WithStatus(Undelivered \cup Terminal)' /\ Ids = WithStatus(Undelivered \cup Terminal)
    BY <1>2, <2>1, OutboxIds DEF OutboxIdsAre
  <2>3. \A e \in WithStatus(Undelivered \cup Terminal)' :
          e \in EventIds /\ outbox'[e].status # "ABSENT"
    BY DEF WithStatus, Undelivered, Waiting, Terminal
  <2>4. \A e \in EventIds :
          e \notin WithStatus(Undelivered \cup Terminal) => outbox[e].status = "ABSENT"
    BY DEF WithStatus, RowsTyped, Row
  <2> QED BY <1>1, <1>2, <2>2, <2>3, <2>4 DEF NewIdsOnly, LastId
<1>3. CASE query.table = "attempts"
  <2>1. AttemptIdsAre'
    BY AttemptIds, PTL
  <2>2. /\ Ids = {a.attempt_id : a \in deliveryAttempts}
        /\ Ids' = {a.attempt_id : a \in deliveryAttempts'}
    BY <1>3, <2>1, AttemptIds DEF AttemptIdsAre
  <2>3. LastId = attemptSeq /\ LastId' = attemptSeq'
    BY <1>3 DEF LastId
  <2>4. ASSUME NEW i \in InsertedIds PROVE i > attemptSeq
    <3>1. PICK a \in deliveryAttempts' : i = a.attempt_id
      BY <1>1, <2>2
    <3>2. a \notin deliveryAttempts
      BY <1>1, <2>2, <3>1
    <3> QED BY <3>1, <3>2 DEF NewIdsOnly
  <2> QED BY <2>3, <2>4 DEF NewIdsOnly
<1> QED BY <1>2, <1>3 DEF QueryTyped

LEMMA MatchingFinite == ASSUME IdsBounded PROVE IsFiniteSet(Matching(query))
<1>1. Matching(query) \subseteq 1..LastId /\ LastId \in Int
  BY DEF IdsBounded
<1>2. IsFiniteSet(1..LastId)
  BY <1>1, FS_Interval
<1> QED BY <1>1, <1>2, FS_Subset

\* The cursor is behind the ids to come; the reader has, of the ids behind the cursor,
\* every one that matched for as long as the walk or the row lasts.
WalkInv ==
  /\ cursor \in Nat /\ cursor <= LastId
  /\ seen \subseteq 1..cursor
  /\ given = Cardinality(seen)
  /\ given = 0 => cursor = 0
  /\ lasting \subseteq Matching(query)
  /\ \A i \in lasting : (i <= cursor \/ ended) => i \in seen

Inv == RowsTyped /\ QueryTyped /\ WalkInv

LEMMA WalkInit == Init => Inv
<1> SUFFICES ASSUME Init PROVE Inv
  OBVIOUS
<1>1. RowsTyped
  BY MaxEventsAssumption DEF Init, OutboxInit, RowsTyped, Row, NoRow, Null
<1>2. QueryTyped
  BY PagesAssumption DEF Init, Filters, QueryTyped
<1>3. LastId = 0
  BY DEF Init, OutboxInit, LastId
<1> QED BY <1>1, <1>2, <1>3, FS_EmptySet DEF Init, Inv, WalkInv

LEMMA ReadStep ==
  ASSUME Inv, ReadPage
  PROVE  Inv'
<1> DEFINE page == PageAfter(query, cursor)
           rest == {i \in Matching(query) : i > cursor}
<1>1. UNCHANGED <<clock, outboxVars, eventWatch, query, lasting>>
  BY DEF ReadPage
<1>2. RowsTyped' /\ QueryTyped' /\ LastId' = LastId /\ Matching(query)' = Matching(query)
  BY <1>1 DEF Inv, RowsTyped, QueryTyped, LastId, Matching, Rows, OutboxRows, AttemptRows,
              WithStatus, Matches, outboxVars, attemptVars
<1>3. /\ cursor \in Nat /\ LastId \in Nat /\ query.limit \in Nat \ {0}
      /\ Matching(query) \subseteq 1..LastId /\ IsFiniteSet(Matching(query))
  BY IdsFit, MatchingFinite DEF Inv, QueryTyped, WalkInv, IdsBounded
<1>4. /\ rest \in SUBSET Nat /\ rest \subseteq 1..LastId /\ IsFiniteSet(rest)
      /\ \A i \in rest : i > cursor
  BY <1>3, FS_Subset
<1>5. /\ page \subseteq rest
      /\ \A i \in rest, k \in page : i <= k => i \in page
      /\ Cardinality(page) < query.limit => page = rest
  <2>1. page = First(rest, query.limit)
    BY DEF PageAfter, First
  <2>2. query.limit \in Nat
    BY <1>3
  <2> HIDE DEF page, rest
  <2> QED BY <1>4, <2>1, <2>2, FirstOnes
<1>6. IsFiniteSet(page) /\ Cardinality(page) \in Nat /\ (Cardinality(page) = 0 <=> page = {})
  BY <1>4, <1>5, FS_Subset, FS_CardinalityType, FS_EmptySet
<1>7. /\ seen' = seen \cup page
      /\ given' = given + Cardinality(page)
      /\ cursor' = IF page = {} THEN cursor ELSE Max(page)
      /\ ended' = (Cardinality(page) < query.limit)
  BY DEF ReadPage
<1>8. /\ seen \subseteq 1..cursor /\ IsFiniteSet(seen) /\ Cardinality(seen) \in Nat
      /\ given = Cardinality(seen)
  <2>1. seen \subseteq 1..cursor /\ given = Cardinality(seen)
    BY DEF Inv, WalkInv
  <2>2. IsFiniteSet(1..cursor)
    BY <1>3, FS_Interval
  <2>3. IsFiniteSet(seen)
    BY <2>1, <2>2, FS_Subset
  <2> QED BY <2>1, <2>3, FS_CardinalityType
<1> HIDE DEF page, rest
<1>9. page # {} => Max(page) \in page /\ \A x \in page : x <= Max(page)
  BY <1>3, <1>4, <1>5, MaxOfBounded
<1>10. /\ cursor' \in Nat /\ cursor' <= LastId /\ cursor <= cursor'
       /\ \A x \in page : x \in 1..cursor'
  <2>1. page \in SUBSET Nat /\ \A x \in page : x > cursor /\ x <= LastId
    BY <1>3, <1>4, <1>5
  <2>2. CASE page = {}
    BY <1>3, <1>7, <2>2 DEF Inv, WalkInv
  <2>3. CASE page # {}
    <3>1. cursor' = Max(page) /\ Max(page) \in page
      BY <1>7, <1>9, <2>3
    <3>2. cursor' \in Nat /\ cursor' <= LastId /\ cursor <= cursor'
      <4>1. cursor' \in page
        BY <3>1
      <4>2. cursor' \in Nat /\ cursor' > cursor /\ cursor' <= LastId
        BY <2>1, <4>1
      <4> QED BY <1>3, <4>2
    <3>3. ASSUME NEW x \in page PROVE x \in 1..cursor'
      <4>1. x \in Nat /\ x > cursor /\ x <= cursor'
        BY <1>9, <2>1, <2>3, <3>1
      <4> QED BY <1>3, <3>2, <4>1
    <3> QED BY <3>2, <3>3
  <2> QED BY <2>2, <2>3
<1>11. seen' \subseteq 1..cursor'
  <2>1. 1..cursor \subseteq 1..cursor'
    BY <1>3, <1>10
  <2> QED BY <1>7, <1>8, <1>10, <2>1
<1>12. given' = Cardinality(seen')
  <2>1. seen \cap page = {}
    BY <1>3, <1>4, <1>5, <1>8
  <2>2. Cardinality(seen \cup page) = Cardinality(seen) + Cardinality(page) - Cardinality({})
    BY <1>6, <1>8, <2>1, FS_Union
  <2> QED BY <1>6, <1>7, <1>8, <2>2, FS_EmptySet
<1>13. given' = 0 => cursor' = 0
  BY <1>6, <1>7, <1>8 DEF Inv, WalkInv
<1>14. lasting' \subseteq Matching(query)'
  BY <1>1, <1>2 DEF Inv, WalkInv
<1>15. ASSUME NEW i \in lasting', i <= cursor' \/ ended' PROVE i \in seen'
  <2>1. i \in lasting /\ i \in Matching(query) /\ i \in Nat
    BY <1>1, <1>3 DEF Inv, WalkInv
  <2>2. CASE i <= cursor
    BY <1>7, <2>1, <2>2 DEF Inv, WalkInv
  <2>3. CASE i > cursor
    <3>1. i \in rest
      BY <2>1, <2>3 DEF rest
    <3>2. CASE ended'
      BY <1>5, <1>7, <3>1, <3>2
    <3>3. CASE i <= cursor'
      BY <1>3, <1>5, <1>7, <1>9, <2>1, <2>3, <3>1, <3>3
    <3> QED BY <1>15, <3>2, <3>3
  <2> QED BY <1>3, <2>1, <2>2, <2>3
<1>16. WalkInv'
  BY <1>2, <1>10, <1>11, <1>12, <1>13, <1>14, <1>15 DEF WalkInv
<1> QED BY <1>2, <1>16 DEF Inv

LEMMA OthersStep ==
  ASSUME Inv, Others
  PROVE  Inv'
<1>1. /\ ~ended /\ UNCHANGED <<clock, query, cursor, ended, seen, given>>
      /\ Keeps
  BY DEF Others, readVars
<1>2. RowsTyped' /\ NewIdsOnly
  BY OthersTables DEF Inv, Others
<1>3. QueryTyped'
  BY <1>1 DEF Inv, QueryTyped
<1>4. /\ cursor \in Nat /\ LastId \in Nat /\ LastId' \in Nat
      /\ LastId' >= LastId /\ cursor <= LastId
      /\ \A i \in InsertedIds : i > LastId
  <2>1. RowsTyped' /\ QueryTyped' => IdsBounded'
    BY IdsFit, PTL
  <2>2. RowsTyped /\ QueryTyped /\ cursor \in Nat /\ cursor <= LastId
    BY DEF Inv, WalkInv
  <2>3. LastId \in Nat
    BY <2>2, IdsFit DEF IdsBounded
  <2>4. LastId' >= LastId /\ \A i \in InsertedIds : i > LastId
    BY <1>1, <1>2, <2>2, InsertedLater
  <2> QED BY <1>2, <1>3, <2>1, <2>2, <2>3, <2>4 DEF IdsBounded
<1>5. Matching(query)' \subseteq 1..LastId'
  <2>1. RowsTyped' /\ QueryTyped' => IdsBounded'
    BY IdsFit, PTL
  <2> QED BY <1>2, <1>3, <2>1 DEF IdsBounded
<1>6. lasting' \subseteq Matching(query)'
  BY DEF Others, Keeps
<1>7. ASSUME NEW i \in lasting', i <= cursor' \/ ended' PROVE i \in seen'
  <2>1. i <= cursor /\ i \in Matching(query)' /\ i \in Nat /\ i >= 1
    BY <1>1, <1>4, <1>5, <1>6, <1>7
  <2>2. given # 0
    BY <1>4, <2>1 DEF Inv, WalkInv
  <2>3. i \in lasting \/ i \in InsertedIds
    BY <1>1, <2>2 DEF Keeps
  <2>4. i \notin InsertedIds
    BY <1>4, <2>1
  <2> QED BY <1>1, <2>1, <2>3, <2>4 DEF Inv, WalkInv
<1>8. WalkInv'
  BY <1>1, <1>4, <1>6, <1>7 DEF Inv, WalkInv
<1> QED BY <1>2, <1>3, <1>8 DEF Inv

\* ReadExactlyOnce (list_outbox_diagnostics and list_delivery_attempt_diagnostics,
\* storage.py): pages handed on by the last id give a reader every lasting row once,
\* whatever is inserted, delivered or removed between them.
THEOREM PagesCorrect == Spec => []ReadExactlyOnce
<1>1. Inv /\ [Next]_vars => Inv'
  <2> SUFFICES ASSUME Inv, [Next]_vars PROVE Inv'
    OBVIOUS
  <2>1. CASE UNCHANGED vars
    BY <2>1 DEF vars, outboxVars, attemptVars, readVars, Inv, RowsTyped, QueryTyped, WalkInv,
                LastId, Matching, Rows, OutboxRows, AttemptRows, WithStatus, Matches
  <2> QED BY <2>1, ReadStep, OthersStep DEF Next
<1>2. Inv => ReadExactlyOnce
  BY DEF Inv, WalkInv, ReadExactlyOnce
<1> QED BY WalkInit, <1>1, <1>2, PTL DEF Spec
================================================================================
