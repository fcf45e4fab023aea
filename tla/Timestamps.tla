----------------------------- MODULE Timestamps -----------------------------
(***************************************************************************)
(* How instants become the texts of a column and back (_time.py), and how  *)
(* SQL compares them (_sortable_timestamp_sql, storage.py).  A text is a   *)
(* sequence of character codes; SQLite compares texts code by code.        *)
(***************************************************************************)
EXTENDS Integers, Sequences

CONSTANTS
  Base,         \* how many digits there are (10)
  SecondWidth,  \* digits of the date and time up to the second (14 in all)
  MicroWidth,   \* digits of the fraction (6)
  Offsets       \* the UTC offsets in use, in seconds

\* What the constants must satisfy.
TimestampsAssumption ==
  /\ Base \in Nat /\ Base > 1
  /\ SecondWidth \in Nat \ {0}
  /\ MicroWidth \in Nat \ {0}
  /\ Offsets \subseteq Int

\* Codes in the order of ASCII: '.' < digits < 'Z'.  The other separators of a
\* text are at the same places in every text and are left out.
Dot      == 0
Digit(d) == d + 1
Zed      == Base + 1

\* Base ^ n.
Power == LET power[n \in 0..(SecondWidth + MicroWidth)] ==
               IF n = 0 THEN 1 ELSE Base * power[n - 1]
         IN  power

Seconds == 0..(Power[SecondWidth] - 1)   \* datetime.min to datetime.max
Micros  == 0..(Power[MicroWidth] - 1)

Aware == [second : Seconds, micro : Micros, offset : Offsets]

Instant(x) == (x.second - x.offset) * Power[MicroWidth] + x.micro

-----------------------------------------------------------------------------
(* _time.py. *)

\* astimezone raises OverflowError for an instant it cannot represent in UTC.
InRange(x) == x.second - x.offset \in Seconds

\* require_aware.
RequireAware(x) == [second |-> x.second - x.offset, micro |-> x.micro, offset |-> 0]

Digits(n, width) == [i \in 1..width |-> Digit((n \div Power[width - i]) % Base)]

Fraction(micro) == <<Dot>> \o Digits(micro, MicroWidth)

\* to_iso: isoformat() omits a fraction of zero.
ToIso(x) ==
  LET utc == RequireAware(x)
  IN  Digits(utc.second, SecondWidth)
        \o (IF utc.micro = 0 THEN <<>> ELSE Fraction(utc.micro)) \o <<Zed>>

\* to_sortable_iso.
ToSortableIso(x) ==
  LET utc == RequireAware(x)
  IN  Digits(utc.second, SecondWidth) \o Fraction(utc.micro) \o <<Zed>>

HasDot(text) == \E i \in DOMAIN text : text[i] = Dot

Number(digits) ==
  LET value[n \in 0..Len(digits)] ==
        IF n = 0 THEN 0 ELSE Base * value[n - 1] + (digits[n] - 1)
  IN  value[Len(digits)]

\* from_iso.
FromIso(text) ==
  [second |-> Number(SubSeq(text, 1, SecondWidth)),
   micro  |-> IF HasDot(text) THEN Number(SubSeq(text, SecondWidth + 2, Len(text) - 1)) ELSE 0,
   offset |-> 0]

-----------------------------------------------------------------------------
(* SQL. *)

\* Mutant: the stored text is compared as it is.
SortableTimestampSql_AsStored(text) == text

\* _sortable_timestamp_sql.
SortableTimestampSql(text) ==
  IF HasDot(text) THEN text
  ELSE SubSeq(text, 1, Len(text) - 1) \o Fraction(0) \o <<Zed>>

\* The BINARY collation.
TextLess(s, t) ==
  \E i \in DOMAIN t :
    /\ \A j \in 1..(i - 1) : j \in DOMAIN s /\ s[j] = t[j]
    /\ i \in DOMAIN s => s[i] < t[i]

-----------------------------------------------------------------------------
None == <<>>

VARIABLES
  written,  \* the datetime a writer stored last
  text,     \* the column
  asked,    \* the datetime of the last query
  before,   \* what the query found: text < asked, as in purge_before
  due       \* text <= asked, as in claim_due

timeVars == <<written, text, asked, before, due>>

TimeInit ==
  /\ written = None /\ text = None
  /\ asked = None /\ before = FALSE /\ due = FALSE

\* A writer stores a datetime of any offset.
Write ==
  /\ text = None
  /\ \E x \in Aware :
       /\ InRange(x)
       /\ written' = x
       /\ text' = ToIso(x)
  /\ UNCHANGED <<asked, before, due>>

\* A query compares the column with a datetime.
Select ==
  /\ text # None /\ asked = None
  /\ \E x \in Aware :
       LET key   == SortableTimestampSql(text)
           bound == ToSortableIso(x)
       IN  /\ InRange(x)
           /\ asked' = x
           /\ before' = TextLess(key, bound)
           /\ due' = (TextLess(key, bound) \/ key = bound)
  /\ UNCHANGED <<written, text>>

TimeNext == Write \/ Select

TimeSpec == TimeInit /\ [][TimeNext]_timeVars

-----------------------------------------------------------------------------
\* What SQL finds by comparing texts of mixed precision is what comparing the
\* instants would find, whatever the offsets they were given in.
TextsOrderAsInstants ==
  asked # None =>
    /\ before <=> Instant(written) < Instant(asked)
    /\ due <=> Instant(written) <= Instant(asked)

\* A stored text is read back as the instant that was written, and writing that
\* again gives the same text: one instant has one text.
TextsKeepInstants ==
  text # None =>
    /\ Instant(FromIso(text)) = Instant(written)
    /\ ToIso(FromIso(text)) = text

\* Comparing texts as _sortable_timestamp_sql does is comparing the instants, and
\* from_iso reads a text of to_iso back as its instant, one text for each.
TextsAreInstants == TextsOrderAsInstants /\ TextsKeepInstants
=============================================================================
