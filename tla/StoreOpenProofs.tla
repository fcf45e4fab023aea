--------------------------- MODULE StoreOpenProofs ---------------------------
(***************************************************************************)
(* Theorems about StoreOpen, for every set of openers, every content the   *)
(* path may hold before and every number of crashes; and about the scanner *)
(* of SchemaFingerprint, for every alphabet, every text and all            *)
(* separators.                                                             *)
(***************************************************************************)
EXTENDS StoreOpen, SchemaFingerprint, SequenceTheorems, WellFoundedInduction, TLAPS

-----------------------------------------------------------------------------
(* Opening a store. *)


Typed ==
  /\ content \in Contents
  /\ metaRows \in Nat
  /\ touched \in BOOLEAN
  /\ step \in [Openers -> UnderWay \cup {"closed", "open", "refused"}]

\* The steps of an opener that has accepted the database, or has created the file.
Accepting == {"secure", "initialize", "create"}

\* A path that holds nothing of ours has not been changed and nobody is about to change it.
ForeignAlone ==
  /\ content \in {"foreign", "irregular"} =>
       ~touched /\ \A o \in Openers : step[o] \notin Accepting
  /\ content = "irregular" => \A o \in Openers : step[o] \notin UnderWay

\* The version row is there exactly when the schema is.
RowWithSchema == metaRows = IF content = "engine" THEN 1 ELSE 0

\* One construction at a time.
OneUnderWay ==
  \A o, p \in Openers : step[o] \in UnderWay /\ step[p] \in UnderWay => o = p

\* Whoever is about to create the schema still finds the database empty.
CreatesInEmpty == \A o \in Openers : step[o] = "create" => content = "empty"

\* What holds as long as constructions do not overlap.
SerialInv == RowWithSchema /\ OneUnderWay /\ CreatesInEmpty

LEMMA OpenInit ==
  ASSUME Init
  PROVE  Typed /\ ForeignAlone /\ SerialInv
BY OpenAssumption
   DEF Init, Typed, ForeignAlone, SerialInv, RowWithSchema, OneUnderWay, CreatesInEmpty,
       Contents, UnderWay, Accepting

\* Whether constructions overlap or not.
LEMMA ForeignStep ==
  ASSUME Typed, ForeignAlone, [Next]_vars
  PROVE  Typed' /\ ForeignAlone'
<1> USE DEF Typed, ForeignAlone, Accepting, UnderWay, Contents, GoTo
<1>1. ASSUME NEW o \in Openers, Prepare(o) PROVE Typed' /\ ForeignAlone'
  BY <1>1 DEF Prepare, Irregular
<1>2. ASSUME NEW o \in Openers, Inspect(o) PROVE Typed' /\ ForeignAlone'
  BY <1>2 DEF Inspect, Rejected
<1>3. ASSUME NEW o \in Openers, Secure(o) PROVE Typed' /\ ForeignAlone'
  BY <1>3 DEF Secure
<1>4. ASSUME NEW o \in Openers, ReadSchema(o) PROVE Typed' /\ ForeignAlone'
  BY <1>4 DEF ReadSchema, Rejected
<1>5. ASSUME NEW o \in Openers, CreateSchema(o) PROVE Typed' /\ ForeignAlone'
  BY <1>5 DEF CreateSchema
<1>6. ASSUME NEW o \in Openers, Crash(o) PROVE Typed' /\ ForeignAlone'
  BY <1>6 DEF Crash
<1>7. ASSUME NEW o \in Openers, Close(o) PROVE Typed' /\ ForeignAlone'
  BY <1>7 DEF Close
<1>8. CASE UNCHANGED vars
  BY <1>8 DEF vars
<1> QED BY <1>1, <1>2, <1>3, <1>4, <1>5, <1>6, <1>7, <1>8 DEF Next, Open

\* Only Prepare begins a construction, and only when no other is under way.
LEMMA SerialStep ==
  ASSUME ~Overlapping, Typed, SerialInv, [Next]_vars
  PROVE  SerialInv'
<1> USE DEF Typed, SerialInv, RowWithSchema, OneUnderWay, CreatesInEmpty, UnderWay, GoTo
<1>1. ASSUME NEW o \in Openers, Prepare(o) PROVE SerialInv'
  BY <1>1 DEF Prepare
<1>2. ASSUME NEW o \in Openers, Inspect(o) PROVE SerialInv'
  BY <1>2 DEF Inspect
<1>3. ASSUME NEW o \in Openers, Secure(o) PROVE SerialInv'
  BY <1>3 DEF Secure
<1>4. ASSUME NEW o \in Openers, ReadSchema(o) PROVE SerialInv'
  BY <1>4 DEF ReadSchema
<1>5. ASSUME NEW o \in Openers, CreateSchema(o) PROVE SerialInv'
  BY <1>5 DEF CreateSchema
<1>6. ASSUME NEW o \in Openers, Crash(o) PROVE SerialInv'
  BY <1>6 DEF Crash
<1>7. ASSUME NEW o \in Openers, Close(o) PROVE SerialInv'
  BY <1>7 DEF Close
<1>8. CASE UNCHANGED vars
  BY <1>8 DEF vars
<1> QED BY <1>1, <1>2, <1>3, <1>4, <1>5, <1>6, <1>7, <1>8 DEF Next, Open

-----------------------------------------------------------------------------
\* Someone else's database, and what is no file of its own, keeps its permissions and its
\* journal mode (SQLiteStore.__init__, storage.py: _prepare_database_file and the read-only
\* validation come before any change), also when several openers are under way.
THEOREM ForeignUntouched == Spec => [](content \in {"foreign", "irregular"} => ~touched)
<1>1. Typed /\ ForeignAlone => (content \in {"foreign", "irregular"} => ~touched)
  BY DEF ForeignAlone
<1> QED BY OpenInit, ForeignStep, <1>1, PTL DEF Spec

\* SchemaMetaSingleRow (_initialize, storage.py): constructions of a store that do not
\* overlap leave one version row, wherever a crash cuts them short.
THEOREM SingleRowCorrect ==
  ASSUME ~Overlapping
  PROVE  Spec => []SchemaMetaSingleRow
<1>1. Init => Typed /\ ForeignAlone /\ SerialInv
  BY OpenInit
<1>2. Typed /\ ForeignAlone /\ SerialInv /\ [Next]_vars
        => Typed' /\ ForeignAlone' /\ SerialInv'
  BY ForeignStep, SerialStep
<1>3. SerialInv => SchemaMetaSingleRow
  BY DEF SerialInv, RowWithSchema, SchemaMetaSingleRow
<1> QED BY <1>1, <1>2, <1>3, PTL DEF Spec

\* RejectedUntouched (SQLiteStore.__init__, storage.py): no construction changes what the
\* checks of the file or the validators reject, if constructions do not overlap.
THEOREM RejectedCorrect ==
  ASSUME ~Overlapping
  PROVE  Spec => []RejectedUntouched
<1>1. Init => Typed /\ ForeignAlone /\ SerialInv
  BY OpenInit
<1>2. Typed /\ ForeignAlone /\ SerialInv /\ [Next]_vars
        => Typed' /\ ForeignAlone' /\ SerialInv'
  BY ForeignStep, SerialStep
<1>3. ForeignAlone /\ SerialInv => RejectedUntouched
  BY DEF ForeignAlone, SerialInv, RowWithSchema, RejectedUntouched, Rejected, Irregular
<1> QED BY <1>1, <1>2, <1>3, PTL DEF Spec
-----------------------------------------------------------------------------
(* The scanner: texts and their parts. *)

Alphabet == Chars \cup Letters
Text == Seq(Alphabet)

\* A non-empty set of naturals has a least element.
LEMMA LeastExists ==
  ASSUME NEW S \in SUBSET Nat, S # {}
  PROVE  \E m \in S : \A x \in S : m <= x
<1>1. PICK m \in S : \A x \in S : <<x, m>> \notin OpToRel(<, Nat)
  BY NatLessThanWellFounded, WFMin
<1>2. \A x \in S : ~(x < m)
  BY <1>1 DEF OpToRel
<1>3. \A x \in S : x \in Nat /\ m \in Nat
  OBVIOUS
<1>4. \A x \in S : m <= x
  BY <1>2, <1>3
<1> QED BY <1>4

\* A part of a text.
LEMMA PartShape ==
  ASSUME sql \in Text, NEW i \in 1..Len(sql), NEW j \in i..Len(sql)
  PROVE  /\ SubSeq(sql, i, j) \in Text /\ Len(SubSeq(sql, i, j)) = j - i + 1
         /\ \A k \in 1..(j - i + 1) : SubSeq(sql, i, j)[k] = sql[i + k - 1]
<1>1. \A k \in i..j : sql[k] \in Alphabet
  BY DEF Text
<1>2. i \in Int /\ j \in Int /\ i <= j
  OBVIOUS
<1> HIDE DEF Text
<1> QED BY ONLY <1>1, <1>2, SubSeqProperties DEF Text

\* Sequences of one, two and three characters.
LEMMA Ones ==
  ASSUME NEW s \in Text, NEW x
  PROVE  s = <<x>> <=> Len(s) = 1 /\ s[1] = x
BY DEF Text

LEMMA Twos ==
  ASSUME NEW s \in Text, NEW x, NEW y
  PROVE  s = <<x, y>> <=> Len(s) = 2 /\ s[1] = x /\ s[2] = y
BY DEF Text

LEMMA Threes ==
  ASSUME NEW s \in Text, NEW x, NEW y, NEW z
  PROVE  s = <<x, y, z>> <=> Len(s) = 3 /\ s[1] = x /\ s[2] = y /\ s[3] = z
BY DEF Text

\* Two characters at a position.
Pair(i, x, y) == i + 1 <= Len(sql) /\ sql[i] = x /\ sql[i + 1] = y

LEMMA PartTwo ==
  ASSUME sql \in Text, NEW i \in 1..Len(sql), NEW x, NEW y
  PROVE  Part(i, i + 1) = <<x, y>> <=> Pair(i, x, y)
<1> USE DEF Pair
<1>1. CASE i + 1 <= Len(sql)
  <2>1. i + 1 \in i..Len(sql) /\ (i + 1) - i + 1 = 2
    BY <1>1 DEF Text
  <2>2. PICK s : s = SubSeq(sql, i, i + 1)
    OBVIOUS
  <2>3. s \in Text /\ Len(s) = 2 /\ s[1] = sql[i] /\ s[2] = sql[i + 1]
    BY <2>1, <2>2, PartShape
  <2>4. Part(i, i + 1) = s
    BY <2>1, <2>2 DEF Part
  <2> QED BY <1>1, <2>3, <2>4, Twos
<1>2. CASE ~(i + 1 <= Len(sql))
  BY <1>2 DEF Part
<1> QED BY <1>1, <1>2 DEF Text

LEMMA PartOne ==
  ASSUME sql \in Text, NEW i \in 1..Len(sql), NEW x
  PROVE  Part(i, i) = <<x>> <=> sql[i] = x
<1>1. i \in i..Len(sql) /\ i - i + 1 = 1
  BY DEF Text
<1>2. PICK s : s = SubSeq(sql, i, i)
  OBVIOUS
<1>3. s \in Text /\ Len(s) = 1 /\ s[1] = sql[i]
  BY <1>1, <1>2, PartShape
<1>4. Part(i, i) = s
  BY <1>1, <1>2 DEF Part
<1> QED BY <1>3, <1>4, Ones

-----------------------------------------------------------------------------
(* Comments. *)

LEMMA AheadTwo ==
  ASSUME sql \in Text, position \in 1..Len(sql), NEW x, NEW y
  PROVE  Ahead(2) = <<x, y>> <=> Pair(position, x, y)
<1>1. CASE position + 1 <= Len(sql)
  <2>1. Ahead(2) = Part(position, position + 1)
    <3>1. (IF position + 2 - 1 < Len(sql) THEN position + 2 - 1 ELSE Len(sql)) = position + 1
      BY <1>1 DEF Text
    <3>2. position \in 1..(position + 1)
      OBVIOUS
    <3> QED BY <1>1, <3>1, <3>2 DEF Ahead, Part
  <2> QED BY <1>1, <2>1, PartTwo
<1>2. CASE position = Len(sql)
  <2>1. Ahead(2) = SubSeq(sql, position, position)
    BY <1>2 DEF Ahead, Text
  <2>2. PICK s : s = SubSeq(sql, position, position)
    OBVIOUS
  <2>3. s \in Text /\ Len(s) = 1
    BY <2>2, PartShape DEF Text
  <2>4. s # <<x, y>>
    BY <2>3, Twos
  <2>5. ~Pair(position, x, y)
    BY <1>2 DEF Pair
  <2> QED BY <2>1, <2>2, <2>4, <2>5
<1> QED BY <1>1, <1>2 DEF Text

\* Both kinds of comments, without sequences.
LineTo(i, j) ==
  /\ Pair(i, "-", "-") /\ j > i
  /\ \A k \in (i + 2)..(j - 1) : sql[k] # NewLine
  /\ (j > i + 1 /\ sql[j] = NewLine) \/ j = Len(sql)

BlockTo(i, j) ==
  /\ Pair(i, "/", "*") /\ j > i
  /\ \A k \in (i + 2)..(j - 2) : ~Pair(k, "*", "/")
  /\ (j > i + 2 /\ Pair(j - 1, "*", "/")) \/ j = Len(sql)

LEMMA LineIs ==
  ASSUME sql \in Text, NEW i \in 1..Len(sql), NEW j \in i..Len(sql)
  PROVE  IsLineComment(i, j) <=> LineTo(i, j)
<1>1. Len(sql) \in Nat
  BY DEF Text
<1>2. Part(i, i + 1) = <<"-", "-">> <=> Pair(i, "-", "-")
  BY PartTwo
<1>3. Within(<<NewLine>>, i + 2, j - 1) <=> \E k \in (i + 2)..(j - 1) : sql[k] = NewLine
  <2>1. ASSUME NEW k \in (i + 2)..(j - 1)
        PROVE  Part(k, k + Len(<<NewLine>>) - 1) = <<NewLine>> <=> sql[k] = NewLine
    <3>1. k \in 1..Len(sql) /\ k + Len(<<NewLine>>) - 1 = k
      BY <1>1
    <3> QED BY <3>1, PartOne
  <2>2. (j - 1) - Len(<<NewLine>>) + 1 = j - 1
    BY <1>1
  <2> QED BY <2>1, <2>2 DEF Within
<1> QED BY <1>1, <1>2, <1>3 DEF IsLineComment, LineTo

LEMMA BlockIs ==
  ASSUME sql \in Text, NEW i \in 1..Len(sql), NEW j \in i..Len(sql)
  PROVE  IsBlockComment(i, j) <=> BlockTo(i, j)
<1>1. Len(sql) \in Nat
  BY DEF Text
<1>2. Part(i, i + 1) = <<"/", "*">> <=> Pair(i, "/", "*")
  BY PartTwo
<1>3. Within(<<"*", "/">>, i + 2, j - 1) <=> \E k \in (i + 2)..(j - 2) : Pair(k, "*", "/")
  <2>1. ASSUME NEW k \in (i + 2)..(j - 2)
        PROVE  Part(k, k + Len(<<"*", "/">>) - 1) = <<"*", "/">> <=> Pair(k, "*", "/")
    <3>1. k \in 1..Len(sql) /\ k + Len(<<"*", "/">>) - 1 = k + 1
      BY <1>1
    <3> QED BY <3>1, PartTwo
  <2>2. (j - 1) - Len(<<"*", "/">>) + 1 = j - 2
    BY <1>1
  <2> QED BY <2>1, <2>2 DEF Within
<1>4. j > i + 2 => (Part(j - 1, j) = <<"*", "/">> <=> Pair(j - 1, "*", "/"))
  <2> SUFFICES ASSUME j > i + 2 PROVE Part(j - 1, j) = <<"*", "/">> <=> Pair(j - 1, "*", "/")
    OBVIOUS
  <2>1. PICK m \in 1..Len(sql) : m = j - 1 /\ m + 1 = j
    BY <1>1
  <2>2. Part(m, m + 1) = <<"*", "/">> <=> Pair(m, "*", "/")
    BY PartTwo
  <2> QED BY <2>1, <2>2
<1> QED BY <1>2, <1>3, <1>4 DEF IsBlockComment, BlockTo

\* A format has one end only.
LEMMA FormatUnique ==
  ASSUME sql \in Text, NEW i \in 1..Len(sql), NEW j \in i..Len(sql), NEW k \in i..Len(sql),
         IsFormat(i, j), IsFormat(i, k)
  PROVE  j = k
<1>1. Len(sql) \in Nat
  BY DEF Text
<1>2. ASSUME NEW m \in i..Len(sql), IsFormat(i, m)
      PROVE  (i = m /\ sql[i] \in Blanks) \/ LineTo(i, m) \/ BlockTo(i, m)
  BY <1>2, LineIs, BlockIs DEF IsFormat
<1>3. ASSUME NEW m \in i..Len(sql), NEW n \in i..Len(sql), LineTo(i, m), LineTo(i, n) PROVE m = n
  BY <1>1, <1>3 DEF LineTo, Pair
<1>4. ASSUME NEW m \in i..Len(sql), NEW n \in i..Len(sql), BlockTo(i, m), BlockTo(i, n) PROVE m = n
  BY <1>1, <1>4 DEF BlockTo, Pair
<1>5. /\ (\E m : LineTo(i, m)) => sql[i] = "-"
      /\ (\E m : BlockTo(i, m)) => sql[i] = "/"
  BY DEF LineTo, BlockTo, Pair
<1>6. "-" \notin Blanks /\ "/" \notin Blanks /\ "-" # "/"
  BY DEF Blanks, NewLine
<1> QED BY <1>2, <1>3, <1>4, <1>5, <1>6

\* So that is where the longest ends.
LEMMA FormatEndIs ==
  ASSUME sql \in Text, NEW i \in 1..Len(sql), NEW j \in i..Len(sql), IsFormat(i, j)
  PROVE  Ends(IsFormat, i) # {} /\ FormatEnd(i) = j
<1>1. Ends(IsFormat, i) = {j}
  BY FormatUnique DEF Ends
<1>2. Max({j}) = j
  BY DEF Max
<1> QED BY <1>1, <1>2 DEF FormatEnd

-----------------------------------------------------------------------------
(* The scanner's comments and white space. *)

LEMMA LeastIsMin ==
  ASSUME NEW S \in SUBSET Nat, S # {}
  PROVE  Min(S) \in S /\ \A x \in S : Min(S) <= x
BY LeastExists DEF Min

\* str.find of a line break, and of the end of a block comment.
LEMMA FindNewLine ==
  ASSUME sql \in Text, NEW from \in 1..(Len(sql) + 2), NEW f, f = Find(<<NewLine>>, from)
  PROVE  \/ /\ f \in from..Len(sql) /\ sql[f] = NewLine
            /\ \A k \in from..(f - 1) : sql[k] # NewLine
         \/ f = Len(sql) + 1 /\ \A k \in from..Len(sql) : sql[k] # NewLine
<1>1. Len(sql) \in Nat
  BY DEF Text
<1> DEFINE at == {i \in from..Len(sql) : sql[i] = NewLine}
<1>2. f = IF at = {} THEN Len(sql) + 1 ELSE Min(at)
  <2>1. \A i \in from..Len(sql) : SubSeq(sql, i, i) = <<NewLine>> <=> sql[i] = NewLine
    <3> SUFFICES ASSUME NEW i \in from..Len(sql)
                 PROVE  SubSeq(sql, i, i) = <<NewLine>> <=> sql[i] = NewLine
      OBVIOUS
    <3>1. i \in 1..Len(sql)
      BY <1>1
    <3>2. Part(i, i) = SubSeq(sql, i, i)
      BY <1>1, <3>1 DEF Part
    <3> QED BY <3>1, <3>2, PartOne
  <2>2. /\ from..(Len(sql) - Len(<<NewLine>>) + 1) = from..Len(sql)
        /\ \A i \in from..Len(sql) : i + Len(<<NewLine>>) - 1 = i
    BY <1>1
  <2>3. {i \in from..(Len(sql) - Len(<<NewLine>>) + 1) :
           SubSeq(sql, i, i + Len(<<NewLine>>) - 1) = <<NewLine>>} = at
    BY <2>1, <2>2
  <2> QED BY <2>3 DEF Find
<1>3. CASE at = {}
  BY <1>2, <1>3
<1>4. CASE at # {}
  <2>1. at \in SUBSET Nat
    BY <1>1
  <2>2. Min(at) \in at /\ \A x \in at : Min(at) <= x
    <3> HIDE DEF at
    <3> QED BY <1>4, <2>1, LeastIsMin
  <2>3. f \in at /\ \A x \in at : f <= x
    BY <1>2, <1>4, <2>2
  <2> QED BY <1>1, <2>3
<1> QED BY <1>3, <1>4

LEMMA FindEnd ==
  ASSUME sql \in Text, NEW from \in 1..(Len(sql) + 2), NEW f, f = Find(<<"*", "/">>, from)
  PROVE  \/ f \in from..Len(sql) /\ Pair(f, "*", "/") /\ \A k \in from..(f - 1) : ~Pair(k, "*", "/")
         \/ f = Len(sql) + 1 /\ \A k \in from..Len(sql) : ~Pair(k, "*", "/")
<1>1. Len(sql) \in Nat
  BY DEF Text
<1> DEFINE at == {i \in from..(Len(sql) - 1) : Pair(i, "*", "/")}
<1>2. f = IF at = {} THEN Len(sql) + 1 ELSE Min(at)
  <2>1. \A i \in from..(Len(sql) - 1) :
          SubSeq(sql, i, i + 1) = <<"*", "/">> <=> Pair(i, "*", "/")
    <3> SUFFICES ASSUME NEW i \in from..(Len(sql) - 1)
                 PROVE  SubSeq(sql, i, i + 1) = <<"*", "/">> <=> Pair(i, "*", "/")
      OBVIOUS
    <3>1. i \in 1..Len(sql) /\ i \in 1..(i + 1) /\ i + 1 <= Len(sql)
      BY <1>1
    <3>2. Part(i, i + 1) = SubSeq(sql, i, i + 1)
      BY <3>1 DEF Part
    <3> QED BY <3>1, <3>2, PartTwo
  <2>2. /\ from..(Len(sql) - Len(<<"*", "/">>) + 1) = from..(Len(sql) - 1)
        /\ \A i \in from..(Len(sql) - 1) : i + Len(<<"*", "/">>) - 1 = i + 1
    BY <1>1
  <2>3. {i \in from..(Len(sql) - Len(<<"*", "/">>) + 1) :
           SubSeq(sql, i, i + Len(<<"*", "/">>) - 1) = <<"*", "/">>} = at
    BY <2>1, <2>2
  <2> QED BY <2>3 DEF Find
<1>3. CASE at = {}
  <2>1. \A k \in from..Len(sql) : Pair(k, "*", "/") => k \in from..(Len(sql) - 1)
    BY <1>1 DEF Pair
  <2>2. \A k \in from..(Len(sql) - 1) : ~Pair(k, "*", "/")
    BY <1>3
  <2> QED BY <1>2, <1>3, <2>1, <2>2
<1>4. CASE at # {}
  <2>1. at \in SUBSET Nat
    BY <1>1
  <2>2. Min(at) \in at /\ \A x \in at : Min(at) <= x
    <3> HIDE DEF at
    <3> QED BY <1>4, <2>1, LeastIsMin
  <2>3. f \in at /\ \A x \in at : f <= x
    BY <1>2, <1>4, <2>2
  <2> QED BY <1>1, <2>3
<1> QED BY <1>3, <1>4

\* A round of the loop that skips something skips a format.
Skips(end) ==
  /\ position' = end + 1 \/ (end = Len(sql) /\ position' \in (Len(sql) + 1)..(Len(sql) + 3))
  /\ UNCHANGED <<sql, tokens, first, round>>

LEMMA FormatStep ==
  ASSUME sql \in Text, position \in 1..Len(sql), Whitespace \/ LineComment \/ BlockComment
  PROVE  \E j \in position..Len(sql) : IsFormat(position, j) /\ Skips(j)
<1>1. Len(sql) \in Nat
  BY DEF Text
<1>2. CASE Whitespace
  <2>1. /\ sql[position] \in Blanks /\ position' = position + 1
        /\ UNCHANGED <<sql, tokens, first, round>>
    BY <1>2 DEF Whitespace, Char, Skip
  <2>2. position \in position..Len(sql) /\ IsFormat(position, position) /\ Skips(position)
    BY <1>1, <2>1 DEF IsFormat, Skips
  <2> QED BY <2>2
<1>3. CASE LineComment
  <2>1. PICK f : f = Find(<<NewLine>>, position + 2)
    OBVIOUS
  <2>2. position' = f + 1 /\ UNCHANGED <<sql, tokens, first, round>> /\ Pair(position, "-", "-")
    <3>1. Ahead(Len(<<"-", "-">>)) = Ahead(2)
      BY DEF Ahead
    <3> QED BY <1>3, <2>1, <3>1, AheadTwo DEF LineComment, LineStart, Starts, Skip
  <2>3. position + 2 \in 1..(Len(sql) + 2)
    BY <1>1
  <2>4. \/ /\ f \in (position + 2)..Len(sql) /\ sql[f] = NewLine
           /\ \A k \in (position + 2)..(f - 1) : sql[k] # NewLine
        \/ f = Len(sql) + 1 /\ \A k \in (position + 2)..Len(sql) : sql[k] # NewLine
    BY <2>1, <2>3, FindNewLine
  <2> DEFINE j == IF f = Len(sql) + 1 THEN Len(sql) ELSE f
  <2>5. j \in position..Len(sql) /\ LineTo(position, j) /\ Skips(j)
    BY <1>1, <2>2, <2>4 DEF LineTo, Pair, Skips
  <2> HIDE DEF j
  <2> QED BY <2>5, LineIs DEF IsFormat
<1>4. CASE BlockComment
  <2>1. PICK f : f = Find(<<"*", "/">>, position + 2)
    OBVIOUS
  <2>2. /\ position' = f + 1 + 1 /\ UNCHANGED <<sql, tokens, first, round>>
        /\ Pair(position, "/", "*")
    <3>1. Ahead(Len(<<"/", "*">>)) = Ahead(2)
      BY DEF Ahead
    <3> QED BY <1>4, <2>1, <3>1, AheadTwo DEF BlockComment, BlockStart, Starts, Skip
  <2>3. position + 2 \in 1..(Len(sql) + 2)
    BY <1>1
  <2>4. \/ /\ f \in (position + 2)..Len(sql) /\ Pair(f, "*", "/")
           /\ \A k \in (position + 2)..(f - 1) : ~Pair(k, "*", "/")
        \/ f = Len(sql) + 1 /\ \A k \in (position + 2)..Len(sql) : ~Pair(k, "*", "/")
    BY <2>1, <2>3, FindEnd
  <2>5. CASE f = Len(sql) + 1
    <3>1. BlockTo(position, Len(sql)) /\ Skips(Len(sql)) /\ Len(sql) \in position..Len(sql)
      BY <1>1, <2>2, <2>4, <2>5 DEF BlockTo, Pair, Skips
    <3> QED BY <3>1, BlockIs DEF IsFormat
  <2>6. CASE f # Len(sql) + 1
    <3>1. PICK j \in position..Len(sql) : j = f + 1 /\ j - 1 = f /\ j - 2 = f - 1
      BY <1>1, <2>4, <2>6 DEF Pair
    <3>2. BlockTo(position, j)
      <4>1. Pair(j - 1, "*", "/") /\ j > position + 2
        BY <1>1, <2>4, <2>6, <3>1
      <4>2. \A k \in (position + 2)..(j - 2) : ~Pair(k, "*", "/")
        BY <2>4, <2>6, <3>1
      <4>3. j > position
        BY <4>1
      <4> QED BY <2>2, <4>1, <4>2, <4>3 DEF BlockTo
    <3>3. Skips(j)
      BY <2>2, <3>1 DEF Skips
    <3> QED BY <3>2, <3>3, BlockIs DEF IsFormat
  <2> QED BY <2>5, <2>6
<1> QED BY <1>2, <1>3, <1>4

-----------------------------------------------------------------------------
(* Functions defined by recursion to later positions exist. *)

\* Every position of 1..n is a last one, with a value, or goes on at a later one, to whose
\* value a gain is added: from m on.
JumpsFrom(m, n, V, stop, value, gain, next) ==
  \E f \in [m..n -> V] :
    \A i \in m..n : f[i] = IF i \in stop THEN value[i] ELSE gain[i][f[next[i]]]

LEMMA JumpsExist ==
  ASSUME NEW n \in Nat, NEW V, NEW stop, NEW value \in [1..n -> V], NEW next,
         NEW gain \in [1..n -> [V -> V]],
         \A i \in 1..n : i \in stop \/ next[i] \in (i + 1)..n
  PROVE  JumpsFrom(1, n, V, stop, value, gain, next)
<1> DEFINE Reach(d) == JumpsFrom(n + 1 - d, n, V, stop, value, gain, next)
           Without == {d \in 0..n : ~Reach(d)}
<1> SUFFICES ASSUME Without # {} PROVE FALSE
  <2>1. n \in 0..n /\ n + 1 - n = 1
    OBVIOUS
  <2>2. Reach(n) => JumpsFrom(1, n, V, stop, value, gain, next)
    BY <2>1
  <2> HIDE DEF Reach
  <2> QED BY <2>1, <2>2
<1>1. PICK d \in Without : \A x \in Without : d <= x
  <2>1. Without \in SUBSET Nat
    OBVIOUS
  <2> HIDE DEF Without
  <2> QED BY <2>1, LeastExists
<1>2. CASE d = 0
  <2>1. n + 1 - d = n + 1 /\ (n + 1)..n = {}
    BY <1>2
  <2> DEFINE f == [i \in {} |-> value[i]]
  <2>2. f \in [{} -> V] /\ \A i \in {} : f[i] = IF i \in stop THEN value[i] ELSE gain[i][f[next[i]]]
    OBVIOUS
  <2> HIDE DEF f
  <2>3. Reach(d)
    BY <2>1, <2>2 DEF JumpsFrom
  <2> QED BY <2>3
<1>3. CASE d # 0
  <2>1. PICK m \in 1..n : m = n + 1 - d /\ m + 1 = n + 1 - (d - 1)
    BY <1>3
  <2>2. d - 1 \in 0..n /\ ~(d <= d - 1)
    BY <1>3
  <2>3. Reach(d - 1)
    <3>1. d - 1 \notin Without
      <4> HIDE DEF Without
      <4> QED BY <1>1, <2>2
    <3> HIDE DEF Reach
    <3> QED BY <2>2, <3>1
  <2>4. PICK f \in [(m + 1)..n -> V] :
          \A i \in (m + 1)..n : f[i] = IF i \in stop THEN value[i] ELSE gain[i][f[next[i]]]
    BY <2>1, <2>3 DEF JumpsFrom
  <2> DEFINE g == [i \in m..n |-> IF i = m THEN IF m \in stop THEN value[m] ELSE gain[m][f[next[m]]]
                                 ELSE f[i]]
  <2>5. \A i \in (m + 1)..n : i \in m..n /\ i # m /\ g[i] = f[i]
    OBVIOUS
  <2>6. \A i \in m..n : i = m \/ i \in (m + 1)..n
    OBVIOUS
  <2>7. g[m] = IF m \in stop THEN value[m] ELSE gain[m][f[next[m]]]
    OBVIOUS
  <2>8. \A i \in m..n : g[i] \in V
    BY <2>5, <2>6, <2>7
  <2>9. g \in [m..n -> V]
    BY <2>8
  <2> HIDE DEF g
  <2>10. \A i \in m..n : i \in stop \/ next[i] \in (m + 1)..n
    OBVIOUS
  <2>11. \A i \in m..n : g[i] = IF i \in stop THEN value[i] ELSE gain[i][g[next[i]]]
    BY <2>4, <2>5, <2>6, <2>7, <2>10
  <2>12. Reach(d)
    BY <2>1, <2>9, <2>11 DEF JumpsFrom
  <2> HIDE DEF Reach
  <2> QED BY <2>12
<1> QED BY <1>2, <1>3

-----------------------------------------------------------------------------
(* Literals. *)

LEMMA QuoteEndsIs ==
  ASSUME sql \in Text, NEW q \in Quotes
  PROVE  \A i \in 1..(Len(sql) + 2) :
           QuoteEnds(q)[i] =
             IF i > Len(sql) THEN Len(sql)
             ELSE IF sql[i] # Closing[q] THEN QuoteEnds(q)[i + 1]
             ELSE IF q # "[" /\ Char(i + 1) = q THEN QuoteEnds(q)[i + 2]
             ELSE i
<1>1. Len(sql) \in Nat
  BY DEF Text
<1> DEFINE n     == Len(sql) + 2
           stop  == {i \in 1..n : \/ i > Len(sql)
                                  \/ sql[i] = Closing[q] /\ ~(q # "[" /\ Char(i + 1) = q)}
           value == [i \in 1..n |-> IF i > Len(sql) THEN Len(sql) ELSE i]
           next  == [i \in 1..n |-> IF sql[i] # Closing[q] THEN i + 1 ELSE i + 2]
           gain  == [i \in 1..n |-> [v \in 0..Len(sql) |-> v]]
           Is(f) == f = [i \in 1..n |->
                          IF i > Len(sql) THEN Len(sql)
                          ELSE IF sql[i] # Closing[q] THEN f[i + 1]
                          ELSE IF q # "[" /\ Char(i + 1) = q THEN f[i + 2]
                          ELSE i]
<1>2. /\ n \in Nat /\ value \in [1..n -> 0..Len(sql)]
      /\ gain \in [1..n -> [0..Len(sql) -> 0..Len(sql)]]
  BY <1>1
<1>3. \A i \in 1..n : i \in stop \/ next[i] \in (i + 1)..n
  BY <1>1
<1>4. PICK f \in [1..n -> 0..Len(sql)] :
        \A i \in 1..n : f[i] = IF i \in stop THEN value[i] ELSE f[next[i]]
  <2>1. JumpsFrom(1, n, 0..Len(sql), stop, value, gain, next)
    <3> HIDE DEF n, stop, value, gain, next
    <3> QED BY ONLY <1>2, <1>3, JumpsExist
  <2>2. PICK f \in [1..n -> 0..Len(sql)] :
          \A i \in 1..n : f[i] = IF i \in stop THEN value[i] ELSE gain[i][f[next[i]]]
    <3> HIDE DEF n, stop, value, gain, next
    <3> QED BY <2>1 DEF JumpsFrom
  <2>3. \A i \in 1..n : \A v \in 0..Len(sql) : gain[i][v] = v
    OBVIOUS
  <2>4. \A i \in 1..n : i \notin stop => next[i] \in 1..n
    BY <1>1, <1>3
  <2> HIDE DEF n, stop, value, gain, next
  <2>5. \A i \in 1..n : f[i] = IF i \in stop THEN value[i] ELSE f[next[i]]
    <3> SUFFICES ASSUME NEW i \in 1..n PROVE f[i] = IF i \in stop THEN value[i] ELSE f[next[i]]
      OBVIOUS
    <3>1. i \notin stop => gain[i][f[next[i]]] = f[next[i]]
      BY <2>3, <2>4
    <3> QED BY <2>2, <3>1
  <2> QED BY <2>5
<1>5. Is(f)
  <2>1. \A i \in 1..n : f[i] = IF i > Len(sql) THEN Len(sql)
                          ELSE IF sql[i] # Closing[q] THEN f[i + 1]
                          ELSE IF q # "[" /\ Char(i + 1) = q THEN f[i + 2]
                          ELSE i
    BY <1>1, <1>4
  <2>2. f = [i \in 1..n |-> f[i]]
    BY <1>4
  <2> QED BY <2>1, <2>2
<1>6. QuoteEnds(q) = CHOOSE g : Is(g)
  BY DEF QuoteEnds
<1>7. Is(QuoteEnds(q))
  <2> HIDE DEF Is
  <2> QED BY <1>5, <1>6
<1> QED BY <1>7

\* A non-empty set of positions has a greatest.
LEMMA GreatestExists ==
  ASSUME NEW n \in Nat, NEW S \in SUBSET (0..n), S # {}
  PROVE  \E m \in S : \A x \in S : x <= m
<1> DEFINE T == {d \in 0..n : n - d \in S}
<1>1. T \in SUBSET Nat /\ T # {}
  <2>1. PICK x \in S : TRUE
    OBVIOUS
  <2>2. x \in 0..n /\ n - x \in 0..n /\ n - (n - x) = x
    OBVIOUS
  <2>3. n - x \in T
    BY <2>1, <2>2
  <2>4. T \in SUBSET Nat
    OBVIOUS
  <2> HIDE DEF T
  <2> QED BY <2>3, <2>4
<1>2. PICK d \in T : \A x \in T : d <= x
  <2> HIDE DEF T
  <2> QED BY <1>1, LeastExists
<1>3. ASSUME NEW x \in S PROVE x <= n - d
  <2>1. x \in 0..n /\ n - x \in 0..n /\ n - (n - x) = x
    OBVIOUS
  <2>2. n - x \in T
    BY <2>1
  <2>3. d <= n - x /\ d \in 0..n
    BY <1>2, <2>2
  <2> QED BY <2>1, <2>3
<1>4. n - d \in S
  OBVIOUS
<1> QED BY <1>3, <1>4

\* A literal ends within the text, and not before its last position.
LEMMA QuoteEndsRange ==
  ASSUME sql \in Text, NEW q \in Quotes
  PROVE  /\ \A i \in 1..Len(sql) : QuoteEnds(q)[i] \in i..Len(sql)
         /\ \A i \in (Len(sql) + 1)..(Len(sql) + 2) : QuoteEnds(q)[i] = Len(sql)
<1>1. Len(sql) \in Nat
  BY DEF Text
<1>2. \A i \in (Len(sql) + 1)..(Len(sql) + 2) : QuoteEnds(q)[i] = Len(sql)
  BY <1>1, QuoteEndsIs
<1> DEFINE Wrong == {i \in 1..Len(sql) : QuoteEnds(q)[i] \notin i..Len(sql)}
<1>3. ASSUME Wrong # {} PROVE FALSE
  <2>1. PICK i \in Wrong : \A x \in Wrong : x <= i
    <3>1. Wrong \in SUBSET (0..Len(sql))
      OBVIOUS
    <3> HIDE DEF Wrong
    <3> QED BY <1>1, <1>3, <3>1, GreatestExists
  <2>2. \A x \in (i + 1)..Len(sql) : QuoteEnds(q)[x] \in x..Len(sql)
    <3> SUFFICES ASSUME NEW x \in (i + 1)..Len(sql) PROVE QuoteEnds(q)[x] \in x..Len(sql)
      OBVIOUS
    <3>1. x \notin Wrong
      <4>1. ~(x <= i)
        BY <1>1
      <4> HIDE DEF Wrong
      <4> QED BY <2>1, <4>1
    <3> QED BY <1>1, <3>1
  <2>3. \A x \in (i + 1)..(i + 2) : QuoteEnds(q)[x] \in i..Len(sql)
    BY <1>1, <1>2, <2>2
  <2>4. /\ i \in 1..(Len(sql) + 2) /\ ~(i > Len(sql)) /\ i \in i..Len(sql)
        /\ i + 1 \in (i + 1)..(i + 2) /\ i + 2 \in (i + 1)..(i + 2)
    BY <1>1
  <2>5. QuoteEnds(q)[i] \in i..Len(sql)
    BY <2>3, <2>4, QuoteEndsIs
  <2> QED BY <2>5
<1> QED BY <1>2, <1>3

\* From a to b are quotes only, and no more on either side.
Run(s, q, i, j, a, b) ==
  /\ \A k \in a..b : s[k] = q
  /\ a > i => s[a - 1] # q
  /\ b < j => s[b + 1] # q

\* What doubled means for a quote.
LEMMA DoubledRuns ==
  ASSUME NEW s, NEW q \in Quotes, q # "[", NEW i, NEW j
  PROVE  /\ Closing[q] = q
         /\ Doubled(s, q, i, j) <=>
              \A a \in i..j : \A b \in a..j : Run(s, q, i, j, a, b) => (b - a) % 2 = 1
<1>1. Closing[q] = q
  BY DEF Closing
<1>2. Doubled(s, q, i, j) <=>
        \A a \in i..j : \A b \in a..j : Run(s, q, i, j, a, b) => (b - a) % 2 = 1
  BY DEF Doubled, Run
<1> QED BY <1>1, <1>2

\* One more character, or a doubled quote, in front.
LEMMA DoubledOne ==
  ASSUME NEW s, NEW q \in Quotes, NEW i \in Int, NEW j \in Int,
         Doubled(s, q, i + 1, j), s[i] # Closing[q]
  PROVE  Doubled(s, q, i, j)
<1>1. CASE q = "["
  <2>1. \A k \in i..j : k = i \/ k \in (i + 1)..j
    OBVIOUS
  <2> QED BY <1>1, <2>1 DEF Doubled
<1>2. CASE q # "["
  <2>1. ASSUME NEW a \in i..j, NEW b \in a..j, Run(s, q, i, j, a, b)
        PROVE  (b - a) % 2 = 1
    <3>1. s[a] = q /\ Closing[q] = q
      BY <1>2, <2>1, DoubledRuns DEF Run
    <3>2. a \in (i + 1)..j /\ (a > i + 1 => a > i)
      BY <3>1
    <3>3. Run(s, q, i + 1, j, a, b)
      BY <2>1, <3>2 DEF Run
    <3> QED BY <1>2, <3>2, <3>3, DoubledRuns
  <2> QED BY <1>2, <2>1, DoubledRuns
<1> QED BY <1>1, <1>2

LEMMA DoubledTwo ==
  ASSUME NEW s, NEW q \in Quotes, NEW i \in Int, NEW j \in Int, i + 1 <= j,
         Doubled(s, q, i + 2, j), q # "[", s[i] = q, s[i + 1] = q
  PROVE  Doubled(s, q, i, j)
<1>1. ASSUME NEW a \in i..j, NEW b \in a..j, Run(s, q, i, j, a, b)
      PROVE  (b - a) % 2 = 1
  <2>1. a # i + 1
    <3>1. a = i + 1 => a > i /\ a - 1 = i
      OBVIOUS
    <3> QED BY <1>1, <3>1 DEF Run
  <2>2. CASE a = i
    <3>1. b # i
      <4>1. b = i => b < j /\ b + 1 = i + 1
        OBVIOUS
      <4> QED BY <1>1, <4>1 DEF Run
    <3>2. CASE b = i + 1
      BY <2>2, <3>2
    <3>3. CASE b > i + 1
      <4>1. i + 2 \in (i + 2)..j /\ b \in (i + 2)..j /\ (b - (i + 2)) % 2 = (b - a) % 2
        BY <2>2, <3>3
      <4>2. Run(s, q, i + 2, j, i + 2, b)
        BY <1>1, <2>2 DEF Run
      <4> QED BY <4>1, <4>2, DoubledRuns
    <3> QED BY <2>2, <3>1, <3>2, <3>3
  <2>3. CASE a > i + 1
    <3>1. a \in (i + 2)..j /\ (a > i + 2 => a > i)
      BY <2>3
    <3>2. Run(s, q, i + 2, j, a, b)
      BY <1>1, <3>1 DEF Run
    <3> QED BY <3>1, <3>2, DoubledRuns
  <2> QED BY <2>1, <2>2, <2>3
<1> QED BY <1>1, DoubledRuns

LEMMA DoubledNone ==
  ASSUME NEW s, NEW q, NEW i \in Int
  PROVE  Doubled(s, q, i, i - 1)
<1>1. i..(i - 1) = {}
  OBVIOUS
<1> QED BY <1>1 DEF Doubled

\* What is doubled begins with another character or a doubled quote.
LEMMA DoubledHead ==
  ASSUME NEW s, NEW q \in Quotes, NEW i \in Int, NEW j \in Int, i <= j, Doubled(s, q, i, j)
  PROVE  \/ s[i] # Closing[q] /\ Doubled(s, q, i + 1, j)
         \/ /\ q # "[" /\ i + 1 <= j /\ s[i] = q /\ s[i + 1] = q
            /\ Doubled(s, q, i + 2, j)
<1>1. CASE q = "["
  BY <1>1 DEF Doubled
<1>2. CASE q # "[" /\ s[i] # q
  <2>1. ASSUME NEW a \in (i + 1)..j, NEW b \in a..j, Run(s, q, i + 1, j, a, b)
        PROVE  (b - a) % 2 = 1
    <3>1. a \in i..j
      OBVIOUS
    <3>2. a > i => s[a - 1] # q
      <4>1. a > i + 1 \/ a - 1 = i
        OBVIOUS
      <4> QED BY <1>2, <2>1, <4>1 DEF Run
    <3>3. Run(s, q, i, j, a, b)
      BY <2>1, <3>2 DEF Run
    <3> QED BY <1>2, <3>1, <3>3, DoubledRuns
  <2> QED BY <1>2, <2>1, DoubledRuns
<1>3. CASE q # "[" /\ s[i] = q
  <2>1. i + 1 <= j /\ s[i + 1] = q
    <3> SUFFICES ASSUME ~(i + 1 <= j /\ s[i + 1] = q) PROVE FALSE
      OBVIOUS
    <3>1. Run(s, q, i, j, i, i)
      BY <1>3 DEF Run
    <3>2. (i - i) % 2 = 1
      BY <1>3, <3>1, DoubledRuns
    <3> QED BY <3>2
  <2>2. ASSUME NEW a \in (i + 2)..j, NEW b \in a..j, Run(s, q, i + 2, j, a, b)
        PROVE  (b - a) % 2 = 1
    <3>1. CASE a = i + 2
      <4>1. i \in i..j /\ b \in i..j /\ (b - i) % 2 = (b - a) % 2
        BY <3>1
      <4>2. \A k \in i..b : k = i \/ k = i + 1 \/ k \in a..b
        BY <3>1
      <4>3. Run(s, q, i, j, i, b)
        BY <1>3, <2>1, <2>2, <4>2 DEF Run
      <4> QED BY <1>3, <4>1, <4>3, DoubledRuns
    <3>2. CASE a > i + 2
      <4>1. a \in i..j
        OBVIOUS
      <4>2. Run(s, q, i, j, a, b)
        BY <2>2, <3>2 DEF Run
      <4> QED BY <1>3, <4>1, <4>2, DoubledRuns
    <3> QED BY <3>1, <3>2
  <2>3. Doubled(s, q, i + 2, j)
    BY <1>3, <2>2, DoubledRuns
  <2> QED BY <1>3, <2>1, <2>3
<1>4. q # "[" => Closing[q] = q
  BY DoubledRuns
<1> QED BY <1>1, <1>2, <1>3, <1>4

\* The same text elsewhere.
LEMMA DoubledMoved ==
  ASSUME NEW s, NEW t, NEW q \in Quotes, NEW i \in Int, NEW j \in Int, NEW d \in Int,
         \A x \in i..j : t[x + d] = s[x], Doubled(s, q, i, j)
  PROVE  Doubled(t, q, i + d, j + d)
<1>1. \A y \in (i + d)..(j + d) : y - d \in i..j /\ (y - d) + d = y
  OBVIOUS
<1>2. \A y \in (i + d)..(j + d) : t[y] = s[y - d]
  BY <1>1
<1>3. CASE q = "["
  BY <1>1, <1>2, <1>3 DEF Doubled
<1>4. CASE q # "["
  <2>1. ASSUME NEW a \in (i + d)..(j + d), NEW b \in a..(j + d), Run(t, q, i + d, j + d, a, b)
        PROVE  (b - a) % 2 = 1
    <3>1. PICK m \in i..j : m = a - d /\ m + d = a
      BY <1>1
    <3>2. PICK n \in m..j : n = b - d /\ n + d = b
      BY <3>1
    <3>3. \A k \in m..n : s[k] = q
      <4> SUFFICES ASSUME NEW k \in m..n PROVE s[k] = q
        OBVIOUS
      <4>1. k + d \in a..b /\ k \in i..j
        BY <3>1, <3>2
      <4> QED BY <2>1, <4>1 DEF Run
    <3>4. m > i => s[m - 1] # q
      <4> SUFFICES ASSUME m > i PROVE s[m - 1] # q
        OBVIOUS
      <4>1. a > i + d /\ m - 1 \in i..j /\ (m - 1) + d = a - 1
        BY <3>1
      <4> QED BY <2>1, <4>1 DEF Run
    <3>5. n < j => s[n + 1] # q
      <4> SUFFICES ASSUME n < j PROVE s[n + 1] # q
        OBVIOUS
      <4>1. b < j + d /\ n + 1 \in i..j /\ (n + 1) + d = b + 1
        BY <3>1, <3>2
      <4> QED BY <2>1, <4>1 DEF Run
    <3>6. (n - m) % 2 = 1
      <4>1. Run(s, q, i, j, m, n)
        BY <3>3, <3>4, <3>5 DEF Run
      <4> QED BY <1>4, <4>1, DoubledRuns
    <3>7. n - m = b - a
      BY <3>1, <3>2
    <3> QED BY <3>6, <3>7
  <2> QED BY <1>4, <2>1, DoubledRuns
<1> QED BY <1>3, <1>4

\* Where a literal ends from one of its positions on, as the reference has it.
EndsAt(q, k, end) ==
  \/ k <= end /\ sql[end] = Closing[q] /\ Doubled(sql, q, k, end - 1)
  \/ end = Len(sql) /\ Doubled(sql, q, k, end)

LEMMA EndsAtOne ==
  ASSUME NEW q \in Quotes, NEW k \in Int, NEW end \in Int, EndsAt(q, k + 1, end),
         sql[k] # Closing[q]
  PROVE  EndsAt(q, k, end)
<1>1. CASE k + 1 <= end /\ sql[end] = Closing[q] /\ Doubled(sql, q, k + 1, end - 1)
  <2>1. PICK j \in Int : j = end - 1
    OBVIOUS
  <2>2. Doubled(sql, q, k, j)
    BY <1>1, <2>1, DoubledOne
  <2>3. k <= end
    BY <1>1
  <2> QED BY <1>1, <2>1, <2>2, <2>3 DEF EndsAt
<1>2. CASE end = Len(sql) /\ Doubled(sql, q, k + 1, end)
  <2>1. Doubled(sql, q, k, end)
    BY <1>2, DoubledOne
  <2> QED BY <1>2, <2>1 DEF EndsAt
<1> QED BY <1>1, <1>2 DEF EndsAt

LEMMA EndsAtTwo ==
  ASSUME NEW q \in Quotes, NEW k \in Int, NEW end \in Int, k < end, EndsAt(q, k + 2, end),
         q # "[", sql[k] = q, sql[k + 1] = q
  PROVE  EndsAt(q, k, end)
<1>1. CASE k + 2 <= end /\ sql[end] = Closing[q] /\ Doubled(sql, q, k + 2, end - 1)
  <2>1. PICK j \in Int : j = end - 1
    OBVIOUS
  <2>2. Doubled(sql, q, k, j)
    <3>1. k + 1 <= j
      BY <1>1, <2>1
    <3> QED BY <1>1, <3>1, <2>1, DoubledTwo
  <2>3. k <= end
    BY <1>1
  <2> QED BY <1>1, <2>1, <2>2, <2>3 DEF EndsAt
<1>2. CASE end = Len(sql) /\ Doubled(sql, q, k + 2, end)
  <2>1. Doubled(sql, q, k, end)
    BY <1>2, DoubledTwo
  <2> QED BY <1>2, <2>1 DEF EndsAt
<1> QED BY <1>1, <1>2 DEF EndsAt

\* Where the scan of a literal ends, the reference sees an end.
LEMMA QuoteEndsDoubled ==
  ASSUME sql \in Text, NEW q \in Quotes
  PROVE  \A k \in 1..(Len(sql) + 1) : EndsAt(q, k, QuoteEnds(q)[k])
<1>1. Len(sql) \in Nat
  BY DEF Text
<1> DEFINE Wrong == {k \in 1..(Len(sql) + 1) : ~EndsAt(q, k, QuoteEnds(q)[k])}
<1>2. ASSUME Wrong # {} PROVE FALSE
  <2>1. PICK k \in Wrong : \A x \in Wrong : x <= k
    <3>1. Wrong \in SUBSET (0..(Len(sql) + 1)) /\ Len(sql) + 1 \in Nat
      BY <1>1
    <3> HIDE DEF Wrong
    <3> QED BY <1>2, <3>1, GreatestExists
  <2>2. \A x \in (k + 1)..(Len(sql) + 1) : EndsAt(q, x, QuoteEnds(q)[x])
    <3> SUFFICES ASSUME NEW x \in (k + 1)..(Len(sql) + 1)
                 PROVE  EndsAt(q, x, QuoteEnds(q)[x])
      OBVIOUS
    <3>1. x \notin Wrong
      <4>1. ~(x <= k)
        BY <1>1
      <4> HIDE DEF Wrong
      <4> QED BY <2>1, <4>1
    <3>2. x \in 1..(Len(sql) + 1)
      BY <1>1
    <3> QED BY <3>1, <3>2
  <2>3. k \in 1..(Len(sql) + 1) /\ k \in Int /\ k \in 1..(Len(sql) + 2)
    BY <1>1
  <2>4. ~EndsAt(q, k, QuoteEnds(q)[k])
    OBVIOUS
  <2> HIDE DEF Wrong
  <2>5. CASE k = Len(sql) + 1
    <3>1. QuoteEnds(q)[k] = Len(sql) /\ k - 1 = Len(sql)
      BY <1>1, <2>3, <2>5, QuoteEndsRange
    <3>2. Doubled(sql, q, k, k - 1)
      BY <2>3, DoubledNone
    <3> QED BY <2>4, <3>1, <3>2 DEF EndsAt
  <2>6. CASE k <= Len(sql) /\ sql[k] # Closing[q]
    <3>1. PICK end \in Int : end = QuoteEnds(q)[k] /\ end = QuoteEnds(q)[k + 1]
      BY <1>1, <2>3, <2>6, QuoteEndsIs, QuoteEndsRange
    <3>2. EndsAt(q, k + 1, end)
      BY <1>1, <2>2, <2>3, <2>6, <3>1
    <3> QED BY <2>3, <2>4, <2>6, <3>1, <3>2, EndsAtOne
  <2>7. CASE k <= Len(sql) /\ sql[k] = Closing[q] /\ q # "[" /\ Char(k + 1) = q
    <3>1. k + 1 <= Len(sql) /\ sql[k + 1] = q /\ sql[k] = q
      BY <1>1, <2>3, <2>7 DEF Char, Quotes, Closing
    <3>2. PICK end \in Int : end = QuoteEnds(q)[k] /\ end = QuoteEnds(q)[k + 2]
      <4>1. k + 2 \in 1..Len(sql) \/ k + 2 \in (Len(sql) + 1)..(Len(sql) + 2)
        BY <1>1, <2>3, <3>1
      <4>2. QuoteEnds(q)[k + 2] \in Int
        BY <1>1, <4>1, QuoteEndsRange
      <4> QED BY <2>3, <2>7, <4>2, QuoteEndsIs
    <3>3. EndsAt(q, k + 2, end)
      BY <1>1, <2>2, <2>3, <3>1, <3>2
    <3>4. k < end
      BY <1>1, <2>3, <3>1, <3>2, QuoteEndsRange
    <3> QED BY <2>3, <2>4, <2>7, <3>1, <3>2, <3>3, <3>4, EndsAtTwo
  <2>8. CASE k <= Len(sql) /\ sql[k] = Closing[q] /\ ~(q # "[" /\ Char(k + 1) = q)
    <3>1. QuoteEnds(q)[k] = k
      BY <1>1, <2>3, <2>8, QuoteEndsIs
    <3>2. Doubled(sql, q, k, k - 1)
      BY <2>3, DoubledNone
    <3> QED BY <2>3, <2>4, <2>8, <3>1, <3>2 DEF EndsAt
  <2> QED BY <1>1, <2>3, <2>5, <2>6, <2>7, <2>8
<1> QED BY <1>2

\* What is doubled does not end a literal.
LEMMA DoubledGoesOn ==
  ASSUME sql \in Text, NEW q \in Quotes, NEW i \in 1..(Len(sql) + 1), NEW j \in (i - 1)..Len(sql),
         Doubled(sql, q, i, j)
  PROVE  QuoteEnds(q)[i] = QuoteEnds(q)[j + 1]
<1>1. Len(sql) \in Nat /\ i \in Nat /\ j \in Nat /\ j + 1 <= Len(sql) + 1
  BY DEF Text
<1> DEFINE Wrong == {k \in i..j : Doubled(sql, q, k, j) /\ QuoteEnds(q)[k] # QuoteEnds(q)[j + 1]}
<1>2. ASSUME Wrong # {} PROVE FALSE
  <2>1. PICK k \in Wrong : \A x \in Wrong : x <= k
    <3>1. Wrong \in SUBSET (0..j)
      BY <1>1
    <3> HIDE DEF Wrong
    <3> QED BY <1>1, <1>2, <3>1, GreatestExists
  <2>2. k \in i..j /\ Doubled(sql, q, k, j) /\ QuoteEnds(q)[k] # QuoteEnds(q)[j + 1]
    OBVIOUS
  <2>3. /\ k \in 1..(Len(sql) + 2) /\ ~(k > Len(sql)) /\ k \in Int /\ k <= j
        /\ ~(k + 1 <= k) /\ ~(k + 2 <= k)
    BY <1>1, <2>2
  <2>4. /\ k + 1 \notin Wrong /\ k + 2 \notin Wrong
        /\ k + 1 \in i..j \/ k + 1 = j + 1
        /\ k + 1 <= j => k + 2 \in i..j \/ k + 2 = j + 1
    <3>1. k + 1 \notin Wrong /\ k + 2 \notin Wrong
      <4> HIDE DEF Wrong
      <4> QED BY <2>1, <2>3
    <3>2. /\ k + 1 \in i..j \/ k + 1 = j + 1
          /\ k + 1 <= j => k + 2 \in i..j \/ k + 2 = j + 1
      BY <1>1, <2>2
    <3> QED BY <3>1, <3>2
  <2>5. CASE sql[k] # Closing[q] /\ Doubled(sql, q, k + 1, j)
    <3>1. QuoteEnds(q)[k] = QuoteEnds(q)[k + 1]
      BY <2>3, <2>5, QuoteEndsIs
    <3> QED BY <2>2, <2>4, <2>5, <3>1
  <2>6. CASE /\ q # "[" /\ k + 1 <= j /\ sql[k] = q /\ sql[k + 1] = q
             /\ Doubled(sql, q, k + 2, j)
    <3>1. sql[k] = Closing[q]
      BY <2>6 DEF Closing
    <3>2. Char(k + 1) = q
      <4>1. k + 1 <= Len(sql)
        BY <1>1, <2>3, <2>6
      <4> QED BY <2>6, <4>1 DEF Char
    <3>3. QuoteEnds(q)[k] = QuoteEnds(q)[k + 2]
      BY <2>3, <2>6, <3>1, <3>2, QuoteEndsIs
    <3> QED BY <2>2, <2>4, <2>6, <3>3
  <2> HIDE DEF Wrong
  <2> QED BY <2>2, <2>3, <2>5, <2>6, DoubledHead
<1>3. i = j + 1 \/ i \in i..j
  BY <1>1
<1> QED BY <1>2, <1>3

\* The reference's longest literal is the scanner's.
LEMMA LiteralIs ==
  ASSUME sql \in Text, NEW i \in 1..Len(sql), sql[i] \in Quotes,
         NEW last, last = QuoteEnds(sql[i])[i + 1]
  PROVE  /\ last \in i..Len(sql) /\ IsLiteral(i, last)
         /\ \A j \in i..Len(sql) : IsLiteral(i, j) => j <= last
<1>1. Len(sql) \in Nat
  BY DEF Text
<1>2. PICK q \in Quotes : q = sql[i]
  OBVIOUS
<1>3. i + 1 \in 1..(Len(sql) + 1)
  BY <1>1
<1>4. last \in i..Len(sql)
  BY <1>1, <1>2, <1>3, QuoteEndsRange
<1>5. \/ i + 1 <= last /\ sql[last] = Closing[q] /\ Doubled(sql, q, i + 1, last - 1)
      \/ last = Len(sql) /\ Doubled(sql, q, i + 1, last)
  BY <1>2, <1>3, QuoteEndsDoubled DEF EndsAt
<1>6. IsLiteral(i, last)
  BY <1>2, <1>4, <1>5 DEF IsLiteral
<1>7. ASSUME NEW j \in i..Len(sql), IsLiteral(i, j) PROVE j <= last
  <2>1. CASE j > i /\ sql[j] = Closing[q] /\ Doubled(sql, q, i + 1, j - 1)
    <3>1. j - 1 \in ((i + 1) - 1)..Len(sql) /\ (j - 1) + 1 = j
      BY <1>1, <2>1
    <3>2. last = QuoteEnds(q)[j]
      BY <1>2, <1>3, <2>1, <3>1, DoubledGoesOn
    <3> QED BY <1>1, <3>2, QuoteEndsRange
  <2>2. CASE j = Len(sql) /\ Doubled(sql, q, i + 1, j)
    <3>1. j \in ((i + 1) - 1)..Len(sql)
      BY <1>1
    <3>2. last = QuoteEnds(q)[Len(sql) + 1]
      BY <1>2, <1>3, <2>2, <3>1, DoubledGoesOn
    <3> QED BY <1>1, <3>2, QuoteEndsRange
  <2> QED BY <1>2, <1>7, <2>1, <2>2 DEF IsLiteral
<1> QED BY <1>4, <1>6, <1>7

-----------------------------------------------------------------------------
(* Which token begins at a position. *)

LEMMA GreatestIsMax ==
  ASSUME NEW S \in SUBSET Int, NEW m \in S, \A x \in S : x <= m
  PROVE  Max(S) = m
<1>1. \E x \in S : \A y \in S : x >= y
  OBVIOUS
<1>2. Max(S) \in S /\ \A y \in S : Max(S) >= y
  BY <1>1 DEF Max
<1>3. \A x \in S : x \in Int
  OBVIOUS
<1>4. PICK x \in S : x = Max(S)
  BY <1>2
<1>5. x >= m /\ x <= m /\ x \in Int /\ m \in Int
  BY <1>2, <1>3, <1>4
<1> QED BY <1>4, <1>5

IsToken(i, j) == IsLiteral(i, j) \/ IsWord(i, j) \/ IsOperator(i, j)

LEMMA TokenEndIs ==
  ASSUME sql \in Text, NEW i \in 1..Len(sql), NEW last \in i..Len(sql), IsToken(i, last),
         \A j \in i..Len(sql) : IsToken(i, j) => j <= last
  PROVE  TokenEnd(i) = last
<1> DEFINE S == Ends(IsLiteral, i) \cup Ends(IsWord, i) \cup Ends(IsOperator, i)
<1>1. last \in S /\ \A x \in S : x <= last
  BY DEF Ends, IsToken
<1>2. S \in SUBSET Int
  BY DEF Ends
<1>3. TokenEnd(i) = Max(S)
  BY DEF TokenEnd
<1> HIDE DEF S
<1> QED BY <1>1, <1>2, <1>3, GreatestIsMax

LEMMA NoFormat ==
  ASSUME sql \in Text, NEW i \in 1..Len(sql), sql[i] \notin Blanks,
         ~Pair(i, "-", "-"), ~Pair(i, "/", "*")
  PROVE  Ends(IsFormat, i) = {}
<1>1. ASSUME NEW j \in i..Len(sql), IsFormat(i, j) PROVE FALSE
  BY <1>1, LineIs, BlockIs DEF IsFormat, LineTo, BlockTo
<1> QED BY <1>1 DEF Ends

\* Operators, without sequences.
OperatorTo(i, j) ==
  \/ j = i + 2 /\ sql[i] = "-" /\ sql[i + 1] = ">" /\ sql[i + 2] = ">"
  \/ j = i + 1 /\ sql[i] \in {"-", ">"} /\ sql[i + 1] = ">"
  \/ j = i /\ sql[i] \notin Quotes \cup Letters

LEMMA OperatorIs ==
  ASSUME sql \in Text, NEW i \in 1..Len(sql), NEW j \in i..Len(sql)
  PROVE  IsOperator(i, j) <=> OperatorTo(i, j)
<1>1. PICK s \in Text : s = SubSeq(sql, i, j)
  BY PartShape
<1>2. Part(i, j) = s
  BY <1>1 DEF Part
<1>3. /\ Len(s) = j - i + 1
      /\ \A k \in 1..(j - i + 1) : s[k] = sql[i + k - 1]
  BY <1>1, PartShape
<1>4. s \in Operators <=> \/ /\ Len(s) = 3 /\ s[1] = "-" /\ s[2] = ">" /\ s[3] = ">"
                          \/ Len(s) = 2 /\ s[1] \in {"-", ">"} /\ s[2] = ">"
  <2>1. (s = <<"-", ">", ">">>) <=> (Len(s) = 3 /\ s[1] = "-" /\ s[2] = ">" /\ s[3] = ">")
    BY ONLY s \in Text, Threes
  <2>1a. (s = <<"-", ">">>) <=> (Len(s) = 2 /\ s[1] = "-" /\ s[2] = ">")
    BY ONLY s \in Text, Twos
  <2>1b. (s = <<">", ">">>) <=> (Len(s) = 2 /\ s[1] = ">" /\ s[2] = ">")
    BY ONLY s \in Text, Twos
  <2> QED BY <2>1, <2>1a, <2>1b DEF Operators
<1>5. /\ Len(s) = 3 <=> j = i + 2
      /\ Len(s) = 2 <=> j = i + 1
      /\ Len(s) = 3 => s[1] = sql[i] /\ s[2] = sql[i + 1] /\ s[3] = sql[i + 2]
      /\ Len(s) = 2 => s[1] = sql[i] /\ s[2] = sql[i + 1]
  BY <1>3
<1>6. IsOperator(i, j) <=> s \in Operators \/ (i = j /\ sql[i] \notin Quotes \cup Letters)
  BY <1>2 DEF IsOperator
<1> QED BY <1>4, <1>5, <1>6 DEF OperatorTo

\* The first character tells what a token is.
LEMMA KindIs ==
  ASSUME sql \in Text, NEW i \in 1..Len(sql), NEW j \in i..Len(sql)
  PROVE  /\ sql[i] \in Quotes => ~IsWord(i, j) /\ ~IsOperator(i, j)
         /\ sql[i] \in Letters => ~IsLiteral(i, j) /\ ~IsOperator(i, j)
         /\ sql[i] \notin Quotes \cup Letters => ~IsLiteral(i, j) /\ ~IsWord(i, j)
<1>1. i \in i..j
  OBVIOUS
<1>2. IsWord(i, j) => sql[i] \in Letters
  BY <1>1 DEF IsWord
<1>3. IsLiteral(i, j) => sql[i] \in Quotes
  BY DEF IsLiteral
<1>4. IsOperator(i, j) => sql[i] \notin Quotes \cup Letters
  BY OperatorIs DEF OperatorTo, Quotes, Letters
<1>5. \A c : ~(c \in Quotes /\ c \in Letters)
  BY DEF Quotes, Letters
<1> QED BY <1>2, <1>3, <1>4, <1>5

-----------------------------------------------------------------------------
(* A round of the loop that takes a token takes the longest. *)

Takes(i) ==
  /\ Ends(IsFormat, i) = {} /\ TokenEnd(i) \in i..Len(sql)
  /\ Take(TokenEnd(i), Lexeme(i, TokenEnd(i)))

LEMMA QuotedStep ==
  ASSUME sql \in Text, position \in 1..Len(sql), Quoted
  PROVE  Takes(position)
<1>1. Len(sql) \in Nat
  BY DEF Text
<1>2. PICK i \in 1..Len(sql) : i = position
  OBVIOUS
<1>3. sql[i] \in Quotes /\ Char(i) = sql[i]
  BY <1>1, <1>2 DEF Quoted, Char
<1>4. PICK last : last = QuoteEnds(sql[i])[i + 1]
  OBVIOUS
<1>5. Take(last, SubSeq(sql, i, last))
  BY <1>2, <1>3, <1>4 DEF Quoted, QuoteEnd
<1>6. /\ last \in i..Len(sql) /\ IsLiteral(i, last)
      /\ \A j \in i..Len(sql) : IsLiteral(i, j) => j <= last
  BY <1>3, <1>4, LiteralIs
<1>7. TokenEnd(i) = last
  BY <1>3, <1>6, KindIs, TokenEndIs DEF IsToken
<1>8. Lexeme(i, last) = SubSeq(sql, i, last)
  <2>1. ~IsWord(i, last)
    BY <1>3, <1>6, KindIs
  <2>2. Part(i, last) = SubSeq(sql, i, last)
    BY <1>1, <1>6 DEF Part
  <2> QED BY <2>1, <2>2 DEF Lexeme
<1>9. Ends(IsFormat, i) = {}
  BY <1>3, NoFormat DEF Quotes, Blanks, NewLine, Pair
<1> QED BY <1>2, <1>5, <1>6, <1>7, <1>8, <1>9 DEF Takes

LEMMA WordStep ==
  ASSUME sql \in Text, position \in 1..Len(sql), Word
  PROVE  Takes(position)
<1>1. Len(sql) \in Nat
  BY DEF Text
<1>2. PICK i \in 1..Len(sql) : i = position
  OBVIOUS
<1>3. sql[i] \in Letters /\ \A k \in 1..Len(sql) : Char(k) = sql[k]
  <2>1. \A k \in 1..Len(sql) : Char(k) = sql[k]
    BY <1>1 DEF Char
  <2>2. Char(position) \in Letters
    BY DEF Word
  <2> QED BY <1>2, <2>1, <2>2
<1> DEFINE after == {k \in i..(Len(sql) + 1) : Char(k) \notin Letters}
<1>4. after \in SUBSET Nat /\ after # {}
  <2>1. Len(sql) + 1 \in after
    BY <1>1 DEF Char, Letters
  <2> QED BY <2>1
<1>5. PICK m \in after : m = Min(after) /\ \A x \in after : m <= x
  <2> HIDE DEF after
  <2> QED BY <1>4, LeastIsMin
<1>6. PICK last : last = m - 1
  OBVIOUS
<1>7. last \in i..Len(sql)
  <2>1. i \notin after
    BY <1>3
  <2> QED BY <1>1, <1>5, <1>6, <2>1
<1>8. Take(last, [k \in 1..(last - i + 1) |-> Upper(sql[i + k - 1])])
  BY <1>2, <1>5, <1>6 DEF Word
<1>9. IsWord(i, last)
  <2>1. ASSUME NEW k \in i..last PROVE sql[k] \in Letters
    <3>1. k \in 1..Len(sql) /\ k \in i..(Len(sql) + 1) /\ ~(m <= k)
      BY <1>1, <1>6, <1>7
    <3>2. k \notin after
      <4> HIDE DEF after
      <4> QED BY <1>5, <3>1
    <3> QED BY <1>3, <3>1, <3>2
  <2> QED BY <2>1 DEF IsWord
<1>10. ASSUME NEW j \in i..Len(sql), IsWord(i, j) PROVE j <= last
  <2>1. CASE m \in i..j
    <3>1. sql[m] \in Letters
      BY <1>10, <2>1 DEF IsWord
    <3>2. m \in 1..Len(sql)
      BY <1>1, <2>1
    <3> QED BY <1>3, <1>5, <3>1, <3>2
  <2>2. CASE m \notin i..j
    BY <1>1, <1>5, <1>6, <2>2
  <2> QED BY <2>1, <2>2
<1> HIDE DEF after
<1>11. TokenEnd(i) = last
  BY <1>3, <1>7, <1>9, <1>10, KindIs, TokenEndIs DEF IsToken
<1>12. Lexeme(i, last) = [k \in 1..(last - i + 1) |-> Upper(sql[i + k - 1])]
  BY <1>9 DEF Lexeme
<1>13. Ends(IsFormat, i) = {}
  BY <1>3, NoFormat DEF Letters, Blanks, NewLine, Pair
<1> QED BY <1>2, <1>7, <1>8, <1>11, <1>12, <1>13 DEF Takes

\* What is ahead.
LEMMA AheadIs ==
  ASSUME sql \in Text, position \in 1..Len(sql), NEW n \in 1..3
  PROVE  /\ Ahead(n) \in Text
         /\ Len(Ahead(n)) = IF position + n - 1 <= Len(sql) THEN n ELSE Len(sql) - position + 1
         /\ \A k \in 1..Len(Ahead(n)) : Ahead(n)[k] = sql[position + k - 1]
         /\ position + n - 1 <= Len(sql) => Ahead(n) = Part(position, position + n - 1)
<1>1. Len(sql) \in Nat
  BY DEF Text
<1>2. PICK i \in 1..Len(sql) : i = position
  OBVIOUS
<1>3. PICK j : j = IF i + n - 1 < Len(sql) THEN i + n - 1 ELSE Len(sql)
  OBVIOUS
<1>4. j \in i..Len(sql)
  BY <1>1, <1>3
<1>5. Ahead(n) = SubSeq(sql, i, j)
  BY <1>2, <1>3 DEF Ahead
<1>6. /\ Ahead(n) \in Text /\ Len(Ahead(n)) = j - i + 1
      /\ \A k \in 1..(j - i + 1) : Ahead(n)[k] = sql[i + k - 1]
  BY <1>4, <1>5, PartShape
<1>7. j - i + 1 = IF i + n - 1 <= Len(sql) THEN n ELSE Len(sql) - i + 1
  BY <1>1, <1>3
<1>8. ASSUME i + n - 1 <= Len(sql) PROVE Ahead(n) = Part(i, i + n - 1)
  <2>1. j = i + n - 1 /\ i \in 1..j /\ j <= Len(sql)
    BY <1>1, <1>3, <1>4, <1>8
  <2> QED BY <1>5, <2>1 DEF Part
<1> QED BY <1>2, <1>6, <1>7, <1>8

LEMMA OperatorStep ==
  ASSUME sql \in Text, position \in 1..Len(sql), Operator
  PROVE  Takes(position)
<1>1. Len(sql) \in Nat
  BY DEF Text
<1>2. PICK i \in 1..Len(sql) : i = position
  OBVIOUS
<1>3. sql[i] \notin Quotes \cup Letters \cup Blanks /\ ~Pair(i, "-", "-") /\ ~Pair(i, "/", "*")
  <2>1. Ahead(Len(<<"-", "-">>)) = Ahead(2) /\ Ahead(Len(<<"/", "*">>)) = Ahead(2)
    BY DEF Ahead
  <2>2. Char(i) = sql[i]
    BY <1>1 DEF Char
  <2> QED BY <1>2, <2>1, <2>2, AheadTwo DEF Operator, LineStart, BlockStart, Starts
<1>4. PICK n : n = IF Ahead(3) = <<"-", ">", ">">> THEN 3
                  ELSE IF Ahead(2) \in Operators THEN 2 ELSE 1
  OBVIOUS
<1>5. Take(i + n - 1, Ahead(n))
  BY <1>2, <1>4 DEF Operator
<1>6. Ahead(3) = <<"-", ">", ">">> <=>
        i + 2 <= Len(sql) /\ sql[i] = "-" /\ sql[i + 1] = ">" /\ sql[i + 2] = ">"
  <2>1. PICK s \in Text : s = Ahead(3)
    BY AheadIs
  <2>2. /\ Len(s) = IF i + 2 <= Len(sql) THEN 3 ELSE Len(sql) - i + 1
        /\ \A k \in 1..Len(s) : s[k] = sql[i + k - 1]
    BY <1>1, <1>2, <2>1, AheadIs
  <2>3. s = <<"-", ">", ">">> <=> Len(s) = 3 /\ s[1] = "-" /\ s[2] = ">" /\ s[3] = ">"
    BY Threes
  <2>4. Len(s) = 3 <=> i + 2 <= Len(sql)
    BY <1>1, <2>2
  <2>5. Len(s) = 3 => s[1] = sql[i] /\ s[2] = sql[i + 1] /\ s[3] = sql[i + 2]
    <3> SUFFICES ASSUME Len(s) = 3
                 PROVE  s[1] = sql[i] /\ s[2] = sql[i + 1] /\ s[3] = sql[i + 2]
      OBVIOUS
    <3>1. \A k \in 1..3 : s[k] = sql[i + k - 1]
      BY <2>2
    <3>2. i + 1 - 1 = i /\ i + 2 - 1 = i + 1 /\ i + 3 - 1 = i + 2
      OBVIOUS
    <3> QED BY ONLY <3>1, <3>2
  <2> QED BY <2>1, <2>3, <2>4, <2>5
<1>7. Ahead(2) \in Operators <=> i + 1 <= Len(sql) /\ sql[i] \in {"-", ">"} /\ sql[i + 1] = ">"
  <2>1. PICK s \in Text : s = Ahead(2)
    BY AheadIs
  <2>2. /\ Len(s) = IF i + 1 <= Len(sql) THEN 2 ELSE Len(sql) - i + 1
        /\ \A k \in 1..Len(s) : s[k] = sql[i + k - 1]
    BY <1>1, <1>2, <2>1, AheadIs
  <2>3. (s = <<"-", ">", ">">>) <=> (Len(s) = 3 /\ s[1] = "-" /\ s[2] = ">" /\ s[3] = ">")
    BY ONLY s \in Text, Threes
  <2>3a. (s = <<"-", ">">>) <=> (Len(s) = 2 /\ s[1] = "-" /\ s[2] = ">")
    BY ONLY s \in Text, Twos
  <2>3b. (s = <<">", ">">>) <=> (Len(s) = 2 /\ s[1] = ">" /\ s[2] = ">")
    BY ONLY s \in Text, Twos
  <2>4. Len(s) # 3 /\ (Len(s) = 2 <=> i + 1 <= Len(sql))
    BY <1>1, <2>2
  <2>5. Len(s) = 2 => s[1] = sql[i] /\ s[2] = sql[i + 1]
    <3> SUFFICES ASSUME Len(s) = 2 PROVE s[1] = sql[i] /\ s[2] = sql[i + 1]
      OBVIOUS
    <3>1. \A k \in 1..2 : s[k] = sql[i + k - 1]
      BY <2>2
    <3>2. i + 1 - 1 = i /\ i + 2 - 1 = i + 1
      OBVIOUS
    <3> QED BY ONLY <3>1, <3>2
  <2> QED BY <2>1, <2>3, <2>3a, <2>3b, <2>4, <2>5 DEF Operators
<1>8. PICK last : last = i + n - 1
  OBVIOUS
<1>9. /\ last \in i..Len(sql) /\ OperatorTo(i, last) /\ n \in 1..3
      /\ \A j \in i..Len(sql) : OperatorTo(i, j) => j <= last
  BY <1>1, <1>3, <1>4, <1>6, <1>7, <1>8 DEF OperatorTo
<1>10. IsOperator(i, last) /\ \A j \in i..Len(sql) : IsOperator(i, j) => j <= last
  BY <1>9, OperatorIs
<1>11. TokenEnd(i) = last
  BY <1>3, <1>9, <1>10, KindIs, TokenEndIs DEF IsToken
<1>12. Lexeme(i, last) = Ahead(n)
  <2>1. ~IsWord(i, last)
    BY <1>3, <1>9, KindIs
  <2>2. Ahead(n) = Part(i, last)
    BY <1>2, <1>8, <1>9, AheadIs
  <2> QED BY <2>1, <2>2 DEF Lexeme
<1>13. Ends(IsFormat, i) = {}
  BY <1>3, NoFormat
<1> QED BY <1>2, <1>5, <1>8, <1>9, <1>11, <1>12, <1>13 DEF Takes

LEMMA TokenStep ==
  ASSUME sql \in Text, position \in 1..Len(sql), Quoted \/ Word \/ Operator
  PROVE  Takes(position)
BY QuotedStep, WordStep, OperatorStep

-----------------------------------------------------------------------------
(* The tokens of a text. *)

\* A token begins wherever no format does.
LEMMA TokenEndRange ==
  ASSUME sql \in Text, NEW i \in 1..Len(sql)
  PROVE  TokenEnd(i) \in i..Len(sql) /\ IsToken(i, TokenEnd(i))
<1>1. Len(sql) \in Nat
  BY DEF Text
<1> DEFINE S == {j \in i..Len(sql) : IsToken(i, j)}
<1>2. S \in SUBSET (0..Len(sql))
  OBVIOUS
<1>3. S # {}
  <2>1. CASE sql[i] \in Quotes
    BY <2>1, LiteralIs DEF IsToken
  <2>2. CASE sql[i] \in Letters
    <3>1. i \in i..Len(sql) /\ IsWord(i, i)
      BY <1>1, <2>2 DEF IsWord
    <3> QED BY <3>1 DEF IsToken
  <2>3. CASE sql[i] \notin Quotes \cup Letters
    <3>1. i \in i..Len(sql) /\ IsOperator(i, i)
      BY <1>1, <2>3 DEF IsOperator
    <3> QED BY <3>1 DEF IsToken
  <2> QED BY <2>1, <2>2, <2>3
<1>4. PICK m \in S : \A x \in S : x <= m
  <2> HIDE DEF S
  <2> QED BY <1>1, <1>2, <1>3, GreatestExists
<1>5. m \in i..Len(sql) /\ IsToken(i, m) /\ \A j \in i..Len(sql) : IsToken(i, j) => j <= m
  BY <1>4
<1> HIDE DEF S
<1>6. TokenEnd(i) = m
  BY <1>5, TokenEndIs
<1> QED BY <1>5, <1>6

LEMMA FormatEndRange ==
  ASSUME sql \in Text, NEW i \in 1..Len(sql), Ends(IsFormat, i) # {}
  PROVE  FormatEnd(i) \in i..Len(sql)
<1>1. PICK j \in i..Len(sql) : IsFormat(i, j)
  BY DEF Ends
<1> QED BY <1>1, FormatEndIs

LEMMA LexemeText ==
  ASSUME sql \in Text, NEW i \in 1..Len(sql), NEW j \in i..Len(sql)
  PROVE  Lexeme(i, j) \in Text
<1>1. Len(sql) \in Nat /\ \A k \in 1..Len(sql) : sql[k] \in Alphabet
  BY DEF Text
<1>2. CASE IsWord(i, j)
  <2>1. j - i + 1 \in Nat
    BY <1>1
  <2>2. \A k \in 1..(j - i + 1) : Upper(sql[i + k - 1]) \in Alphabet
    <3> SUFFICES ASSUME NEW k \in 1..(j - i + 1) PROVE Upper(sql[i + k - 1]) \in Alphabet
      OBVIOUS
    <3>1. i + k - 1 \in 1..Len(sql)
      BY <1>1
    <3> QED BY <1>1, <3>1 DEF Upper, Alphabet, Letters
  <2>3. [k \in 1..(j - i + 1) |-> Upper(sql[i + k - 1])] \in Seq(Alphabet)
    BY <2>1, <2>2
  <2> QED BY <1>2, <2>3 DEF Lexeme, Text
<1>3. CASE ~IsWord(i, j)
  <2>1. Part(i, j) = SubSeq(sql, i, j)
    BY <1>1 DEF Part
  <2> QED BY <1>3, <2>1, PartShape DEF Lexeme
<1> QED BY <1>2, <1>3

LexemesFrom(f, i) ==
  IF i > Len(sql) THEN <<>>
  ELSE IF Ends(IsFormat, i) # {} THEN f[FormatEnd(i) + 1]
  ELSE <<Lexeme(i, TokenEnd(i))>> \o f[TokenEnd(i) + 1]

LEMMA LexemesIs ==
  ASSUME sql \in Text
  PROVE  \A i \in 1..(Len(sql) + 1) :
           Lexemes[i] \in Seq(Text) /\ Lexemes[i] = LexemesFrom(Lexemes, i)
<1>1. Len(sql) \in Nat
  BY DEF Text
<1> DEFINE n     == Len(sql) + 1
           stop  == {Len(sql) + 1}
           value == [i \in 1..n |-> <<>>]
           next  == [i \in 1..n |-> IF Ends(IsFormat, i) # {} THEN FormatEnd(i) + 1
                                                             ELSE TokenEnd(i) + 1]
           gain  == [i \in 1..n |->
                      [v \in Seq(Text) |->
                        IF i <= Len(sql) /\ Ends(IsFormat, i) = {}
                        THEN <<Lexeme(i, TokenEnd(i))>> \o v ELSE v]]
           Is(f) == f = [i \in 1..n |->
                          IF i > Len(sql) THEN <<>>
                          ELSE IF Ends(IsFormat, i) # {} THEN f[FormatEnd(i) + 1]
                          ELSE <<Lexeme(i, TokenEnd(i))>> \o f[TokenEnd(i) + 1]]
<1>2. \A i \in 1..Len(sql) :
        /\ TokenEnd(i) \in i..Len(sql) /\ Lexeme(i, TokenEnd(i)) \in Text
        /\ Ends(IsFormat, i) # {} => FormatEnd(i) \in i..Len(sql)
  <2> SUFFICES ASSUME NEW i \in 1..Len(sql)
               PROVE  /\ TokenEnd(i) \in i..Len(sql) /\ Lexeme(i, TokenEnd(i)) \in Text
                      /\ Ends(IsFormat, i) # {} => FormatEnd(i) \in i..Len(sql)
    OBVIOUS
  <2>1. PICK e \in i..Len(sql) : e = TokenEnd(i)
    BY TokenEndRange
  <2>2. Lexeme(i, e) \in Text
    BY LexemeText
  <2> QED BY <2>1, <2>2, FormatEndRange
<1>3. n \in Nat /\ value \in [1..n -> Seq(Text)]
  BY <1>1
<1>4. gain \in [1..n -> [Seq(Text) -> Seq(Text)]]
  <2>1. ASSUME NEW i \in 1..n, NEW v \in Seq(Text), i <= Len(sql)
        PROVE  <<Lexeme(i, TokenEnd(i))>> \o v \in Seq(Text)
    <3>1. i \in 1..Len(sql)
      BY <1>1, <2>1
    <3>2. PICK t \in Text : t = Lexeme(i, TokenEnd(i))
      BY <1>2, <3>1
    <3>3. <<t>> \o v \in Seq(Text)
      OBVIOUS
    <3> QED BY <3>2, <3>3
  <2>2. \A i \in 1..n : [v \in Seq(Text) |->
                          IF i <= Len(sql) /\ Ends(IsFormat, i) = {}
                          THEN <<Lexeme(i, TokenEnd(i))>> \o v ELSE v] \in [Seq(Text) -> Seq(Text)]
    BY <2>1
  <2> HIDE DEF n
  <2> QED BY <2>2
<1>5. \A i \in 1..n : i \in stop \/ next[i] \in (i + 1)..n
  BY <1>1, <1>2
<1>6. PICK f \in [1..n -> Seq(Text)] :
        \A i \in 1..n : f[i] = IF i \in stop THEN value[i] ELSE gain[i][f[next[i]]]
  <2>1. JumpsFrom(1, n, Seq(Text), stop, value, gain, next)
    <3> HIDE DEF n, stop, value, gain, next
    <3> QED BY ONLY <1>3, <1>4, <1>5, JumpsExist
  <2> HIDE DEF n, stop, value, gain, next
  <2> QED BY <2>1 DEF JumpsFrom
<1>7. \A i \in 1..n : f[i] = LexemesFrom(f, i)
  <2> SUFFICES ASSUME NEW i \in 1..n PROVE f[i] = LexemesFrom(f, i)
    OBVIOUS
  <2>1. CASE i = Len(sql) + 1
    <3>1. i > Len(sql) /\ i \in stop /\ value[i] = <<>>
      BY <1>1, <2>1
    <3>2. f[i] = <<>>
      <4> HIDE DEF n, stop, value, gain, next
      <4> QED BY <1>6, <3>1
    <3> QED BY <3>1, <3>2 DEF LexemesFrom
  <2>2. CASE i # Len(sql) + 1
    <3>1. i \in 1..Len(sql) /\ i \notin stop /\ ~(i > Len(sql)) /\ i <= Len(sql)
      BY <1>1, <2>2
    <3>2. next[i] \in 1..n
      <4>1. next[i] \in (i + 1)..n
        BY <1>5, <3>1
      <4> HIDE DEF next
      <4> QED BY <1>1, <4>1
    <3>3. PICK v \in Seq(Text) : v = f[next[i]]
      BY <3>2
    <3>4. f[i] = gain[i][v]
      BY <1>6, <3>1, <3>3
    <3>5. f[i] = IF Ends(IsFormat, i) = {} THEN <<Lexeme(i, TokenEnd(i))>> \o v ELSE v
      BY <3>1, <3>4
    <3>6. v = IF Ends(IsFormat, i) # {} THEN f[FormatEnd(i) + 1] ELSE f[TokenEnd(i) + 1]
      BY <3>3
    <3> QED BY <3>1, <3>5, <3>6 DEF LexemesFrom
  <2> QED BY <2>1, <2>2
<1>8. Is(f)
  <2>1. f = [i \in 1..n |-> f[i]]
    BY <1>6
  <2> QED BY <1>7, <2>1 DEF LexemesFrom
<1>9. Lexemes = CHOOSE g : Is(g)
  BY DEF Lexemes
<1>10. Is(Lexemes)
  <2> HIDE DEF Is
  <2> QED BY <1>8, <1>9
<1>11. \A i \in 1..n : Lexemes[i] = LexemesFrom(Lexemes, i)
  BY <1>10 DEF LexemesFrom
\* The equations have one solution: the last position where two differ does not exist.
<1> DEFINE Wrong == {i \in 1..n : Lexemes[i] # f[i]}
<1>12. ASSUME Wrong # {} PROVE FALSE
  <2>1. PICK i \in Wrong : \A x \in Wrong : x <= i
    <3>1. Wrong \in SUBSET (0..n)
      BY <1>1
    <3> HIDE DEF Wrong, n
    <3> QED BY <1>3, <1>12, <3>1, GreatestExists
  <2>2. i \in 1..n /\ Lexemes[i] # f[i] /\ \A x \in (i + 1)..n : x \notin Wrong
    <3>1. \A x \in (i + 1)..n : ~(x <= i)
      BY <1>1
    <3>2. i \in 1..n /\ Lexemes[i] # f[i]
      OBVIOUS
    <3> HIDE DEF Wrong
    <3> QED BY <2>1, <3>1, <3>2
  <2>3. \A x \in (i + 1)..n : Lexemes[x] = f[x]
    BY <1>1, <2>2
  <2>4. i <= Len(sql) => /\ Ends(IsFormat, i) # {} => FormatEnd(i) + 1 \in (i + 1)..n
                         /\ TokenEnd(i) + 1 \in (i + 1)..n
    <3> SUFFICES ASSUME i <= Len(sql)
                 PROVE  /\ Ends(IsFormat, i) # {} => FormatEnd(i) + 1 \in (i + 1)..n
                        /\ TokenEnd(i) + 1 \in (i + 1)..n
      OBVIOUS
    <3>1. i \in 1..Len(sql)
      BY <1>1, <2>2
    <3>2. \A e \in i..Len(sql) : e + 1 \in (i + 1)..n
      BY <1>1, <3>1
    <3> HIDE DEF Wrong, n
    <3> QED BY <1>2, <3>1, <3>2
  <2>5. LexemesFrom(Lexemes, i) = LexemesFrom(f, i)
    <3>1. i <= Len(sql) \/ i > Len(sql)
      BY <1>1, <2>2
    <3> HIDE DEF n, Wrong
    <3> QED BY <2>3, <2>4, <3>1 DEF LexemesFrom
  <2> QED BY <1>7, <1>11, <2>2, <2>5
<1>13. \A i \in 1..n : Lexemes[i] = f[i] /\ f[i] \in Seq(Text)
  <2>1. \A i \in 1..n : f[i] \in Seq(Text)
    BY <1>6
  <2> QED BY <1>12, <2>1
<1> QED BY <1>11, <1>13

-----------------------------------------------------------------------------
(* Blocks, one behind the other. *)

\* Where the blocks begin in a text.
Laid(text, b, n, off) ==
  /\ off \in [0..n -> Nat] /\ off[0] = 1 /\ off[n] = Len(text) + 1
  /\ \A k \in 0..n : off[k] \in 1..(Len(text) + 1)
  /\ \A k \in 1..n : /\ off[k] = off[k - 1] + Len(b[k])
                     /\ \A x \in 1..Len(b[k]) : text[off[k - 1] + x - 1] = b[k][x]

LEMMA LaidMore ==
  ASSUME NEW n \in Nat, NEW b, NEW text \in Text, NEW block \in Text, b[n + 1] = block,
         NEW off, Laid(text, b, n, off)
  PROVE  \E more : Laid(text \o block, b, n + 1, more)
<1>1. PICK all \in Text : all = text \o block
  <2>1. text \o block \in Text
    BY ConcatProperties DEF Text
  <2> QED BY <2>1
<1>2. /\ Len(all) = Len(text) + Len(block) /\ Len(text) \in Nat /\ Len(block) \in Nat
      /\ \A x \in 1..Len(text) : all[x] = text[x]
      /\ \A x \in 1..Len(block) : all[Len(text) + x] = block[x]
  BY <1>1 DEF Text
<1> DEFINE more == [k \in 0..(n + 1) |-> IF k = n + 1 THEN Len(all) + 1 ELSE off[k]]
<1>3. /\ more[n + 1] = Len(all) + 1
      /\ \A k \in 0..n : more[k] = off[k]
      /\ \A k \in 0..n : more[k] \in 1..(Len(text) + 1)
      /\ more[0] = 1 /\ more[n] = Len(text) + 1
  <2>1. /\ more[n + 1] = Len(all) + 1
        /\ \A k \in 0..n : more[k] = off[k]
    OBVIOUS
  <2> HIDE DEF more
  <2>2. 0 \in 0..n /\ n \in 0..n
    OBVIOUS
  <2> QED BY <2>1, <2>2 DEF Laid
<1>4. more \in [0..(n + 1) -> Nat]
  <2>1. \A k \in 0..(n + 1) : k \in 0..n \/ k = n + 1
    OBVIOUS
  <2>2. \A k \in 0..(n + 1) : more[k] \in Nat
    <3> HIDE DEF more
    <3> QED BY <1>2, <1>3, <2>1
  <2> QED BY <2>2
<1> HIDE DEF more
<1>5. \A k \in 0..(n + 1) : more[k] \in 1..(Len(all) + 1)
  <2>1. \A k \in 0..(n + 1) : k \in 0..n \/ k = n + 1
    OBVIOUS
  <2> QED BY <1>2, <1>3, <2>1
<1>6. ASSUME NEW k \in 1..n
      PROVE  /\ more[k] = more[k - 1] + Len(b[k])
             /\ \A x \in 1..Len(b[k]) : all[more[k - 1] + x - 1] = b[k][x]
  <2>1. k \in 0..n /\ k - 1 \in 0..n
    OBVIOUS
  <2>2. PICK i \in 1..(Len(text) + 1) : i = more[k - 1] /\ i = off[k - 1]
    BY <1>3, <2>1
  <2>3. PICK j \in 1..(Len(text) + 1) : j = more[k] /\ j = off[k]
    BY <1>3, <2>1
  <2>4. j = i + Len(b[k]) /\ \A x \in 1..Len(b[k]) : text[i + x - 1] = b[k][x]
    BY <2>2, <2>3 DEF Laid
  <2>5. ASSUME NEW x \in 1..Len(b[k]) PROVE all[i + x - 1] = b[k][x]
    <3>1. i + x - 1 \in 1..Len(text)
      <4>1. x \in Int /\ 1 <= x /\ (Len(b[k]) \in Int => x <= Len(b[k]))
        OBVIOUS
      <4>2. Len(b[k]) \in Int \/ Len(b[k]) \notin Int
        OBVIOUS
      <4>3. PICK l : l = Len(b[k])
        OBVIOUS
      <4> QED BY <1>2, <2>3, <2>4, <4>3
    <3> QED BY <1>2, <2>4, <3>1
  <2> QED BY <2>2, <2>3, <2>4, <2>5
<1>7. /\ more[n + 1] = more[(n + 1) - 1] + Len(b[n + 1])
      /\ \A x \in 1..Len(b[n + 1]) : all[more[(n + 1) - 1] + x - 1] = b[n + 1][x]
  <2>1. (n + 1) - 1 = n
    OBVIOUS
  <2>2. \A x \in 1..Len(block) : (Len(text) + 1) + x - 1 = Len(text) + x
    BY <1>2
  <2> QED BY <1>2, <1>3, <2>1, <2>2
<1>8. \A k \in 1..(n + 1) : k \in 1..n \/ k = n + 1
  OBVIOUS
<1>9. Laid(all, b, n + 1, more)
  BY <1>3, <1>4, <1>5, <1>6, <1>7, <1>8 DEF Laid
<1> QED BY <1>1, <1>9

LEMMA FlattenLaid ==
  ASSUME NEW b \in Seq(Text)
  PROVE  FlattenSeq(b) \in Text /\ \E off : Laid(FlattenSeq(b), b, Len(b), off)
<1>1. PICK n \in Nat : n = Len(b)
  OBVIOUS
<1>2. \A i \in 1..n : b[i] \in Text
  BY <1>1
<1>3. CASE n = 0
  <2>1. FlattenSeq(b) = b
    BY <1>1, <1>3 DEF FlattenSeq
  <2>1a. b = <<>>
    BY <1>1, <1>3, EmptySeq
  <2> DEFINE off == [k \in 0..0 |-> 1]
  <2>2. /\ off \in [0..0 -> Nat] /\ off[0] = 1 /\ \A k \in 0..0 : off[k] \in 1..1
        /\ 1..0 = {}
    OBVIOUS
  <2>3. Len(<<>>) = 0 /\ 0 + 1 = 1 /\ <<>> \in Text
    BY DEF Text
  <2> HIDE DEF off
  <2>4. Laid(<<>>, b, 0, off)
    BY <2>2, <2>3 DEF Laid
  <2> QED BY <1>1, <1>3, <2>1, <2>1a, <2>3, <2>4
<1>4. CASE n # 0
  <2> DEFINE Is(g) == g = [i \in 1..n |-> IF i = 1 THEN b[i] ELSE g[i - 1] \o b[i]]
  <2>1. PICK g : g = CHOOSE f : Is(f)
    OBVIOUS
  <2>2. FlattenSeq(b) = g[n]
    BY <1>1, <1>4, <2>1 DEF FlattenSeq
  <2>3. Is(g)
    <3> DEFINE Has(m) == \E f \in [1..m -> Text] :
                           \A i \in 1..m : f[i] = IF i = 1 THEN b[i] ELSE f[i - 1] \o b[i]
               Without == {m \in 0..n : ~Has(m)}
    <3>1. Has(n)
      <4> SUFFICES ASSUME ~Has(n) PROVE FALSE
        OBVIOUS
      <4>1. Without \in SUBSET Nat /\ Without # {}
        <5>1. n \in 0..n
          OBVIOUS
        <5> HIDE DEF Has
        <5> QED BY <5>1
      <4>2. PICK m \in Without : \A x \in Without : m <= x
        <5> HIDE DEF Without
        <5> QED BY <4>1, LeastExists
      <4>3. m \in 0..n /\ ~Has(m)
        <5> HIDE DEF Has
        <5> QED OBVIOUS
      <4>4. CASE m = 0
        <5> DEFINE f == [i \in 1..0 |-> b[i]]
        <5>1. /\ f \in [1..0 -> Text]
              /\ \A i \in 1..0 : f[i] = IF i = 1 THEN b[i] ELSE f[i - 1] \o b[i]
          OBVIOUS
        <5>2. Has(0)
          <6> HIDE DEF f
          <6> QED BY <5>1
        <5> HIDE DEF Has
        <5> QED BY <4>3, <4>4, <5>2
      <4>5. CASE m # 0
        <5>1. m - 1 \in 0..n /\ ~(m <= m - 1) /\ m \in 1..n
          BY <4>3, <4>5
        <5>2. Has(m - 1)
          <6>1. m - 1 \notin Without
            <7> HIDE DEF Without
            <7> QED BY <4>2, <5>1
          <6> HIDE DEF Has
          <6> QED BY <5>1, <6>1
        <5>3. PICK f \in [1..(m - 1) -> Text] :
                \A i \in 1..(m - 1) : f[i] = IF i = 1 THEN b[i] ELSE f[i - 1] \o b[i]
          BY <5>2
        <5> DEFINE h == [i \in 1..m |-> IF i = m THEN IF m = 1 THEN b[m] ELSE f[m - 1] \o b[m]
                                       ELSE f[i]]
        <5>4. /\ h[m] = IF m = 1 THEN b[m] ELSE f[m - 1] \o b[m]
              /\ \A i \in 1..(m - 1) : h[i] = f[i] /\ i # m
              /\ \A i \in 1..m : i = m \/ i \in 1..(m - 1)
          <6>1. m \in 1..m /\ \A i \in 1..(m - 1) : i # m /\ i \in 1..m
            BY <5>1
          <6>2. h[m] = IF m = 1 THEN b[m] ELSE f[m - 1] \o b[m]
            BY <6>1
          <6>3. \A i \in 1..(m - 1) : h[i] = f[i]
            BY <6>1
          <6>4. \A i \in 1..m : i = m \/ i \in 1..(m - 1)
            BY <5>1
          <6> HIDE DEF h
          <6> QED BY <6>1, <6>2, <6>3, <6>4
        <5>5. h[m] \in Text
          <6>1. b[m] \in Text
            BY <1>2, <5>1
          <6>2. m # 1 => f[m - 1] \in Text
            BY <5>1
          <6>3. \A u, v \in Text : u \o v \in Text
            BY DEF Text
          <6> HIDE DEF h
          <6> QED BY <5>4, <6>1, <6>2, <6>3
        <5>6. h \in [1..m -> Text]
          <6>1. \A i \in 1..m : h[i] \in Text
            <7> HIDE DEF h
            <7> QED BY <5>3, <5>4, <5>5
          <6> QED BY <6>1
        <5>7. \A i \in 1..m : h[i] = IF i = 1 THEN b[i] ELSE h[i - 1] \o b[i]
          <6> SUFFICES ASSUME NEW i \in 1..m
                       PROVE  h[i] = IF i = 1 THEN b[i] ELSE h[i - 1] \o b[i]
            OBVIOUS
          <6>1. i = 1 \/ i - 1 \in 1..(m - 1)
            BY <5>1
          <6>2. i # 1 => h[i - 1] = f[i - 1]
            <7> HIDE DEF h
            <7> QED BY <5>4, <6>1
          <6> HIDE DEF h
          <6> QED BY <5>3, <5>4, <6>2
        <5>8. Has(m)
          <6> HIDE DEF h
          <6> QED BY <5>6, <5>7
        <5> HIDE DEF Has
        <5> QED BY <4>3, <5>8
      <4> QED BY <4>4, <4>5
    <3>2. PICK f \in [1..n -> Text] :
            \A i \in 1..n : f[i] = IF i = 1 THEN b[i] ELSE f[i - 1] \o b[i]
      BY <3>1
    <3>3. f = [i \in 1..n |-> f[i]]
      OBVIOUS
    <3>4. Is(f)
      BY <3>2, <3>3
    <3> HIDE DEF Is
    <3> QED BY <2>1, <3>4
  <2>4. \A i \in 1..n : g[i] = IF i = 1 THEN b[i] ELSE g[i - 1] \o b[i]
    BY <2>3
  <2> HIDE DEF Is
  <2> DEFINE Good(m) == g[m] \in Text /\ \E off : Laid(g[m], b, m, off)
             Bad == {m \in 1..n : ~Good(m)}
  <2>5. ASSUME Bad # {} PROVE FALSE
    <3>1. PICK m \in Bad : \A x \in Bad : m <= x
      <4>1. Bad \in SUBSET Nat
        OBVIOUS
      <4> HIDE DEF Bad
      <4> QED BY <2>5, <4>1, LeastExists
    <3>2. m \in 1..n /\ ~Good(m)
      <4> HIDE DEF Good
      <4> QED OBVIOUS
    <3>3. CASE m = 1
      <4>1. g[1] = b[1] /\ b[1] \in Text
        BY <1>2, <2>4, <3>2, <3>3
      <4> DEFINE off == [k \in 0..0 |-> 1]
      <4>2. /\ off \in [0..0 -> Nat] /\ off[0] = 1 /\ \A k \in 0..0 : off[k] \in 1..1
            /\ 1..0 = {}
        OBVIOUS
      <4>3. Len(<<>>) = 0 /\ 0 + 1 = 1 /\ <<>> \in Text
        BY DEF Text
      <4> HIDE DEF off
      <4>4. Laid(<<>>, b, 0, off)
        BY <4>2, <4>3 DEF Laid
      <4>5. \E more : Laid(<<>> \o b[1], b, 0 + 1, more)
        BY <4>1, <4>3, <4>4, LaidMore
      <4>6. <<>> \o b[1] = b[1]
        BY <4>1 DEF Text
      <4>7. Good(1)
        BY <4>1, <4>3, <4>5, <4>6
      <4> HIDE DEF Good
      <4> QED BY <3>2, <3>3, <4>7
    <3>4. CASE m # 1
      <4>1. PICK l \in 1..n : l = m - 1 /\ l + 1 = m /\ ~(m <= l)
        BY <3>2, <3>4
      <4>2. Good(l)
        <5>1. l \notin Bad
          <6> HIDE DEF Bad
          <6> QED BY <3>1, <4>1
        <5> HIDE DEF Good
        <5> QED BY <5>1
      <4>3. g[m] = g[l] \o b[m] /\ b[m] \in Text /\ g[l] \in Text
        BY <1>2, <2>4, <3>2, <3>4, <4>1, <4>2
      <4>4. PICK off : Laid(g[l], b, l, off)
        BY <4>2
      <4>5. \E more : Laid(g[l] \o b[m], b, l + 1, more)
        BY <4>1, <4>3, <4>4, LaidMore
      <4>6. g[l] \o b[m] \in Text
        BY <4>3 DEF Text
      <4>7. Good(m)
        BY <4>1, <4>3, <4>5, <4>6
      <4> HIDE DEF Good
      <4> QED BY <3>2, <4>7
    <3> QED BY <3>3, <3>4
  <2>6. n \in 1..n
    BY <1>4
  <2>7. Good(n)
    <3> HIDE DEF Good
    <3> QED BY <2>5, <2>6
  <2> QED BY <1>1, <2>2, <2>7
<1> QED BY <1>3, <1>4

-----------------------------------------------------------------------------
(* A token stays what it is wherever white space or the end follows it. *)

WholeWord(t) == Len(t) >= 1 /\ \A x \in 1..Len(t) : t[x] = "A"

WholeOperator(t) ==
  \/ Len(t) = 3 /\ t[1] = "-" /\ t[2] = ">" /\ t[3] = ">"
  \/ Len(t) = 2 /\ t[1] \in {"-", ">"} /\ t[2] = ">"
  \/ Len(t) = 1 /\ t[1] \notin Quotes \cup Letters \cup Blanks

WholeLiteral(t) ==
  /\ Len(t) >= 2 /\ t[1] \in Quotes /\ t[Len(t)] = Closing[t[1]]
  /\ Doubled(t, t[1], 2, Len(t) - 1)

OpenLiteral(t) == Len(t) >= 1 /\ t[1] \in Quotes /\ Doubled(t, t[1], 2, Len(t))

Whole(t) == WholeWord(t) \/ WholeOperator(t) \/ WholeLiteral(t)

\* A token of a text is whole, or an open literal at its end.
LEMMA LexemeWhole ==
  ASSUME sql \in Text, NEW i \in 1..Len(sql), NEW e \in i..Len(sql), IsToken(i, e),
         sql[i] \notin Blanks, NEW t, t = Lexeme(i, e)
  PROVE  Whole(t) \/ (OpenLiteral(t) /\ e = Len(sql))
<1>1. Len(sql) \in Nat
  BY DEF Text
<1>2. CASE IsWord(i, e)
  <2>1. PICK n \in Nat : n = e - i + 1 /\ n >= 1
    BY <1>1
  <2>2. t = [k \in 1..n |-> Upper(sql[i + k - 1])]
    BY <1>2, <2>1 DEF Lexeme
  <2>3. \A k \in 1..n : Upper(sql[i + k - 1]) = "A"
    <3> SUFFICES ASSUME NEW k \in 1..n PROVE Upper(sql[i + k - 1]) = "A"
      OBVIOUS
    <3>1. i + k - 1 \in i..e
      BY <1>1, <2>1
    <3> QED BY <1>2, <3>1 DEF IsWord, Upper, Letters
  <2>4. Len(t) = n /\ \A k \in 1..n : t[k] = Upper(sql[i + k - 1])
    BY <2>2
  <2> QED BY <2>1, <2>3, <2>4 DEF Whole, WholeWord
<1>3. CASE ~IsWord(i, e)
  <2>1. t = SubSeq(sql, i, e)
    BY <1>1, <1>3 DEF Lexeme, Part
  <2>2. PICK n \in Nat : n = e - i + 1 /\ n >= 1 /\ i + n - 1 = e
    BY <1>1
  <2>3. /\ Len(t) = n /\ \A k \in 1..n : t[k] = sql[i + k - 1]
    BY <2>1, <2>2, PartShape
  <2>4. t[1] = sql[i] /\ t[n] = sql[e]
    <3>1. 1 \in 1..n /\ n \in 1..n /\ i + 1 - 1 = i
      BY <2>2
    <3> QED BY <2>2, <2>3, <3>1
  <2>5. CASE IsLiteral(i, e)
    <3>1. PICK q \in Quotes : q = sql[i]
      BY <2>5 DEF IsLiteral
    <3>2. PICK d \in Int : d = 1 - i /\ (i + 1) + d = 2 /\ e + d = n /\ (e - 1) + d = n - 1
      BY <1>1, <2>2
    <3>3. \A x \in (i + 1)..e : t[x + d] = sql[x]
      <4> SUFFICES ASSUME NEW x \in (i + 1)..e PROVE t[x + d] = sql[x]
        OBVIOUS
      <4>1. x + d \in 1..n /\ i + (x + d) - 1 = x
        BY <1>1, <2>2, <3>2
      <4> QED BY <2>3, <4>1
    <3>4. CASE e > i /\ sql[e] = Closing[q] /\ Doubled(sql, q, i + 1, e - 1)
      <4>1. \A x \in (i + 1)..(e - 1) : t[x + d] = sql[x]
        BY <3>3
      <4>2. PICK a \in Int : a = i + 1
        BY <1>1
      <4>3. PICK b \in Int : b = e - 1
        BY <1>1
      <4>4. Doubled(t, q, a + d, b + d)
        BY <3>2, <3>4, <4>1, <4>2, <4>3, DoubledMoved
      <4>5. Doubled(t, q, 2, n - 1)
        BY <3>2, <4>2, <4>3, <4>4
      <4>6. n >= 2
        BY <1>1, <2>2, <3>4
      <4> QED BY <2>3, <2>4, <3>1, <3>4, <4>5, <4>6 DEF Whole, WholeLiteral
    <3>5. CASE e = Len(sql) /\ Doubled(sql, q, i + 1, e)
      <4>1. PICK a \in Int : a = i + 1
        BY <1>1
      <4>2. (\A x \in a..e : t[x + d] = sql[x]) /\ e \in Int /\ Doubled(sql, q, a, e)
        BY <1>1, <3>3, <3>5, <4>1
      <4>3. Doubled(t, q, a + d, e + d)
        BY ONLY <4>2, q \in Quotes, a \in Int, d \in Int, DoubledMoved
      <4>4. Doubled(t, q, 2, n)
        BY <3>2, <4>1, <4>3
      <4> QED BY <2>2, <2>3, <2>4, <3>1, <3>5, <4>4 DEF OpenLiteral
    <3> QED BY <2>5, <3>1, <3>4, <3>5 DEF IsLiteral
  <2>6. CASE IsOperator(i, e)
    <3>1. OperatorTo(i, e)
      BY <2>6, OperatorIs
    <3>2. CASE e = i + 2 /\ sql[i] = "-" /\ sql[i + 1] = ">" /\ sql[i + 2] = ">"
      <4>1. n = 3 /\ t[2] = sql[i + 1] /\ t[3] = sql[i + 2]
        <5>1. n = 3 /\ 2 \in 1..n /\ 3 \in 1..n /\ i + 2 - 1 = i + 1 /\ i + 3 - 1 = i + 2
          BY <2>2, <3>2
        <5> QED BY <2>3, <5>1
      <4> QED BY <2>3, <2>4, <3>2, <4>1 DEF Whole, WholeOperator
    <3>3. CASE e = i + 1 /\ sql[i] \in {"-", ">"} /\ sql[i + 1] = ">"
      <4>1. n = 2 /\ t[2] = sql[i + 1]
        <5>1. n = 2 /\ 2 \in 1..n /\ i + 2 - 1 = i + 1
          BY <2>2, <3>3
        <5> QED BY <2>3, <5>1
      <4> QED BY <2>3, <2>4, <3>3, <4>1 DEF Whole, WholeOperator
    <3>4. CASE e = i /\ sql[i] \notin Quotes \cup Letters
      <4>1. n = 1
        BY <2>2, <3>4
      <4> QED BY <2>3, <2>4, <3>4, <4>1 DEF Whole, WholeOperator
    <3> QED BY <3>1, <3>2, <3>3, <3>4 DEF OperatorTo
  <2> QED BY <1>3, <2>5, <2>6 DEF IsToken
<1> QED BY <1>2, <1>3

\* Where in the text a token stands.
Stands(i, e, t) ==
  /\ e = i + Len(t) - 1
  /\ \A x \in 1..Len(t) : sql[i + x - 1] = t[x]
  /\ e = Len(sql) \/ sql[e + 1] \in Blanks

LEMMA WordAgain ==
  ASSUME sql \in Text, NEW i \in 1..Len(sql), NEW e \in i..Len(sql), NEW t \in Text,
         Stands(i, e, t), WholeWord(t)
  PROVE  /\ Ends(IsFormat, i) = {} /\ TokenEnd(i) = e /\ Lexeme(i, e) = t
<1>1. Len(sql) \in Nat
  BY DEF Text
<1>2. PICK n \in Nat : n = Len(t) /\ n >= 1 /\ e = i + n - 1
  BY DEF Stands, WholeWord, Text
<1>3. \A x \in 1..n : sql[i + x - 1] = "A" /\ t[x] = "A"
  BY <1>2 DEF Stands, WholeWord
<1>4. \A k \in i..e : sql[k] = "A"
  <2> SUFFICES ASSUME NEW k \in i..e PROVE sql[k] = "A"
    OBVIOUS
  <2>1. PICK x \in 1..n : i + x - 1 = k
    <3>1. k - i + 1 \in 1..n /\ i + (k - i + 1) - 1 = k
      BY <1>1, <1>2
    <3> QED BY <3>1
  <2> QED BY <1>3, <2>1
<1>5. IsWord(i, e) /\ sql[i] = "A"
  <2>1. i \in i..e
    OBVIOUS
  <2> QED BY <1>4, <2>1 DEF IsWord, Letters
<1>6. ASSUME NEW j \in i..Len(sql), IsWord(i, j) PROVE j <= e
  <2>1. CASE e = Len(sql)
    BY <1>1, <2>1
  <2>2. CASE sql[e + 1] \in Blanks
    <3>1. e + 1 \notin i..j
      BY <1>6, <2>2 DEF IsWord, Blanks, NewLine, Letters
    <3> QED BY <1>1, <3>1
  <2> QED BY <2>1, <2>2 DEF Stands
<1>7. TokenEnd(i) = e
  BY <1>5, <1>6, KindIs, TokenEndIs DEF IsToken, Letters
<1>8. Ends(IsFormat, i) = {}
  BY <1>5, NoFormat DEF Blanks, NewLine, Pair
<1>9. Lexeme(i, e) = t
  <2>1. Lexeme(i, e) \in Text
    BY LexemeText
  <2>2. Lexeme(i, e) = [k \in 1..n |-> Upper(sql[i + k - 1])]
    <3>1. e - i + 1 = n
      BY <1>1, <1>2
    <3> QED BY <1>5, <3>1 DEF Lexeme
  <2>3. Len(Lexeme(i, e)) = n /\ \A k \in 1..n : Lexeme(i, e)[k] = Upper(sql[i + k - 1])
    BY <2>2
  <2>4. \A k \in 1..n : Lexeme(i, e)[k] = t[k]
    BY <1>3, <2>3 DEF Upper
  <2> QED BY <1>2, <2>1, <2>3, <2>4, SeqEqual DEF Text
<1> QED BY <1>7, <1>8, <1>9

\* What stands there is the part of the text.
LEMMA PartAgain ==
  ASSUME sql \in Text, NEW i \in 1..Len(sql), NEW e \in i..Len(sql), NEW t \in Text,
         Stands(i, e, t)
  PROVE  Part(i, e) = t
<1>1. Len(sql) \in Nat
  BY DEF Text
<1>2. PICK s \in Text : s = SubSeq(sql, i, e)
  BY PartShape
<1>3. Part(i, e) = s
  BY <1>1, <1>2 DEF Part
<1>4. PICK n \in Nat : n = Len(t) /\ e - i + 1 = n
  BY <1>1 DEF Stands, Text
<1>5. Len(s) = n /\ \A x \in 1..n : s[x] = t[x]
  BY <1>2, <1>4, PartShape DEF Stands
<1> QED BY <1>3, <1>4, <1>5, SeqEqual DEF Text

LEMMA OperatorAgain ==
  ASSUME sql \in Text, NEW i \in 1..Len(sql), NEW e \in i..Len(sql), NEW t \in Text,
         Stands(i, e, t), WholeOperator(t)
  PROVE  /\ Ends(IsFormat, i) = {} /\ TokenEnd(i) = e /\ Lexeme(i, e) = t
<1>1. Len(sql) \in Nat
  BY DEF Text
<1>2. \/ e = i + 2 /\ sql[i] = "-" /\ sql[i + 1] = ">" /\ sql[i + 2] = ">"
      \/ e = i + 1 /\ sql[i] \in {"-", ">"} /\ sql[i + 1] = ">"
      \/ e = i /\ sql[i] \notin Quotes \cup Letters \cup Blanks
  <2>1. i + 1 - 1 = i /\ i + 2 - 1 = i + 1 /\ i + 3 - 1 = i + 2
    OBVIOUS
  <2>2. CASE Len(t) = 3 /\ t[1] = "-" /\ t[2] = ">" /\ t[3] = ">"
    <3>1. \A x \in 1..3 : sql[i + x - 1] = t[x]
      BY <2>2 DEF Stands
    <3>2. e = i + 2
      BY <2>2 DEF Stands
    <3> QED BY <2>1, <2>2, <3>1, <3>2
  <2>3. CASE Len(t) = 2 /\ t[1] \in {"-", ">"} /\ t[2] = ">"
    <3>1. \A x \in 1..2 : sql[i + x - 1] = t[x]
      BY <2>3 DEF Stands
    <3>2. e = i + 1
      BY <2>3 DEF Stands
    <3> QED BY <2>1, <2>3, <3>1, <3>2
  <2>4. CASE Len(t) = 1 /\ t[1] \notin Quotes \cup Letters \cup Blanks
    <3>1. \A x \in 1..1 : sql[i + x - 1] = t[x]
      BY <2>4 DEF Stands
    <3>2. e = i
      BY <2>4 DEF Stands
    <3> QED BY <2>1, <2>4, <3>1, <3>2
  <2> QED BY <2>2, <2>3, <2>4 DEF WholeOperator
<1>3. e = Len(sql) \/ sql[e + 1] \notin {"-", ">", "*"}
  BY DEF Stands, Blanks, NewLine
<1>4. /\ sql[i] \notin Quotes \cup Letters \cup Blanks
      /\ ~Pair(i, "-", "-") /\ ~Pair(i, "/", "*")
  <2>1. sql[i] \notin Quotes \cup Letters \cup Blanks
    BY <1>2 DEF Quotes, Letters, Blanks, NewLine
  <2>2. ~Pair(i, "-", "-") /\ ~Pair(i, "/", "*")
    BY <1>1, <1>2, <1>3 DEF Pair
  <2> QED BY <2>1, <2>2
<1>5. OperatorTo(i, e)
  BY <1>2 DEF OperatorTo
<1>6. ASSUME NEW j \in i..Len(sql), OperatorTo(i, j) PROVE j <= e
  BY <1>1, <1>2, <1>3, <1>6 DEF OperatorTo
<1>7. IsOperator(i, e) /\ \A j \in i..Len(sql) : IsOperator(i, j) => j <= e
  BY <1>5, <1>6, OperatorIs
<1>8. TokenEnd(i) = e
  BY <1>4, <1>7, KindIs, TokenEndIs DEF IsToken
<1>9. Lexeme(i, e) = t
  BY <1>4, KindIs, PartAgain DEF Lexeme
<1> QED BY <1>4, <1>8, <1>9, NoFormat

LEMMA LiteralAgain ==
  ASSUME sql \in Text, NEW i \in 1..Len(sql), NEW e \in i..Len(sql), NEW t \in Text,
         Stands(i, e, t), WholeLiteral(t) \/ (OpenLiteral(t) /\ e = Len(sql))
  PROVE  /\ Ends(IsFormat, i) = {} /\ TokenEnd(i) = e /\ Lexeme(i, e) = t
<1>1. Len(sql) \in Nat
  BY DEF Text
<1>2. PICK n \in Nat : n = Len(t) /\ n >= 1 /\ e = i + n - 1
  BY DEF Stands, WholeLiteral, OpenLiteral, Text
<1>3. \A x \in 1..n : sql[i + x - 1] = t[x]
  BY <1>2 DEF Stands
<1>4. sql[i] = t[1] /\ sql[e] = t[n]
  <2>1. 1 \in 1..n /\ n \in 1..n /\ i + 1 - 1 = i
    BY <1>2
  <2> QED BY <1>2, <1>3, <2>1
<1>5. PICK q \in Quotes : q = t[1]
  BY DEF WholeLiteral, OpenLiteral
<1>6. PICK d \in Int : d = i - 1 /\ 2 + d = i + 1 /\ n + d = e
  BY <1>2
<1>7. \A x \in 2..n : sql[x + d] = t[x]
  <2> SUFFICES ASSUME NEW x \in 2..n PROVE sql[x + d] = t[x]
    OBVIOUS
  <2>1. x + d = i + x - 1 /\ x \in 1..n
    BY <1>6
  <2> QED BY <1>3, <2>1
<1>8. PICK last : last = QuoteEnds(q)[i + 1]
  OBVIOUS
<1>9. i + 1 \in 1..(Len(sql) + 1)
  BY <1>1
<1>10. last = e
  <2>1. CASE WholeLiteral(t)
    <3>1. PICK m \in Int : m = n - 1 /\ m + d = e - 1 /\ n >= 2
      BY <1>2, <1>6, <2>1 DEF WholeLiteral
    <3>2. Doubled(t, q, 2, m)
      BY <1>2, <1>5, <2>1, <3>1 DEF WholeLiteral
    <3>3. \A x \in 2..m : sql[x + d] = t[x]
      BY <1>7, <3>1
    <3>4. Doubled(sql, q, 2 + d, m + d)
      BY <3>2, <3>3, DoubledMoved
    <3>5. PICK b \in ((i + 1) - 1)..Len(sql) : b = e - 1 /\ b + 1 = e
      <4>1. e >= i + 1 /\ e <= Len(sql) /\ e \in Int
        BY <1>1, <1>2, <3>1
      <4>2. (i + 1) - 1 = i
        OBVIOUS
      <4>3. e - 1 \in i..Len(sql) /\ (e - 1) + 1 = e
        BY <1>1, <4>1
      <4> QED BY <4>2, <4>3
    <3>6. Doubled(sql, q, i + 1, b)
      BY <1>6, <3>1, <3>4, <3>5
    <3>7. last = QuoteEnds(q)[e]
      BY <1>8, <1>9, <3>5, <3>6, DoubledGoesOn
    <3>8. sql[e] = Closing[q]
      BY <1>2, <1>4, <1>5, <2>1 DEF WholeLiteral
    <3>9. Char(e + 1) # q
      <4>1. CASE e = Len(sql)
        <5>1. ~(e + 1 <= Len(sql))
          BY <1>1, <4>1
        <5>2. Char(e + 1) = ""
          BY <5>1 DEF Char
        <5> QED BY <5>2 DEF Quotes
      <4>2. CASE e # Len(sql)
        <5>1. e + 1 <= Len(sql) /\ sql[e + 1] \in Blanks
          BY <1>1, <4>2 DEF Stands
        <5>2. Char(e + 1) \in Blanks
          BY <5>1 DEF Char
        <5> QED BY <5>2 DEF Quotes, Blanks, NewLine
      <4> QED BY <4>1, <4>2
    <3>10. e \in 1..(Len(sql) + 2) /\ ~(e > Len(sql))
      BY <1>1
    <3>11. QuoteEnds(q)[e] = e
      BY <3>8, <3>9, <3>10, QuoteEndsIs
    <3> QED BY <3>7, <3>11
  <2>2. CASE OpenLiteral(t) /\ e = Len(sql)
    <3>1. Doubled(t, q, 2, n)
      BY <1>2, <1>5, <2>2 DEF OpenLiteral
    <3>2. Doubled(sql, q, 2 + d, n + d)
      BY <1>7, <3>1, DoubledMoved
    <3>3. Doubled(sql, q, i + 1, e) /\ e \in ((i + 1) - 1)..Len(sql)
      BY <1>1, <1>6, <3>2
    <3>4. last = QuoteEnds(q)[e + 1]
      BY <1>8, <1>9, <3>3, DoubledGoesOn
    <3> QED BY <1>1, <2>2, <3>4, QuoteEndsRange
  <2> QED BY <2>1, <2>2
<1>11. sql[i] \in Quotes /\ last = QuoteEnds(sql[i])[i + 1]
  BY <1>4, <1>5, <1>8
<1>12. IsLiteral(i, e) /\ \A j \in i..Len(sql) : IsLiteral(i, j) => j <= e
  BY <1>10, <1>11, LiteralIs
<1>13. TokenEnd(i) = e
  BY <1>11, <1>12, KindIs, TokenEndIs DEF IsToken
<1>14. Lexeme(i, e) = t
  BY <1>11, KindIs, PartAgain DEF Lexeme
<1>15. Ends(IsFormat, i) = {}
  BY <1>11, NoFormat DEF Quotes, Blanks, NewLine, Pair
<1> QED BY <1>13, <1>14, <1>15

LEMMA TokenAgain ==
  ASSUME sql \in Text, NEW i \in 1..Len(sql), NEW e \in i..Len(sql), NEW t \in Text,
         Stands(i, e, t), Whole(t) \/ (OpenLiteral(t) /\ e = Len(sql))
  PROVE  /\ Ends(IsFormat, i) = {} /\ TokenEnd(i) = e /\ Lexeme(i, e) = t
BY WordAgain, OperatorAgain, LiteralAgain DEF Whole

-----------------------------------------------------------------------------
(* A piece of a separator stays what it is. *)

LEMMA GapAgain ==
  ASSUME sql \in Text, NEW s, NEW n \in Nat, NEW m \in Nat, m + n <= Len(sql),
         \A x \in 1..n : sql[m + x] = s[x],
         NEW c \in 1..n, NEW d \in c..n, IsGap(s, c, d)
  PROVE  IsFormat(m + c, m + d)
<1>1. PICK i \in 1..Len(sql) : i = m + c
  BY DEF Text
<1>2. PICK j \in i..Len(sql) : j = m + d
  BY <1>1 DEF Text
<1>3. \A k \in c..d : m + k \in i..j /\ sql[m + k] = s[k]
  BY <1>1, <1>2
<1>4. \A k \in i..j : k - m \in c..d /\ m + (k - m) = k
  BY <1>1, <1>2
<1>5. \A k \in i..j : sql[k] = s[k - m]
  BY <1>3, <1>4
<1>6. c \in c..d /\ d \in c..d /\ (d > c => c + 1 \in c..d /\ d - 1 \in c..d)
  OBVIOUS
<1>7. sql[i] = s[c] /\ sql[j] = s[d]
  BY <1>1, <1>2, <1>3, <1>6
<1>8. d > c => sql[i + 1] = s[c + 1] /\ sql[j - 1] = s[d - 1] /\ j > i
  <2> SUFFICES ASSUME d > c PROVE sql[i + 1] = s[c + 1] /\ sql[j - 1] = s[d - 1] /\ j > i
    OBVIOUS
  <2>1. i + 1 = m + (c + 1) /\ j - 1 = m + (d - 1) /\ j > i
    BY <1>1, <1>2
  <2> QED BY <1>3, <1>6, <2>1
<1>9. CASE c = d /\ s[c] \in Blanks
  BY <1>1, <1>2, <1>7, <1>9 DEF IsFormat
<1>10. CASE /\ d > c + 1 /\ s[c] = "-" /\ s[c + 1] = "-" /\ s[d] = NewLine
            /\ \A k \in (c + 2)..(d - 1) : s[k] # NewLine
  <2>1. \A k \in (i + 2)..(j - 1) : sql[k] # NewLine
    <3> SUFFICES ASSUME NEW k \in (i + 2)..(j - 1) PROVE sql[k] # NewLine
      OBVIOUS
    <3>1. k \in i..j /\ k - m \in (c + 2)..(d - 1)
      BY <1>1, <1>2
    <3> QED BY <1>5, <1>10, <3>1
  <2>2. j > i + 1 /\ d > c /\ i + 1 <= Len(sql)
    BY <1>1, <1>2, <1>10 DEF Text
  <2>3. LineTo(i, j)
    BY <1>7, <1>8, <1>10, <2>1, <2>2 DEF LineTo, Pair
  <2> QED BY <1>1, <1>2, <2>3, LineIs DEF IsFormat
<1>11. CASE /\ d > c + 2 /\ s[c] = "/" /\ s[c + 1] = "*" /\ s[d - 1] = "*" /\ s[d] = "/"
            /\ \A k \in (c + 2)..(d - 2) : ~(s[k] = "*" /\ s[k + 1] = "/")
  <2>1. \A k \in (i + 2)..(j - 2) : ~Pair(k, "*", "/")
    <3> SUFFICES ASSUME NEW k \in (i + 2)..(j - 2), Pair(k, "*", "/") PROVE FALSE
      OBVIOUS
    <3>1. PICK x \in (c + 2)..(d - 2) : x = k - m /\ x + 1 = (k + 1) - m
      BY <1>1, <1>2
    <3>2. k \in i..j /\ k + 1 \in i..j
      BY <1>1, <1>2
    <3>3. s[x] = "*" /\ s[x + 1] = "/"
      BY <1>5, <3>1, <3>2 DEF Pair
    <3> QED BY <1>11, <3>3
  <2>2. j > i + 2 /\ d > c /\ i + 1 <= Len(sql) /\ (j - 1) + 1 = j /\ j <= Len(sql)
    BY <1>1, <1>2, <1>11 DEF Text
  <2>3. Pair(i, "/", "*") /\ Pair(j - 1, "*", "/")
    BY <1>7, <1>8, <1>11, <2>2 DEF Pair
  <2>4. BlockTo(i, j)
    BY <2>1, <2>2, <2>3, <1>8 DEF BlockTo
  <2> QED BY <1>1, <1>2, <2>4, BlockIs DEF IsFormat
<1> QED BY <1>9, <1>10, <1>11 DEF IsGap

-----------------------------------------------------------------------------
(* The invariant. *)

ScanTypeOK ==
  /\ sql \in Text
  /\ position \in Nat \ {0}
  /\ tokens \in Seq(Text)
  /\ first \in Seq(Text)
  /\ round \in {1, 2}

\* What is taken and what is ahead are the tokens of the text.
Halfway == IF position <= Len(sql) THEN tokens \o Lexemes[position] = Lexemes[1]
                                   ELSE tokens = Lexemes[1]

\* Only the last token may be a literal without end.
AllWhole(ts) == \A k \in 1..Len(ts) : Whole(ts[k]) \/ (OpenLiteral(ts[k]) /\ k = Len(ts))

\* Which then ends the text.
FirstScan ==
  round = 1 => /\ AllWhole(tokens)
               /\ position <= Len(sql) => \A k \in 1..Len(tokens) : Whole(tokens[k])

\* Where the pieces of a separator begin.
CutsOf(s) ==
  CHOOSE cuts \in SUBSET (1..(Len(s) + 1)) :
    /\ 1 \in cuts
    /\ \A i \in cuts \ {Len(s) + 1} : \E j \in i..Len(s) : j + 1 \in cuts /\ IsGap(s, i, j)

Blocks(s, ts) == [i \in DOMAIN ts |-> s \o ts[i]]

\* The second scan is in block k, at a piece of its separator or at its token.
InBlock(s, off, k, c) ==
  /\ s \in Separators /\ Laid(sql, Blocks(s, first), Len(first), off)
  /\ k \in 1..(Len(first) + 1)
  /\ Len(tokens) = k - 1 /\ \A x \in 1..(k - 1) : tokens[x] = first[x]
  /\ IF k = Len(first) + 1 THEN position = Len(sql) + 1
     ELSE c \in CutsOf(s) /\ position = off[k - 1] + c - 1

SecondScan ==
  round = 2 => AllWhole(first) /\ \E s, off, k, c : InBlock(s, off, k, c)

ScanInv == ScanTypeOK /\ Halfway /\ FirstScan /\ SecondScan

-----------------------------------------------------------------------------
(* What a round of the loop does. *)

\* It skips a format, or takes a token.
Skipping == \E j \in position..Len(sql) : IsFormat(position, j) /\ Skips(j)

LEMMA RoundIs ==
  ASSUME ScanTypeOK,
         Whitespace \/ LineComment \/ BlockComment \/ Quoted \/ Word \/ Operator
  PROVE  position \in 1..Len(sql) /\ (Skipping \/ Takes(position))
<1>1. Len(sql) \in Nat /\ sql \in Text /\ position \in Nat \ {0}
  BY DEF ScanTypeOK, Text
<1>2. position \in 1..Len(sql)
  <2> SUFFICES ASSUME position > Len(sql) PROVE FALSE
    BY <1>1
  <2>1. Ahead(2) = <<>>
    <3>1. (IF position + 2 - 1 < Len(sql) THEN position + 2 - 1 ELSE Len(sql)) = Len(sql)
      BY <1>1
    <3>2. SubSeq(sql, position, Len(sql)) = <<>>
      BY <1>1, SubSeqEmpty
    <3> QED BY <3>1, <3>2 DEF Ahead
  <2>2. ~LineStart /\ ~BlockStart
    <3>1. Ahead(Len(<<"-", "-">>)) = Ahead(2) /\ Ahead(Len(<<"/", "*">>)) = Ahead(2)
      BY DEF Ahead
    <3>2. <<>> # <<"-", "-">> /\ <<>> # <<"/", "*">>
      OBVIOUS
    <3> QED BY <2>1, <3>1, <3>2 DEF LineStart, BlockStart, Starts
  <2>3. Char(position) = ""
    <3>1. ~(position <= Len(sql))
      BY <1>1
    <3> QED BY <3>1 DEF Char
  <2>4. ~More
    BY <1>1 DEF More
  <2>5. ~Quoted /\ ~Word
    BY <2>3 DEF Quoted, Word, Quotes, Letters
  <2> QED BY <2>2, <2>4, <2>5 DEF Whitespace, LineComment, BlockComment, Operator
<1>3. CASE Whitespace \/ LineComment \/ BlockComment
  BY <1>1, <1>2, <1>3, FormatStep DEF Skipping
<1>4. CASE Quoted \/ Word \/ Operator
  BY <1>1, <1>2, <1>4, TokenStep
<1> QED BY <1>2, <1>3, <1>4

\* Facts about taking.
LEMMA TakesIs ==
  ASSUME ScanTypeOK, NEW i \in 1..Len(sql), i = position, Takes(i)
  PROVE  \E e \in i..Len(sql) : \E t \in Text :
           /\ e = TokenEnd(i) /\ t = Lexeme(i, e) /\ IsToken(i, e)
           /\ Ends(IsFormat, i) = {} /\ sql[i] \notin Blanks
           /\ tokens' = Append(tokens, t) /\ position' = e + 1
           /\ UNCHANGED <<sql, first, round>>
<1>1. PICK e \in i..Len(sql) : e = TokenEnd(i)
  BY DEF Takes
<1>2. PICK t \in Text : t = Lexeme(i, e)
  BY LexemeText DEF ScanTypeOK
<1>3. IsToken(i, e)
  BY <1>1, TokenEndRange DEF ScanTypeOK
<1>4. sql[i] \notin Blanks
  <2>1. i \in i..Len(sql)
    BY DEF ScanTypeOK, Text
  <2>2. ~IsFormat(i, i)
    BY <2>1 DEF Takes, Ends
  <2> QED BY <2>2 DEF IsFormat
<1> QED BY <1>1, <1>2, <1>3, <1>4 DEF Takes, Take

LEMMA LexemesSame ==
  ASSUME sql' = sql
  PROVE  Lexemes' = Lexemes
BY DEF Lexemes, Lexeme, Ends, FormatEnd, TokenEnd, IsFormat, IsLineComment, IsBlockComment,
       IsLiteral, IsWord, IsOperator, Part, Within, Upper

LEMMA TypeRound ==
  ASSUME ScanTypeOK, position \in 1..Len(sql), Skipping \/ Takes(position)
  PROVE  ScanTypeOK' /\ sql' = sql /\ first' = first /\ round' = round
<1>1. Len(sql) \in Nat
  BY DEF ScanTypeOK, Text
<1>2. CASE Skipping
  BY <1>1, <1>2 DEF Skipping, Skips, ScanTypeOK
<1>3. CASE Takes(position)
  <2>1. PICK i \in 1..Len(sql) : i = position
    OBVIOUS
  <2>2. PICK e \in i..Len(sql), t \in Text :
          tokens' = Append(tokens, t) /\ position' = e + 1 /\ UNCHANGED <<sql, first, round>>
    BY <1>3, <2>1, TakesIs
  <2>3. Append(tokens, t) \in Seq(Text)
    BY AppendProperties DEF ScanTypeOK
  <2> QED BY <1>1, <2>2, <2>3 DEF ScanTypeOK
<1> QED BY <1>2, <1>3

LEMMA HalfwayRound ==
  ASSUME ScanTypeOK, Halfway, position \in 1..Len(sql), Skipping \/ Takes(position)
  PROVE  Halfway'
<1>1. Len(sql) \in Nat /\ sql \in Text /\ tokens \in Seq(Text)
  BY DEF ScanTypeOK, Text
<1>2. PICK i \in 1..Len(sql) : i = position
  OBVIOUS
<1>3. sql' = sql /\ Lexemes' = Lexemes
  BY TypeRound, LexemesSame
<1>4. tokens \o Lexemes[i] = Lexemes[1]
  BY <1>2 DEF Halfway
<1>5. /\ Lexemes[i] = LexemesFrom(Lexemes, i) /\ ~(i > Len(sql)) /\ i \in 1..(Len(sql) + 1)
      /\ Lexemes[Len(sql) + 1] = <<>>
      /\ \A j \in i..Len(sql) : Lexemes[j + 1] \in Seq(Text)
  <2>1. \A k \in 1..(Len(sql) + 1) :
          Lexemes[k] \in Seq(Text) /\ Lexemes[k] = LexemesFrom(Lexemes, k)
    BY <1>1, LexemesIs
  <2>2. Len(sql) + 1 \in 1..(Len(sql) + 1) /\ Len(sql) + 1 > Len(sql)
    BY <1>1
  <2>3. Lexemes[Len(sql) + 1] = <<>>
    BY <2>1, <2>2 DEF LexemesFrom
  <2>4. /\ i \in 1..(Len(sql) + 1) /\ ~(i > Len(sql))
        /\ \A j \in i..Len(sql) : j + 1 \in 1..(Len(sql) + 1)
    BY <1>1
  <2> QED BY <2>1, <2>3, <2>4
<1>6. CASE Skipping
  <2>1. PICK j \in i..Len(sql) : IsFormat(i, j) /\ Skips(j)
    BY <1>2, <1>6 DEF Skipping
  <2>2. Lexemes[i] = Lexemes[j + 1]
    BY <1>1, <1>5, <2>1, FormatEndIs DEF LexemesFrom
  <2>3. tokens' = tokens
    BY <2>1 DEF Skips
  <2>4. CASE j < Len(sql)
    <3>1. position' = j + 1 /\ position' <= Len(sql)
      BY <1>1, <2>1, <2>4 DEF Skips
    <3> QED BY <1>3, <1>4, <2>2, <2>3, <3>1 DEF Halfway
  <2>5. CASE j = Len(sql)
    <3>1. ~(position' <= Len(sql))
      BY <1>1, <2>1, <2>5 DEF Skips
    <3>2. tokens = Lexemes[1]
      BY <1>1, <1>4, <1>5, <2>2, <2>5, ConcatEmptySeq
    <3> QED BY <1>3, <2>3, <3>1, <3>2 DEF Halfway
  <2> QED BY <1>1, <2>4, <2>5
<1>7. CASE Takes(position)
  <2>1. PICK e \in i..Len(sql), t \in Text :
          /\ e = TokenEnd(i) /\ t = Lexeme(i, e) /\ Ends(IsFormat, i) = {}
          /\ tokens' = Append(tokens, t) /\ position' = e + 1
    BY <1>2, <1>7, TakesIs
  <2>2. Lexemes[i] = <<t>> \o Lexemes[e + 1]
    BY <1>5, <2>1 DEF LexemesFrom
  <2>3. tokens' = tokens \o <<t>>
    BY <1>1, <2>1, AppendIsConcat
  <2>4. PICK rest \in Seq(Text) : rest = Lexemes[e + 1]
    BY <1>5
  <2>5. tokens' \o rest = Lexemes[1]
    <3>1. <<t>> \in Seq(Text)
      OBVIOUS
    <3>2. (tokens \o <<t>>) \o rest = tokens \o (<<t>> \o rest)
      BY <1>1, <3>1, ConcatAssociative
    <3> QED BY <1>4, <2>2, <2>3, <2>4, <3>2
  <2>6. CASE e < Len(sql)
    <3>1. position' <= Len(sql)
      BY <1>1, <2>1, <2>6
    <3> QED BY <1>3, <2>1, <2>4, <2>5, <3>1 DEF Halfway
  <2>7. CASE e = Len(sql)
    <3>1. ~(position' <= Len(sql))
      BY <1>1, <2>1, <2>7
    <3>2. tokens' \in Seq(Text) /\ rest = <<>>
      <4>1. tokens' \in Seq(Text)
        BY <1>1, <2>1, AppendProperties
      <4> QED BY <1>5, <2>4, <2>7, <4>1
    <3>3. tokens' \o <<>> = tokens'
      BY <3>2, ConcatEmptySeq
    <3> QED BY <1>3, <2>5, <3>1, <3>2, <3>3 DEF Halfway
  <2> QED BY <1>1, <2>6, <2>7
<1> QED BY <1>6, <1>7

LEMMA FirstRound ==
  ASSUME ScanTypeOK, FirstScan, position \in 1..Len(sql), Skipping \/ Takes(position)
  PROVE  FirstScan'
<1> SUFFICES ASSUME round' = 1
             PROVE  /\ AllWhole(tokens)'
                    /\ position' <= Len(sql') => \A k \in 1..Len(tokens') : Whole(tokens'[k])
  BY DEF FirstScan
<1>1. Len(sql) \in Nat /\ sql \in Text /\ tokens \in Seq(Text)
  BY DEF ScanTypeOK, Text
<1>2. sql' = sql /\ round = 1 /\ position <= Len(sql)
  BY TypeRound
<1>3. \A k \in 1..Len(tokens) : Whole(tokens[k])
  BY <1>2 DEF FirstScan
<1>4. CASE Skipping
  <2>1. tokens' = tokens
    BY <1>4 DEF Skipping, Skips
  <2> QED BY <1>3, <2>1 DEF AllWhole
<1>5. CASE Takes(position)
  <2>1. PICK i \in 1..Len(sql) : i = position
    OBVIOUS
  <2>2. PICK e \in i..Len(sql), t \in Text :
          /\ t = Lexeme(i, e) /\ IsToken(i, e) /\ sql[i] \notin Blanks
          /\ tokens' = Append(tokens, t) /\ position' = e + 1
    BY <1>5, <2>1, TakesIs
  <2>3. Whole(t) \/ (OpenLiteral(t) /\ e = Len(sql))
    BY <1>1, <2>2, LexemeWhole
  <2>4. /\ Len(tokens') = Len(tokens) + 1 /\ tokens'[Len(tokens) + 1] = t
        /\ \A k \in 1..Len(tokens) : tokens'[k] = tokens[k]
        /\ Len(tokens) \in Nat
    BY <1>1, <2>2, AppendProperties
  <2>5. \A k \in 1..Len(tokens') : k \in 1..Len(tokens) \/ k = Len(tokens')
    BY <2>4
  <2>6. e = Len(sql) => ~(position' <= Len(sql'))
    BY <1>1, <1>2, <2>2
  <2>7. \A k \in 1..Len(tokens') : Whole(tokens'[k]) \/ (k = Len(tokens') /\ tokens'[k] = t)
    BY <1>3, <2>4, <2>5
  <2> QED BY <2>3, <2>6, <2>7 DEF AllWhole
<1> QED BY <1>4, <1>5

-----------------------------------------------------------------------------
(* The second scan. *)

LEMMA CutsOfIs ==
  ASSUME NEW s, IsSeparator(s)
  PROVE  /\ CutsOf(s) \in SUBSET (1..(Len(s) + 1)) /\ 1 \in CutsOf(s)
         /\ \A i \in CutsOf(s) \ {Len(s) + 1} :
              \E j \in i..Len(s) : j + 1 \in CutsOf(s) /\ IsGap(s, i, j)
BY DEF IsSeparator, CutsOf

\* A block of the text.
Block(s, n, t, m) ==
  /\ \A x \in 1..n : sql[m + x] = s[x]
  /\ \A x \in 1..Len(t) : sql[m + n + x] = t[x]

BlockFound(s, off, k, n, h, m) ==
  /\ n = Len(s) /\ h = Len(first[k]) /\ off[k - 1] = m + 1 /\ off[k] = m + n + h + 1
  /\ m + n + h <= Len(sql)
  /\ s[1] \in Blanks /\ Block(s, n, first[k], m)

LEMMA BlockAt ==
  ASSUME FingerprintAssumption, ScanTypeOK, NEW s \in Separators, NEW off,
         Laid(sql, Blocks(s, first), Len(first), off), NEW k \in 1..Len(first)
  PROVE  \E n \in Nat \ {0}, h \in Nat, m \in Nat : BlockFound(s, off, k, n, h, m)
<1>1. /\ s \in Seq(Chars) /\ IsSeparator(s) /\ first[k] \in Text /\ Len(sql) \in Nat
      /\ Len(first) \in Nat
  BY DEF FingerprintAssumption, ScanTypeOK, Text
<1>2. s \in Text
  <2>1. Chars \subseteq Alphabet
    BY DEF Alphabet
  <2> QED BY <1>1, <2>1 DEF Text
<1>3. PICK n \in Nat \ {0} : n = Len(s)
  <2>1. s # <<>>
    BY <1>1 DEF IsSeparator
  <2> QED BY <1>1, <2>1, EmptySeq
<1>4. PICK t \in Text : t = first[k]
  BY <1>1
<1>5. PICK h \in Nat : h = Len(t)
  BY DEF Text
<1>6. Blocks(s, first)[k] = s \o t
  BY <1>4 DEF Blocks, ScanTypeOK
<1>7. PICK b \in Text : /\ b = s \o t /\ Len(b) = n + h
                        /\ \A x \in 1..n : b[x] = s[x]
                        /\ \A x \in 1..h : b[n + x] = t[x]
  <2>1. /\ s \o t \in Text /\ Len(s \o t) = n + h
        /\ \A i \in 1..(n + h) : (s \o t)[i] = IF i <= n THEN s[i] ELSE t[i - n]
    BY <1>2, <1>3, <1>5, ConcatProperties DEF Text
  <2>2. \A x \in 1..n : x \in 1..(n + h) /\ x <= n
    OBVIOUS
  <2>3. \A x \in 1..h : n + x \in 1..(n + h) /\ ~(n + x <= n) /\ (n + x) - n = x
    OBVIOUS
  <2>4. PICK b : b = s \o t
    OBVIOUS
  <2>5. \A i \in 1..(n + h) : b[i] = IF i <= n THEN s[i] ELSE t[i - n]
    BY <2>1, <2>4
  <2>6. \A x \in 1..n : b[x] = s[x]
    BY <2>2, <2>5
  <2>7. \A x \in 1..h : b[n + x] = t[x]
    BY <2>3, <2>5
  <2> QED BY <2>1, <2>4, <2>6, <2>7
<1>8. k \in 0..Len(first) /\ k - 1 \in 0..Len(first)
  BY <1>1
<1>9. PICK m \in Nat : off[k - 1] = m + 1
  <2>1. off[k - 1] \in 1..(Len(sql) + 1)
    BY <1>8 DEF Laid
  <2>2. off[k - 1] - 1 \in Nat /\ off[k - 1] = (off[k - 1] - 1) + 1
    BY <1>1, <2>1
  <2> QED BY <2>2
<1>10. off[k] = off[k - 1] + Len(b) /\ \A x \in 1..Len(b) : sql[off[k - 1] + x - 1] = b[x]
  BY <1>6, <1>7 DEF Laid
<1>11. off[k] = m + n + h + 1 /\ \A x \in 1..(n + h) : sql[m + x] = b[x]
  <2>1. \A x \in 1..(n + h) : (m + 1) + x - 1 = m + x
    OBVIOUS
  <2>2. (m + 1) + (n + h) = m + n + h + 1
    OBVIOUS
  <2> QED BY <1>7, <1>9, <1>10, <2>1, <2>2
<1>12. m + n + h <= Len(sql)
  <2>1. off[k] \in 1..(Len(sql) + 1)
    BY <1>8 DEF Laid
  <2> QED BY <1>1, <1>11, <2>1
<1>13. Block(s, n, t, m)
  <2>1. \A x \in 1..n : x \in 1..(n + h)
    OBVIOUS
  <2>2. \A x \in 1..h : n + x \in 1..(n + h) /\ m + (n + x) = m + n + x
    OBVIOUS
  <2>3. \A x \in 1..n : sql[m + x] = s[x]
    BY <1>7, <1>11, <2>1
  <2>4. \A x \in 1..h : sql[m + n + x] = t[x]
    BY <1>7, <1>11, <2>2
  <2> QED BY <1>5, <2>3, <2>4 DEF Block
<1>14. s[1] \in Blanks
  BY <1>1 DEF IsSeparator
<1> QED BY <1>3, <1>4, <1>5, <1>9, <1>11, <1>12, <1>13, <1>14 DEF BlockFound

LEMMA SecondRound ==
  ASSUME FingerprintAssumption, ScanTypeOK, AllWhole(first),
         position \in 1..Len(sql), Skipping \/ Takes(position),
         NEW s, NEW off, NEW k, NEW c, InBlock(s, off, k, c)
  PROVE  \E l, d : InBlock(s, off, l, d)'
<1>1. Len(sql) \in Nat /\ sql \in Text /\ Len(first) \in Nat /\ first \in Seq(Text)
      /\ tokens \in Seq(Text)
  BY DEF ScanTypeOK, Text
<1>2. sql' = sql /\ first' = first
  BY TypeRound
<1>3. k \in 1..Len(first) /\ s \in Separators /\ IsSeparator(s)
  BY <1>1 DEF InBlock, FingerprintAssumption
<1>4. Laid(sql, Blocks(s, first), Len(first), off)
  BY DEF InBlock
<1>4a. PICK n \in Nat \ {0}, h \in Nat, m \in Nat : BlockFound(s, off, k, n, h, m)
  BY <1>3, <1>4, BlockAt
<1>5. /\ n = Len(s) /\ h = Len(first[k]) /\ off[k - 1] = m + 1 /\ off[k] = m + n + h + 1
      /\ m + n + h <= Len(sql)
      /\ s[1] \in Blanks /\ Block(s, n, first[k], m)
  BY <1>4a DEF BlockFound
<1>6. /\ CutsOf(s) \in SUBSET (1..(n + 1)) /\ 1 \in CutsOf(s)
      /\ \A i \in CutsOf(s) \ {n + 1} : \E j \in i..n : j + 1 \in CutsOf(s) /\ IsGap(s, i, j)
  BY <1>3, <1>5, CutsOfIs
<1>7. c \in CutsOf(s) /\ c \in 1..(n + 1) /\ position = m + c
  <2>1. c \in CutsOf(s) /\ position = (m + 1) + c - 1
    <3>1. k # Len(first) + 1
      BY <1>1, <1>3
    <3> QED BY <1>5, <3>1 DEF InBlock
  <2>2. c \in 1..(n + 1)
    BY <1>6, <2>1
  <2> QED BY <2>1, <2>2
<1>8. PICK t \in Text : t = first[k] /\ h = Len(t) /\ h >= 1
                        /\ (Whole(t) \/ (OpenLiteral(t) /\ k = Len(first)))
  <2>1. PICK t \in Text : t = first[k]
    BY <1>1, <1>3
  <2>2. Whole(t) \/ (OpenLiteral(t) /\ k = Len(first))
    BY <1>3, <2>1 DEF AllWhole
  <2>3. Len(t) >= 1
    BY <1>5, <2>1, <2>2 DEF Whole, WholeWord, WholeOperator, WholeLiteral, OpenLiteral
  <2> QED BY <1>5, <2>1, <2>2, <2>3
<1>9. PICK i \in 1..Len(sql) : i = position /\ i = m + c
  BY <1>7
<1>10. Len(tokens) = k - 1 /\ \A x \in 1..(k - 1) : tokens[x] = first[x]
  BY DEF InBlock
<1>11. CASE c # n + 1
  <2>1. PICK d \in c..n : d + 1 \in CutsOf(s) /\ IsGap(s, c, d)
    BY <1>6, <1>7, <1>11
  <2>2. c \in 1..n /\ d \in 1..n
    BY <1>7, <2>1
  <2>3. IsFormat(m + c, m + d)
    <3>1. Len(sql) \in Nat /\ m + n + h <= Len(sql)
      BY <1>1, <1>5
    <3>2. m + n <= Len(sql)
      BY <3>1
    <3>3. \A x \in 1..n : sql[m + x] = s[x]
      BY <1>5 DEF Block
    <3> QED BY <1>1, <2>1, <2>2, <3>2, <3>3, GapAgain
  <2>4. PICK j \in i..Len(sql) : j = m + d /\ j < Len(sql)
    <3>1. Len(sql) \in Nat /\ m + n + h <= Len(sql) /\ h >= 1 /\ i = m + c
      BY <1>1, <1>5, <1>8, <1>9
    <3>2. m + d \in i..Len(sql) /\ m + d < Len(sql)
      BY <1>7, <3>1
    <3> QED BY <3>2
  <2>5. IsFormat(i, j)
    BY <1>9, <2>3, <2>4
  <2>6. ~Takes(position)
    BY <1>9, <2>5 DEF Takes, Ends
  <2>7. PICK l \in i..Len(sql) : IsFormat(i, l) /\ Skips(l)
    BY <1>9, <2>6 DEF Skipping
  <2>8. Skips(j)
    BY <1>1, <2>5, <2>7, FormatUnique
  <2>9. position' = m + d + 1 /\ tokens' = tokens
    BY <1>1, <2>4, <2>8 DEF Skips
  <2>10. position' = off[k - 1] + (d + 1) - 1
    BY <1>5, <2>9
  <2>11. InBlock(s, off, k, d + 1)'
    <3>1. k # Len(first) + 1 /\ k \in 1..(Len(first) + 1)
      BY <1>1, <1>3
    <3> QED BY <1>2, <1>3, <1>4, <1>10, <2>1, <2>9, <2>10, <3>1 DEF InBlock
  <2> QED BY <2>11
<1>12. CASE c = n + 1
  <2>1. PICK e \in i..Len(sql) : e = m + n + h /\ e = i + h - 1
    <3>1. Len(sql) \in Nat /\ m + n + h <= Len(sql) /\ h >= 1 /\ i = m + (n + 1)
      BY <1>1, <1>5, <1>8, <1>9, <1>12
    <3>2. m + n + h \in i..Len(sql) /\ m + n + h = i + h - 1
      BY <3>1
    <3> QED BY <3>2
  <2>2. k = Len(first) => e = Len(sql)
    <3> SUFFICES ASSUME k = Len(first) PROVE e = Len(sql)
      OBVIOUS
    <3>1. Len(sql) + 1 = m + n + h + 1
      BY <1>4, <1>5 DEF Laid
    <3>2. Len(sql) \in Nat
      BY <1>1
    <3> QED BY <2>1, <3>1, <3>2
  <2>3. k # Len(first) => sql[e + 1] \in Blanks
    <3> SUFFICES ASSUME k # Len(first) PROVE sql[e + 1] \in Blanks
      OBVIOUS
    <3>1. PICK q \in 1..Len(first) : q = k + 1 /\ q - 1 = k
      BY <1>1, <1>3
    <3>2a. PICK n2 \in Nat \ {0}, h2 \in Nat, m2 \in Nat : BlockFound(s, off, q, n2, h2, m2)
      BY <1>3, <1>4, BlockAt
    <3>2. off[q - 1] = m2 + 1 /\ s[1] \in Blanks /\ Block(s, n2, first[q], m2)
      BY <3>2a DEF BlockFound
    <3>3. m2 = e
      <4>1. m2 + 1 = m + n + h + 1
        BY <1>5, <3>1, <3>2
      <4> QED BY <2>1, <4>1
    <3>4. 1 \in 1..n2
      OBVIOUS
    <3> QED BY <3>2, <3>3, <3>4 DEF Block
  <2>4. Stands(i, e, t)
    <3>1. \A x \in 1..h : sql[m + n + x] = t[x]
      BY <1>5, <1>8 DEF Block
    <3>2. \A x \in 1..h : i + x - 1 = m + n + x
      BY <1>9, <1>12
    <3> QED BY <1>8, <2>1, <2>2, <2>3, <3>1, <3>2 DEF Stands
  <2>5. /\ Ends(IsFormat, i) = {} /\ TokenEnd(i) = e /\ Lexeme(i, e) = t
    BY <1>1, <1>8, <2>2, <2>4, TokenAgain
  <2>6. Takes(i)
    BY <1>9, <2>5 DEF Skipping, Ends
  <2>7. tokens' = Append(tokens, t) /\ position' = e + 1
    BY <2>5, <2>6 DEF Takes, Take
  <2>8. /\ Len(tokens') = k /\ tokens'[k] = t
        /\ \A x \in 1..(k - 1) : tokens'[x] = tokens[x]
    <3>1. /\ Len(Append(tokens, t)) = Len(tokens) + 1
          /\ \A x \in 1..Len(tokens) : Append(tokens, t)[x] = tokens[x]
          /\ Append(tokens, t)[Len(tokens) + 1] = t
      BY <1>1, AppendProperties
    <3>2. (k - 1) + 1 = k
      BY <1>3
    <3> QED BY <1>10, <2>7, <3>1, <3>2
  <2>9. PICK q \in 1..(Len(first) + 1) : q = k + 1 /\ q - 1 = k
    BY <1>1, <1>3
  <2>10. \A x \in 1..k : tokens'[x] = first[x]
    <3>1. \A x \in 1..k : x = k \/ x \in 1..(k - 1)
      BY <1>3
    <3> QED BY <1>8, <1>10, <2>8, <3>1
  <2>11. IF q = Len(first) + 1 THEN position' = Len(sql) + 1
         ELSE 1 \in CutsOf(s) /\ position' = off[q - 1] + 1 - 1
    <3>1. q = Len(first) + 1 => position' = Len(sql) + 1
      BY <1>1, <1>3, <2>2, <2>7, <2>9
    <3>2. position' = off[q - 1] + 1 - 1
      <4>1. position' = m + n + h + 1 /\ off[q - 1] = m + n + h + 1
        BY <1>5, <2>1, <2>7, <2>9
      <4>2. m + n + h + 1 = (m + n + h + 1) + 1 - 1
        OBVIOUS
      <4> QED BY <4>1, <4>2
    <3> QED BY <1>6, <3>1, <3>2
  <2>12. InBlock(s, off, q, 1)'
    BY <1>2, <1>3, <1>4, <2>8, <2>9, <2>10, <2>11 DEF InBlock
  <2> QED BY <2>12
<1> QED BY <1>11, <1>12

-----------------------------------------------------------------------------
(* The beginning of a scan. *)

LEMMA HalfwayStart ==
  sql \in Text /\ position = 1 /\ tokens = <<>> => Halfway
<1> SUFFICES ASSUME sql \in Text, position = 1, tokens = <<>> PROVE Halfway
  OBVIOUS
<1>1. Len(sql) \in Nat
  BY DEF Text
<1>2. 1 \in 1..(Len(sql) + 1)
  BY <1>1
<1>3. PICK all \in Seq(Text) : all = Lexemes[1] /\ Lexemes[1] = LexemesFrom(Lexemes, 1)
  BY <1>2, LexemesIs
<1>4. <<>> \o all = all
  BY ConcatEmptySeq
<1>5. ~(1 <= Len(sql)) => all = <<>>
  BY <1>1, <1>3 DEF LexemesFrom
<1> QED BY <1>3, <1>4, <1>5 DEF Halfway

LEMMA HalfwayStartNext ==
  (sql \in Text /\ position = 1 /\ tokens = <<>> => Halfway)'
BY HalfwayStart, PTL

LEMMA ReformatStep ==
  ASSUME FingerprintAssumption, ScanInv, Reformat
  PROVE  ScanInv'
<1>1. tokens \in Seq(Text) /\ Len(tokens) \in Nat
  BY DEF ScanInv, ScanTypeOK
<1>2. PICK s \in Separators : sql' = FlattenSeq(Blocks(s, tokens))
  BY DEF Reformat, Blocks
<1>3. first' = tokens /\ tokens' = <<>> /\ position' = 1 /\ round' = 2 /\ round = 1
  BY DEF Reformat
<1>4. s \in Text
  <2>1. Chars \subseteq Alphabet /\ s \in Seq(Chars)
    BY DEF Alphabet, FingerprintAssumption
  <2> QED BY <2>1 DEF Text
<1>5. Blocks(s, tokens) \in Seq(Text) /\ Len(Blocks(s, tokens)) = Len(tokens)
  <2>1. DOMAIN tokens = 1..Len(tokens)
    BY <1>1
  <2>2. \A i \in 1..Len(tokens) : s \o tokens[i] \in Text
    <3> SUFFICES ASSUME NEW i \in 1..Len(tokens) PROVE s \o tokens[i] \in Text
      OBVIOUS
    <3>1. PICK t \in Text : t = tokens[i]
      BY <1>1
    <3>2. s \o t \in Text
      BY <1>4, ConcatProperties DEF Text
    <3> QED BY <3>1, <3>2
  <2>3. Blocks(s, tokens) = [i \in 1..Len(tokens) |-> s \o tokens[i]]
    BY <2>1 DEF Blocks
  <2> QED BY <1>1, <2>2, <2>3
<1>6. sql' \in Text /\ \E off : Laid(sql', Blocks(s, tokens), Len(tokens), off)
  BY <1>2, <1>5, FlattenLaid
<1>7. PICK off : Laid(sql', Blocks(s, tokens), Len(tokens), off)
  BY <1>6
<1>8. ScanTypeOK'
  BY <1>1, <1>3, <1>6 DEF ScanTypeOK
<1>9. Halfway'
  BY <1>3, <1>6, HalfwayStartNext
<1>10. FirstScan'
  BY <1>3 DEF FirstScan
<1>11. AllWhole(first')
  BY <1>3 DEF ScanInv, FirstScan
<1>12. InBlock(s, off, 1, 1)'
  <2>1. 1 \in CutsOf(s)
    BY CutsOfIs DEF FingerprintAssumption
  <2>2. off[0] = 1 /\ off[Len(tokens)] = Len(sql') + 1
    BY <1>7 DEF Laid
  <2>3. 1 - 1 = 0 /\ 1..0 = {} /\ 1 \in 1..(Len(tokens) + 1) /\ Len(tokens') = 0
    BY <1>1, <1>3
  <2>4. IF Len(tokens) + 1 = 1 THEN position' = Len(sql') + 1
        ELSE position' = off[0] + 1 - 1
    BY <1>1, <1>3, <2>2
  <2>5. IF 1 = Len(first') + 1 THEN position' = Len(sql') + 1
        ELSE 1 \in CutsOf(s) /\ position' = off[1 - 1] + 1 - 1
    BY <1>3, <2>1, <2>3, <2>4
  <2>6. Len(tokens') = 1 - 1 /\ \A x \in 1..(1 - 1) : tokens'[x] = first'[x]
    BY <2>3
  <2> QED BY <1>3, <1>7, <2>3, <2>5, <2>6 DEF InBlock
<1>13. SecondScan'
  BY <1>11, <1>12 DEF SecondScan
<1> QED BY <1>8, <1>9, <1>10, <1>13 DEF ScanInv

LEMMA ScanStart ==
  ASSUME FingerprintAssumption, ScanInit
  PROVE  ScanInv
<1>1. sql \in Text
  <2>1. PICK m \in 0..MaxLength : sql \in [1..m -> Chars]
    BY DEF ScanInit, SeqOf
  <2>2. m \in Nat
    BY DEF FingerprintAssumption
  <2>3. sql \in Seq(Chars)
    BY <2>1, <2>2
  <2>4. Chars \subseteq Alphabet
    BY DEF Alphabet
  <2> QED BY <2>3, <2>4 DEF Text
<1>2. position = 1 /\ tokens = <<>> /\ first = <<>> /\ round = 1
  BY DEF ScanInit, AtStart
<1>3. ScanTypeOK
  BY <1>1, <1>2 DEF ScanTypeOK
<1>4. Halfway
  BY <1>1, <1>2, HalfwayStart
<1>5. FirstScan /\ SecondScan
  BY <1>2 DEF FirstScan, SecondScan, AllWhole
<1> QED BY <1>3, <1>4, <1>5 DEF ScanInv

LEMMA ScanStep ==
  ASSUME FingerprintAssumption, ScanInv, [ScanNext]_sqlVars
  PROVE  ScanInv'
<1>1. CASE Reformat
  BY <1>1, ReformatStep
<1>2. CASE Whitespace \/ LineComment \/ BlockComment \/ Quoted \/ Word \/ Operator
  <2>1. position \in 1..Len(sql) /\ (Skipping \/ Takes(position))
    BY <1>2, RoundIs DEF ScanInv
  <2>2. ScanTypeOK' /\ first' = first /\ round' = round
    BY <2>1, TypeRound DEF ScanInv
  <2>3. Halfway' /\ FirstScan'
    BY <2>1, HalfwayRound, FirstRound DEF ScanInv
  <2>4. SecondScan'
    <3> SUFFICES ASSUME round = 2 PROVE SecondScan'
      BY <2>2 DEF SecondScan
    <3>1. PICK s, off, k, c : InBlock(s, off, k, c)
      BY DEF ScanInv, SecondScan
    <3>2. AllWhole(first)
      BY DEF ScanInv, SecondScan
    <3>3. \E l, d : InBlock(s, off, l, d)'
      BY <2>1, <3>1, <3>2, SecondRound DEF ScanInv
    <3> QED BY <2>2, <3>2, <3>3 DEF SecondScan
  <2> QED BY <2>2, <2>3, <2>4 DEF ScanInv
<1>3. CASE UNCHANGED sqlVars
  <2>1. sql' = sql /\ position' = position /\ tokens' = tokens /\ first' = first /\ round' = round
    BY <1>3 DEF sqlVars
  <2>2. Lexemes' = Lexemes
    BY <2>1, LexemesSame
  <2>3. ScanTypeOK' /\ Halfway' /\ FirstScan'
    BY <2>1, <2>2 DEF ScanInv, ScanTypeOK, Halfway, FirstScan
  <2>4. SecondScan'
    BY <2>1 DEF ScanInv, SecondScan, InBlock
  <2> QED BY <2>3, <2>4 DEF ScanInv
<1> QED BY <1>1, <1>2, <1>3 DEF ScanNext

LEMMA ScanEnd ==
  ASSUME FingerprintAssumption, ScanInv
  PROVE  TokensAreLexemes
<1>1. /\ Len(sql) \in Nat /\ sql \in Text /\ Len(first) \in Nat /\ first \in Seq(Text)
      /\ tokens \in Seq(Text) /\ position \in Nat
  BY DEF ScanInv, ScanTypeOK, Text
<1>2. TokensMatch
  BY <1>1 DEF ScanInv, Halfway, TokensMatch, Scanned
<1>3. ASSUME Scanned, round = 2 PROVE tokens = first
  <2>1. PICK s, off, k, c : InBlock(s, off, k, c)
    BY <1>3 DEF ScanInv, SecondScan
  <2>2. k = Len(first) + 1
    <3> SUFFICES ASSUME k # Len(first) + 1 PROVE FALSE
      OBVIOUS
    <3>1. k \in 1..Len(first) /\ s \in Separators /\ Laid(sql, Blocks(s, first), Len(first), off)
          /\ c \in CutsOf(s) /\ position = off[k - 1] + c - 1
      BY <1>1, <2>1 DEF InBlock
    <3>2a. PICK n \in Nat \ {0}, h \in Nat, m \in Nat : BlockFound(s, off, k, n, h, m)
      BY <3>1, BlockAt DEF ScanInv
    <3>2. n = Len(s) /\ h = Len(first[k]) /\ off[k - 1] = m + 1 /\ m + n + h <= Len(sql)
      BY <3>2a DEF BlockFound
    <3>3. c \in 1..(n + 1)
      BY <3>1, <3>2, CutsOfIs DEF FingerprintAssumption
    <3>4. h >= 1
      <4>1. PICK t \in Text : t = first[k]
        BY <1>1, <3>1
      <4>2. Whole(t) \/ OpenLiteral(t)
        BY <1>3, <3>1, <4>1 DEF ScanInv, SecondScan, AllWhole
      <4>3. Len(t) >= 1
        BY <3>2, <4>1, <4>2 DEF Whole, WholeWord, WholeOperator, WholeLiteral, OpenLiteral
      <4> QED BY <3>2, <4>1, <4>3
    <3>5. position = (m + 1) + c - 1 /\ position > Len(sql)
      BY <1>3, <3>1, <3>2 DEF Scanned
    <3>6. PICK l \in Nat : l = Len(sql)
      BY <1>1
    <3>7. m + n + h <= l /\ (m + 1) + c - 1 > l
      BY <3>2, <3>5, <3>6
    <3> QED BY <3>3, <3>4, <3>7
  <2>3. Len(tokens) = k - 1 /\ \A x \in 1..(k - 1) : tokens[x] = first[x]
    BY <2>1 DEF InBlock
  <2>4. Len(tokens) = Len(first) /\ \A x \in 1..Len(tokens) : tokens[x] = first[x]
    <3>1. k - 1 = Len(first)
      BY <1>1, <2>2
    <3> QED BY <2>3, <3>1
  <2> QED BY <1>1, <2>4, SeqEqual
<1> QED BY <1>2, <1>3 DEF TokensAreLexemes, FormatIgnored

\* TokensAreLexemes (_normalize_schema_sql, storage.py): for every alphabet and every set
\* of separators, whatever the text, the scanner finds its longest-match lexemes, and the
\* same ones when white space and comments between them change.
THEOREM LexemesCorrect ==
  ASSUME FingerprintAssumption
  PROVE  ScanSpec => []TokensAreLexemes
<1>1. ScanInit => ScanInv
  BY ScanStart
<1>2. ScanInv /\ [ScanNext]_sqlVars => ScanInv'
  BY ScanStep
<1>3. ScanInv => TokensAreLexemes
  BY ScanEnd
<1> QED BY <1>1, <1>2, <1>3, PTL DEF ScanSpec
=============================================================================
