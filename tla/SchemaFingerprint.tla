-------------------------- MODULE SchemaFingerprint --------------------------
(***************************************************************************)
(* _normalize_schema_sql (storage.py): the scanner that turns the SQL of a *)
(* schema object into the tokens its fingerprint is made of.  One action   *)
(* is one round of its loop.  When it is done, the tokens are written out  *)
(* again with some separator between them and scanned a second time.       *)
(***************************************************************************)
EXTENDS Integers, Sequences, SequencesExt, FiniteSetsExt

CONSTANTS
  Chars,      \* the characters of the texts
  MaxLength,  \* bound: their length
  Separators  \* what may stand between two tokens: white space and comments

NewLine == "\n"
Blanks  == {NewLine, " "}
Quotes  == {"'", "["}
Closing == [q \in Quotes |-> IF q = "[" THEN "]" ELSE q]
Letters == {"a", "A"}
Upper(c) == IF c = "a" THEN "A" ELSE c

\* A piece of a separator: white space, or a comment that ends.
IsGap(s, i, j) ==
  \/ i = j /\ s[i] \in Blanks
  \/ /\ j > i + 1 /\ s[i] = "-" /\ s[i + 1] = "-" /\ s[j] = NewLine
     /\ \A k \in (i + 2)..(j - 1) : s[k] # NewLine
  \/ /\ j > i + 2 /\ s[i] = "/" /\ s[i + 1] = "*" /\ s[j - 1] = "*" /\ s[j] = "/"
     /\ \A k \in (i + 2)..(j - 2) : ~(s[k] = "*" /\ s[k + 1] = "/")

\* A separator consists of such pieces, one behind the other, where `cuts' are.  It
\* begins with white space: a comment next to an operator could join it.
IsSeparator(s) ==
  /\ s # <<>> /\ s[1] \in Blanks
  /\ \E cuts \in SUBSET (1..(Len(s) + 1)) :
       /\ 1 \in cuts
       /\ \A i \in cuts \ {Len(s) + 1} : \E j \in i..Len(s) : j + 1 \in cuts /\ IsGap(s, i, j)

\* What the constants must satisfy.
FingerprintAssumption ==
  /\ MaxLength \in Nat
  /\ Separators \subseteq Seq(Chars)
  /\ \A s \in Separators : IsSeparator(s)

VARIABLES
  sql,       \* the text, a sequence of characters
  position,  \* of the next character
  tokens,
  first,     \* the tokens of the first scan
  round      \* which scan it is

sqlVars == <<sql, position, tokens, first, round>>

AtStart ==
  /\ position = 1
  /\ tokens = <<>>
  /\ first = <<>>
  /\ round = 1

ScanInit == sql \in SeqOf(Chars, MaxLength) /\ AtStart

-----------------------------------------------------------------------------
More       == position <= Len(sql)
Char(i)    == IF i <= Len(sql) THEN sql[i] ELSE ""
Ahead(n)   == SubSeq(sql, position, IF position + n - 1 < Len(sql) THEN position + n - 1
                                                                  ELSE Len(sql))
Starts(s)  == Ahead(Len(s)) = s
LineStart  == Starts(<<"-", "-">>)
BlockStart == Starts(<<"/", "*">>)
Operators  == {<<"-", ">", ">">>, <<"-", ">">>, <<">", ">">>}

\* str.find, from an index: the first match, or the length of the text plus 1.
Find(s, from) ==
  LET at == {i \in from..(Len(sql) - Len(s) + 1) : SubSeq(sql, i, i + Len(s) - 1) = s}
  IN  IF at = {} THEN Len(sql) + 1 ELSE Min(at)

Take(last, token) ==
  /\ tokens' = Append(tokens, token)
  /\ position' = last + 1
  /\ UNCHANGED <<sql, first, round>>

Skip(last) ==
  /\ position' = last + 1
  /\ UNCHANGED <<sql, tokens, first, round>>

Whitespace == More /\ Char(position) \in Blanks /\ Skip(position)

LineComment == LineStart /\ Skip(Find(<<NewLine>>, position + 2))

\* Mutant: the star of the opening also closes.
BlockComment_SharedStar ==
  /\ BlockStart
  /\ Skip(Find(<<"*", "/">>, position + 1) + 1)

BlockComment ==
  /\ BlockStart
  /\ Skip(Find(<<"*", "/">>, position + 2) + 1)

\* Where a literal ends, from each of its positions: a closing quote that is not doubled
\* (a bracket cannot be), or the end of the text.
QuoteEnds(q) ==
  LET end[i \in 1..(Len(sql) + 2)] ==
        IF i > Len(sql) THEN Len(sql)
        ELSE IF sql[i] # Closing[q] THEN end[i + 1]
        ELSE IF q # "[" /\ Char(i + 1) = q THEN end[i + 2]
        ELSE i
  IN  end

QuoteEnd(q) == QuoteEnds(q)[position + 1]

Quoted ==
  /\ Char(position) \in Quotes
  /\ LET last == QuoteEnd(Char(position))
     IN  Take(last, SubSeq(sql, position, last))

Word ==
  /\ Char(position) \in Letters
  /\ LET after == {i \in position..(Len(sql) + 1) : Char(i) \notin Letters}
         last  == Min(after) - 1
     IN  Take(last, [i \in 1..(last - position + 1) |-> Upper(sql[position + i - 1])])

\* The longest operator, or a single character.
Operator ==
  /\ More /\ Char(position) \notin Quotes \cup Letters \cup Blanks
  /\ ~LineStart /\ ~BlockStart
  /\ LET n == IF Ahead(3) = <<"-", ">", ">">> THEN 3 ELSE IF Ahead(2) \in Operators THEN 2 ELSE 1
     IN  Take(position + n - 1, Ahead(n))

Scanned == position > Len(sql)

\* The same tokens in another format.
Reformat ==
  /\ Scanned /\ round = 1
  /\ \E s \in Separators :
       sql' = FlattenSeq([i \in DOMAIN tokens |-> s \o tokens[i]])
  /\ first' = tokens
  /\ tokens' = <<>>
  /\ position' = 1
  /\ round' = 2

ScanNext == Whitespace \/ LineComment \/ BlockComment \/ Quoted \/ Word \/ Operator \/ Reformat

ScanSpec == ScanInit /\ [][ScanNext]_sqlVars

-----------------------------------------------------------------------------
(* The reference: the tokens by what they look like, longest match first. *)

Part(i, j)      == IF i \in 1..j /\ j <= Len(sql) THEN SubSeq(sql, i, j) ELSE <<>>
Within(s, i, j) == \E k \in i..(j - Len(s) + 1) : Part(k, k + Len(s) - 1) = s

IsLineComment(i, j) ==
  /\ Part(i, i + 1) = <<"-", "-">> /\ j > i
  /\ ~Within(<<NewLine>>, i + 2, j - 1)
  /\ (j > i + 1 /\ sql[j] = NewLine) \/ j = Len(sql)

IsBlockComment(i, j) ==
  /\ Part(i, i + 1) = <<"/", "*">> /\ j > i
  /\ ~Within(<<"*", "/">>, i + 2, j - 1)
  /\ (j > i + 2 /\ Part(j - 1, j) = <<"*", "/">>) \/ j = Len(sql)

IsFormat(i, j) == IsLineComment(i, j) \/ IsBlockComment(i, j) \/ (i = j /\ sql[i] \in Blanks)

\* From i to j, each run of closing quotes has an even length: they are doubled.  A
\* bracket cannot be doubled.
Doubled(s, q, i, j) ==
  IF q = "[" THEN \A k \in i..j : s[k] # Closing[q]
  ELSE \A a \in i..j : \A b \in a..j :
         /\ \A k \in a..b : s[k] = q
         /\ a > i => s[a - 1] # q
         /\ b < j => s[b + 1] # q
         => (b - a) % 2 = 1

\* A literal has an end, or the text has.
IsLiteral(i, j) ==
  LET q == sql[i]
  IN  /\ q \in Quotes
      /\ \/ j > i /\ sql[j] = Closing[q] /\ Doubled(sql, q, i + 1, j - 1)
         \/ j = Len(sql) /\ Doubled(sql, q, i + 1, j)

IsWord(i, j) == \A k \in i..j : sql[k] \in Letters

IsOperator(i, j) ==
  \/ Part(i, j) \in Operators
  \/ i = j /\ sql[i] \notin Quotes \cup Letters

Ends(Is(_, _), i) == {j \in i..Len(sql) : Is(i, j)}

\* The longest format or token that begins at a position, its end.
FormatEnd(i) == Max(Ends(IsFormat, i))
TokenEnd(i)  == Max(Ends(IsLiteral, i) \cup Ends(IsWord, i) \cup Ends(IsOperator, i))

Lexeme(i, j) == IF IsWord(i, j) THEN [k \in 1..(j - i + 1) |-> Upper(sql[i + k - 1])]
                                ELSE Part(i, j)

\* The tokens from each position on.
Lexemes ==
  LET from[i \in 1..(Len(sql) + 1)] ==
        IF i > Len(sql) THEN <<>>
        ELSE IF Ends(IsFormat, i) # {} THEN from[FormatEnd(i) + 1]
        ELSE <<Lexeme(i, TokenEnd(i))>> \o from[TokenEnd(i) + 1]
  IN  from

\* The scanner finds the tokens of the text, each whole and nothing of a comment:
\* where words, doubled quotes, operators and comments begin and end is not blurred.
TokensMatch == Scanned => tokens = Lexemes[1]

\* Two texts with the same tokens in different format have the same fingerprint.
FormatIgnored == Scanned /\ round = 2 => tokens = first

\* The tokens of _normalize_schema_sql are the longest-match lexemes of the text, and
\* those of reformatted text are the same.
TokensAreLexemes == TokensMatch /\ FormatIgnored
=============================================================================
