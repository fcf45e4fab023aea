----------------------------- MODULE MCAlgorithms -----------------------------
(***************************************************************************)
(* The three algorithms on data for TLC: a behaviour is one of Timestamps, *)
(* JsonShape or SchemaFingerprint, and what belongs to the others stays as *)
(* it is.                                                                  *)
(***************************************************************************)
EXTENDS Timestamps, JsonShape, SchemaFingerprint

CONSTANTS c1, c2, c3  \* model values: containers

VARIABLE part  \* the algorithm of this behaviour

SqlChars == {"a", "'", "[", "]", "-", ">", "/", "*", " ", "\n"}

\* A line break; a comment to the end of the line; a block comment with a quote in it.
SomeSeparators == {<<"\n">>, <<" ", "-", "-", "'", " ", "\n">>, <<"\n", "/", "*", "[", "*", "/">>}

ASSUME AlgorithmsAssumption ==
  TimestampsAssumption /\ JsonAssumption /\ FingerprintAssumption

NoValue ==
  /\ nesting = CHOOSE n \in Nestings : TRUE
  /\ items = [c \in Containers |-> <<>>]
  /\ NotBegun

NoSql == sql = <<>> /\ AtStart

Init ==
  /\ \/ part = "timestamps" /\ NoValue /\ NoSql
     \/ part = "json" /\ JsonInit /\ NoSql
     \/ part = "sql" /\ NoValue /\ ScanInit
  /\ TimeInit

TimeStep == part = "timestamps" /\ TimeNext /\ UNCHANGED <<part, jsonVars, sqlVars>>

JsonStep == part = "json" /\ JsonNext /\ UNCHANGED <<part, timeVars, sqlVars>>

SqlStep == part = "sql" /\ ScanNext /\ UNCHANGED <<part, timeVars, jsonVars>>

Next == TimeStep \/ JsonStep \/ SqlStep

Spec == Init /\ [][Next]_<<part, timeVars, jsonVars, sqlVars>>
=============================================================================
