------------------------------ MODULE StoreOpen ------------------------------
(***************************************************************************)
(* SQLiteStore.__init__ (storage.py): how openers of one path take an      *)
(* existing database over, refuse it, or build the schema in an empty one. *)
(* Each step below is one system call or one statement on the database;    *)
(* the DDL and the version row are one transaction.                        *)
(*                                                                         *)
(* "foreign" is every database the validators reject: someone else's       *)
(* tables, another version, an altered layout, constraint or index.        *)
(* "irregular" is whatever is not one regular file of its own: a symbolic  *)
(* link, a directory, a file with further hard links.                      *)
(***************************************************************************)
EXTENDS Naturals, FiniteSets

CONSTANTS
  Openers,          \* the constructions of a SQLiteStore on the path
  InitialContents,  \* what the path may hold before
  Overlapping,      \* whether one may begin while another is under way
  MaxCrashes        \* bound: openers cut short by a crash or an exception

Contents == {"absent", "empty", "engine", "foreign", "irregular"}

ASSUME OpenAssumption ==
  /\ InitialContents \subseteq Contents
  /\ Overlapping \in BOOLEAN
  /\ MaxCrashes \in Nat

VARIABLES
  content,   \* what the path holds
  metaRows,  \* the rows of schema_meta
  touched,   \* whether permissions or journal mode were changed
  step,      \* where each opener is in __init__
  crashes

vars == <<content, metaRows, touched, step, crashes>>

UnderWay == {"inspect", "secure", "initialize", "create"}

Init ==
  /\ content \in InitialContents
  /\ metaRows = IF content = "engine" THEN 1 ELSE 0
  /\ touched = FALSE
  /\ step = [o \in Openers |-> "closed"]
  /\ crashes = 0

GoTo(o, s) == step' = [step EXCEPT ![o] = s]

Irregular == content = "irregular"

\* What both validations reject: schema_meta must hold one row, and the rest be as built.
Rejected == content = "foreign" \/ (content = "engine" /\ metaRows # 1)

-----------------------------------------------------------------------------
\* _prepare_database_file: O_CREAT | O_EXCL decides who creates the file, and what is
\* there must be a regular file with a single link.
Prepare(o) ==
  /\ step[o] = "closed"
  /\ Overlapping \/ \A p \in Openers : step[p] \notin UnderWay
  /\ content' = IF content = "absent" THEN "empty" ELSE content
  /\ GoTo(o, IF content = "absent" THEN "secure" ELSE IF Irregular THEN "refused" ELSE "inspect")
  /\ UNCHANGED <<metaRows, touched, crashes>>

\* Mutant: the read-only validation accepts everything.
Inspect_AcceptsAll(o) ==
  /\ step[o] = "inspect"
  /\ GoTo(o, "secure")
  /\ UNCHANGED <<content, metaRows, touched, crashes>>

\* _validate_existing_database_read_only.
Inspect(o) ==
  /\ step[o] = "inspect"
  /\ GoTo(o, IF Rejected THEN "refused" ELSE "secure")
  /\ UNCHANGED <<content, metaRows, touched, crashes>>

\* _secure_database_files and the write pragmas of _connect.
Secure(o) ==
  /\ step[o] = "secure"
  /\ touched' = TRUE
  /\ GoTo(o, "initialize")
  /\ UNCHANGED <<content, metaRows, crashes>>

\* Mutant: an empty database is taken for someone else's.
ReadSchema_RefusesEmpty(o) ==
  /\ step[o] = "initialize"
  /\ GoTo(o, IF Rejected \/ content = "empty" THEN "refused" ELSE "open")
  /\ UNCHANGED <<content, metaRows, touched, crashes>>

\* _initialize reads the schema objects before it begins any transaction, and
\* validates again, or finds the database empty.
ReadSchema(o) ==
  /\ step[o] = "initialize"
  /\ GoTo(o, IF Rejected THEN "refused"
             ELSE IF content = "empty" THEN "create" ELSE "open")
  /\ UNCHANGED <<content, metaRows, touched, crashes>>

\* Mutant: the DDL commits without the version row.
CreateSchema_WithoutRow(o) ==
  /\ step[o] = "create"
  /\ content' = "engine"
  /\ GoTo(o, "open")
  /\ UNCHANGED <<metaRows, touched, crashes>>

\* CREATE TABLE IF NOT EXISTS for every table, then INSERT INTO schema_meta:
\* one transaction, which does not look at the schema again.
CreateSchema(o) ==
  /\ step[o] = "create"
  /\ content' = "engine"
  /\ metaRows' = metaRows + 1
  /\ GoTo(o, "open")
  /\ UNCHANGED <<touched, crashes>>

\* The process dies or an exception ends __init__; an open transaction is rolled
\* back.  The application may construct the store again.
Crash(o) ==
  /\ step[o] \in UnderWay
  /\ crashes < MaxCrashes
  /\ crashes' = crashes + 1
  /\ GoTo(o, "closed")
  /\ UNCHANGED <<content, metaRows, touched>>

\* The owner stops; a later construction finds the file as it is.
Close(o) ==
  /\ step[o] = "open"
  /\ GoTo(o, "closed")
  /\ UNCHANGED <<content, metaRows, touched, crashes>>

Open(o) == Prepare(o) \/ Inspect(o) \/ Secure(o) \/ ReadSchema(o) \/ CreateSchema(o)

Next == \E o \in Openers : Open(o) \/ Crash(o) \/ Close(o)

\* An application that wants a store keeps constructing it until it has one.
Fairness == \A o \in Openers : WF_vars(Open(o))

Spec     == Init /\ [][Next]_vars
FairSpec == Spec /\ Fairness

-----------------------------------------------------------------------------
\* schema_meta holds exactly one row once the schema exists, through any crash
\* and retry of its creation; otherwise every later opening is refused.
SchemaMetaSingleRow == content = "engine" => metaRows = 1

\* What the checks of the file or the validators reject is refused before anything of it
\* is changed, permissions and journal mode included.
RejectedUntouched == Irregular \/ Rejected => ~touched

\* An absent or empty database is initialized in the end: a crash at any point of
\* its creation leaves one the next construction can still build.
EmptyBecomesUsable == (content \in {"absent", "empty"}) ~> (content = "engine" /\ metaRows = 1)
=============================================================================
