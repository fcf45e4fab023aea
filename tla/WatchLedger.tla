----------------------------- MODULE WatchLedger -----------------------------
(***************************************************************************)
(* What run_once and the store promise to the policy and to the readers of *)
(* evidence: evidence is only ever added, and the transitions of a watch   *)
(* are a log whose entries are judged one at a time, each against the      *)
(* state the entry before established, in the order of observation.        *)
(***************************************************************************)
EXTENDS Integers, Sequences

CONSTANTS Watches, Ids, None

VARIABLES
  evidence,  \* the observation stored under each id, or Absent
  log        \* the transitions of each watch: previous, current, events

vars == <<evidence, log>>

Absent == [watch |-> None, status |-> "ABSENT", observed_at |-> 0]

Init ==
  /\ evidence = [i \in Ids |-> Absent]
  /\ log = [w \in Watches |-> <<>>]

LastOf(w) == IF log[w] = <<>> THEN None ELSE log[w][Len(log[w])].current

Record(i, w, status, t) ==
  /\ evidence[i] = Absent
  /\ evidence' = [evidence EXCEPT ![i] =
                    [watch |-> w, status |-> status, observed_at |-> t]]
  /\ UNCHANGED log

Transition(i, n) ==
  /\ evidence[i].status = "VALID"
  /\ LET w == evidence[i].watch IN
     /\ LastOf(w) # None => evidence[LastOf(w)].observed_at < evidence[i].observed_at
     /\ log' = [log EXCEPT ![w] =
                  Append(@, [previous |-> LastOf(w), current |-> i, drafts |-> n])]
  /\ UNCHANGED evidence

\* Values an observation may have, and event counts, are left to the user.
CONSTANTS Statuses, Times, Counts

Next ==
  \E i \in Ids :
    \/ \E w \in Watches, s \in Statuses, t \in Times : Record(i, w, s, t)
    \/ \E n \in Counts : Transition(i, n)

Spec == Init /\ [][Next]_vars
=============================================================================
