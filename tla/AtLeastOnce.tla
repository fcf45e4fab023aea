----------------------------- MODULE AtLeastOnce -----------------------------
(***************************************************************************)
(* What the outbox and its dispatcher promise to the producer and to the   *)
(* sink: an event that is queued stays queued until the sink has accepted  *)
(* it or has failed MaxAttempts times, the sink is offered queued events   *)
(* only, and it may accept one more than once.                             *)
(***************************************************************************)
EXTENDS Integers

CONSTANTS Events, MaxAttempts

VARIABLES
  state,     \* "new", "queued", "delivered" or "dead", for each event
  failures,  \* how many failures count against each event
  accepted   \* how often the sink accepted each event

vars == <<state, failures, accepted>>

Init ==
  /\ state = [e \in Events |-> "new"]
  /\ failures = [e \in Events |-> 0]
  /\ accepted = [e \in Events |-> 0]

Enqueue(S) ==
  /\ \A e \in S : state[e] = "new"
  /\ state' = [e \in Events |-> IF e \in S THEN "queued" ELSE state[e]]
  /\ UNCHANGED <<failures, accepted>>

Accept(e) ==
  /\ state[e] = "queued"
  /\ accepted' = [accepted EXCEPT ![e] = @ + 1]
  /\ UNCHANGED <<state, failures>>

Confirm(e) ==
  /\ state[e] = "queued"
  /\ accepted[e] > 0
  /\ state' = [state EXCEPT ![e] = "delivered"]
  /\ UNCHANGED <<failures, accepted>>

Fail(e) ==
  /\ state[e] = "queued"
  /\ failures' = [failures EXCEPT ![e] = @ + 1]
  /\ state' = IF failures[e] + 1 = MaxAttempts
              THEN [state EXCEPT ![e] = "dead"] ELSE state
  /\ UNCHANGED accepted

Next ==
  \/ \E S \in SUBSET Events : Enqueue(S)
  \/ \E e \in Events : Accept(e) \/ Confirm(e) \/ Fail(e)

Spec == Init /\ [][Next]_vars
=============================================================================
