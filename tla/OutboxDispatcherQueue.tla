------------------------ MODULE OutboxDispatcherQueue ------------------------
(***************************************************************************)
(* The refinement mapping from OutboxDispatcher to the abstract queue      *)
(* AtLeastOnce, which a single owner of the outbox implements.             *)
(***************************************************************************)
EXTENDS OutboxDispatcher

FailuresOf(e) == {r \in AttemptsOf(e) : r.status = "FAILED"}

Queue == INSTANCE AtLeastOnce WITH
  Events   <- EventIds,
  state    <- [e \in EventIds |->
                 CASE outbox[e].status = "ABSENT"       -> "new"
                   [] outbox[e].status \in Undelivered  -> "queued"
                   [] outbox[e].status = "DELIVERED"    -> "delivered"
                   [] outbox[e].status = "DEAD"         -> "dead"],
  failures <- [e \in EventIds |-> Cardinality(FailuresOf(e))]

\* dispatch_ready over the outbox implements the abstract at-least-once queue:
\* the sink is offered queued events only, and every outcome is accounted for.
ImplementsAtLeastOnce == Queue!Spec
=============================================================================
