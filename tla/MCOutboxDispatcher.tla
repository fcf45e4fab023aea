-------------------------- MODULE MCOutboxDispatcher --------------------------
(* OutboxDispatcher for TLC: delays from the retry policy. *)
EXTENDS OutboxDispatcherQueue, RetryPolicy

CONSTANTS d1, d2   \* model values
OneOwner  == {d1}
TwoOwners == {d1, d2}

MCDelay == [n \in 1..MaxAttempts |-> DelayForFailure(n)]
=============================================================================
