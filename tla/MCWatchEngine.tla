---------------------------- MODULE MCWatchEngine ----------------------------
(* WatchEngine for TLC. *)
EXTENDS WatchEngine, RetryPolicy

CONSTANTS r1, r2, r3, w1, w2, d1   \* model values
OneWatch   == [r \in Runs |-> w1]
TwoWatches == [r \in Runs |-> IF r = r1 THEN w1 ELSE w2]

MCDelay == [n \in 1..MaxAttempts |-> DelayForFailure(n)]
=============================================================================
