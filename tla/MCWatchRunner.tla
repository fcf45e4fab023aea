---------------------------- MODULE MCWatchRunner ----------------------------
(* WatchRunner for TLC: a task with a ManualTrigger and one with a timed *)
(* trigger.                                                              *)
EXTENDS WatchRunner

CONSTANTS r1, r2, r3, w1, w2, t1, t2   \* model values

SecondIsOther == [r \in Runs |-> IF r = r2 THEN w2 ELSE w1]
OneEach       == [t \in Tasks |-> IF t = t2 THEN w2 ELSE w1]
=============================================================================
