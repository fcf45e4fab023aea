---------------------------- MODULE MCWatchRuntime ----------------------------
(* WatchRuntime for TLC. *)
EXTENDS WatchRuntimeLedger

CONSTANTS r1, r2, r3, w1   \* model values
OneWatch == [r \in Runs |-> w1]
AnyFault == AllFaults
=============================================================================
