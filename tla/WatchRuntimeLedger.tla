-------------------------- MODULE WatchRuntimeLedger --------------------------
(***************************************************************************)
(* The refinement mapping from WatchRuntime to the abstract ledger of      *)
(* evidence and transitions, WatchLedger.                                  *)
(***************************************************************************)
EXTENDS WatchRuntime

Evidence ==
  [r \in Runs |->
     IF Stored(r) THEN [watch       |-> WatchOf[r],
                        status      |-> observations[r].status,
                        observed_at |-> observations[r].observed_at]
                  ELSE [watch |-> None, status |-> "ABSENT", observed_at |-> 0]]

\* The clock stands still in this module: a run that gives up reports 0.
Log == INSTANCE WatchLedger WITH
  Watches  <- WatchIds,
  Ids      <- Runs,
  Times    <- ObservedTimes \cup {0},
  Counts   <- 0..MaxDrafts,
  evidence <- Evidence,
  log      <- ledger

\* run_once over the store implements the ledger: evidence is never lost, and the
\* policy always judges against the latest transition.
ImplementsLedger == Log!Spec
=============================================================================
