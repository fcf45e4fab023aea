SPECIFICATION FairRunnerSpec
CONSTANTS
  r1 = r1
  r2 = r2
  r3 = r3
  w1 = w1
  w2 = w2
  t1 = t1
  t2 = t2
  None = None
  WatchIds = {w1, w2}
  Runs = {r1, r2, r3}
  WatchOf <- SecondIsOther
  Tasks = {t1, t2}
  Serves <- OneEach
  Manual = {w1}
  Workers = 1
  MaxFires = 2
  MaxCancels = 1
  TriggerFails = TRUE
  Faults = {"observe"}
  ObserverAttempts = 1
  ObservedTimes = {1}
  MaxDrafts = 0
  MaxEvents = 0
  MaxAttempts = 1
  BatchSize = 1
INVARIANTS
  FiresAccounted
  OverlapNeedsCancellation
PROPERTIES
  RunsAsRunOnce
  StopEndsServe
  FiresAreServed
CHECK_DEADLOCK FALSE
