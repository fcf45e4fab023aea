SPECIFICATION FairSpec
CONSTANTS
  r1 = r1
  r2 = r2
  r3 = r3
  w1 = w1
  None = None
  WatchIds = {w1}
  Runs = {r1, r2, r3}
  WatchOf <- OneWatch
  Faults <- AnyFault
  ObserverAttempts = 1
  ObservedTimes = {1, 2}
  MaxDrafts = 1
  MaxEvents = 3
  MaxAttempts = 1
  BatchSize = 1
INVARIANTS
  TypeOK
  ExecutionsCounted
  AuthorityIsNewest
  TransitionsChain
  PromotionIsAtomic
  RunningIsExplained
PROPERTIES
  ImplementsLedger
  RunStatusSettles
CHECK_DEADLOCK FALSE
