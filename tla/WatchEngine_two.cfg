SPECIFICATION FairSpec
CONSTANTS
  r1 = r1
  r2 = r2
  r3 = r3
  w1 = w1
  w2 = w2
  d1 = d1
  None = None
  WatchIds = {w1, w2}
  Runs = {r1, r2}
  WatchOf <- TwoWatches
  Faults = {"crash", "observe"}
  ObserverAttempts = 2
  ObservedTimes = {1}
  Dispatchers = {d1}
  RetryDelay <- MCDelay
  BaseDelay = 1
  MaximumDelay = 1
  Multiplier = 1
  FloatMax = 1
  MaxEvents = 2
  MaxDrafts = 1
  MaxAttempts = 2
  BatchSize = 2
  MaxInterruptions = 2
  MaxAcceptances = 1
  IdleClock = 0
  MaxDate = 100
  Forced = {w1}
PROPERTIES
  ClaimsStayActive
  UndeliveredSurvives
  EveryEventSettles
