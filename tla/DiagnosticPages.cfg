SPECIFICATION Spec
CONSTANTS
  w1 = w1
  w2 = w2
  Any = Any
  WatchIds = {w1, w2}
  Tables = {"outbox", "attempts"}
  MaxLimit = 2
  MaxEvents = 3
  MaxAttempts = 1
  BatchSize = 1
INVARIANTS
  ReadExactlyOnce
CHECK_DEADLOCK FALSE
