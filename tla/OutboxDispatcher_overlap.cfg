SPECIFICATION Spec
CONSTANTS
  d1 = d1
  d2 = d2
  Dispatchers <- TwoOwners
  RetryDelay <- MCDelay
  BaseDelay = 1
  MaximumDelay = 3
  Multiplier = 2
  FloatMax = 100
  MaxEvents = 2
  MaxDrafts = 2
  MaxAttempts = 3
  BatchSize = 2
  MaxInterruptions = 1
  MaxAcceptances = 1
  IdleClock = 1
  MaxDate = 3
INVARIANTS
  AuditTrail
  DeliveredWasAccepted
  AttemptBudget
  NoOrphanedClaim
  BackoffHonoured
PROPERTIES
  HistoryIsFinal
