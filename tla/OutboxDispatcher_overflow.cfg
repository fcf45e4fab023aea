SPECIFICATION Spec
CONSTANTS
  d1 = d1
  d2 = d2
  Dispatchers <- OneOwner
  RetryDelay <- MCDelay
  BaseDelay = 2
  MaximumDelay = 2
  Multiplier = 2
  FloatMax = 100
  MaxEvents = 1
  MaxDrafts = 1
  MaxAttempts = 2
  BatchSize = 1
  MaxInterruptions = 0
  MaxAcceptances = 1
  IdleClock = 0
  MaxDate = 1
PROPERTIES
  FailureRecorded
