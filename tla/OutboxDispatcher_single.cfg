SPECIFICATION FairSpec
CONSTANTS
  d1 = d1
  d2 = d2
  Dispatchers <- OneOwner
  RetryDelay <- MCDelay
  BaseDelay = 1
  MaximumDelay = 2
  Multiplier = 2
  FloatMax = 100
  MaxEvents = 3
  MaxDrafts = 2
  MaxAttempts = 2
  BatchSize = 2
  MaxInterruptions = 2
  MaxAcceptances = 4
  IdleClock = 1
  MaxDate = 100
INVARIANTS
  InFlightBounded
  DuplicatesNeedInterruptions
PROPERTIES
  FailureRecorded
  ImplementsAtLeastOnce
  EveryEventSettles
