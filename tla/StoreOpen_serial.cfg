SPECIFICATION FairSpec
CONSTANTS
  Openers = {o1, o2, o3}
  InitialContents = {"absent", "empty", "engine", "foreign", "irregular"}
  Overlapping = FALSE
  MaxCrashes = 2
INVARIANTS
  SchemaMetaSingleRow
  RejectedUntouched
PROPERTIES
  EmptyBecomesUsable
CHECK_DEADLOCK FALSE
