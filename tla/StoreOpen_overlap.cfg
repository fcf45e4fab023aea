SPECIFICATION Spec
CONSTANTS
  Openers = {o1, o2}
  InitialContents = {"absent"}
  Overlapping = TRUE
  MaxCrashes = 0
INVARIANTS
  SchemaMetaSingleRow
CHECK_DEADLOCK FALSE
