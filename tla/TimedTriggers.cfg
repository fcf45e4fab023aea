SPECIFICATION Spec
CONSTANTS
  Triggers = {"cron", "interval"}
  Period = 3
  MinInterval = 2
  MaxInterval = 3
  RandomValues = {0, 2, 3, 9}
  Bad = Bad
  Early = 1
  MaxEarly = 2
  Horizon = 8
  MaxSettings = 2
INVARIANTS
  RepeatsNeedClock
  SleepAimsAtSlot
  IntervalsKept
CHECK_DEADLOCK FALSE
