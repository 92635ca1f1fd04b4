SPECIFICATION Spec
CONSTANTS
  Total = 2
  Word = 16
  Ulp = 4
  MaxClock = 3
  MaxCalls = 3
  MaxChanges = 3
  MaxFailures = 1
INVARIANTS
  TypeOK
  PercentSane
  BootTimeRight
  BadFreeNeedsRefusal
  AllReleased
CHECK_DEADLOCK FALSE
