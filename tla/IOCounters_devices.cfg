\* Two calls while devices come and go, one failure
SPECIFICATION Spec
CONSTANTS
  Device <- MCDevice
  EndsInDigit <- MCEndsInDigit
  Kept <- MCKept
  NULL = NULL
  MaxPartitions = 2
  MaxInterfaces = 3
  MaxCalls = 2
  MaxChanges = 5
  MaxFailures = 1
INVARIANTS
  TypeOK
  CompleteWithoutRemoval
  OverrunNeedsCause
  AllReleased
CHECK_DEADLOCK FALSE
