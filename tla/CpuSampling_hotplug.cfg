\* Of three CPUs the second goes offline during a session
SPECIFICATION Spec
CONSTANTS
  NULL = NULL
  NCpus = 3
  TableSize = 3
  MaxSessions = 1
  MaxTicks = 0
  MaxHotplugs = 1
  MaxFailures = 0
INVARIANT SameCpuCompared
CHECK_DEADLOCK FALSE
