\* Two sessions, CPUs going offline and coming back, one failure
SPECIFICATION Spec
CONSTANTS
  NULL = NULL
  NCpus = 3
  TableSize = 2
  MaxSessions = 2
  MaxTicks = 2
  MaxHotplugs = 3
  MaxFailures = 1
INVARIANTS TypeOK PercentageIsShare FaultHasCause LeaksBounded
CHECK_DEADLOCK FALSE
