\* The call after a failed one
SPECIFICATION Spec
CONSTANTS
  alice = alice
  bob = bob
  User <- MCUser
  Nobody = Nobody
  NULL = NULL
  NRecords = 2
  InitialCapacity = 2
  MaxCalls = 2
  MaxChanges = 0
  MaxFailures = 1
INVARIANT EveryUserListed
CHECK_DEADLOCK FALSE
