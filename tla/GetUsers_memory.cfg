\* Memory of get_users, with an array that starts with one entry and doubles
\* twice, and what its list says of a login table that changes during the call
SPECIFICATION Spec
CONSTANTS
  alice = alice
  bob = bob
  User <- MCUser
  Nobody = Nobody
  NULL = NULL
  NRecords = 4
  InitialCapacity = 1
  MaxCalls = 2
  MaxChanges = 2
  MaxFailures = 1
SYMMETRY UserSymmetry
INVARIANTS
  TypeOK
  CursorSafe
  NoMemoryError
  FailureKeepsOnlyPartialEntry
  OneEntryPerLine
PROPERTIES
  ReleaseRestoresHeap
  RefinesScan
CHECK_DEADLOCK FALSE
