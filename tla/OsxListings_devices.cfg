SPECIFICATION Spec
CONSTANTS
  a = a
  b = b
  c = c
  d = d
  e = e
  NULL = NULL
  Object <- MCObject
  Wanted <- MCWanted
  Nameless <- MCNameless
  TableSize = 2
  Slack = 0
  MaxCalls = 2
  MaxChanges = 5
  MaxFailures = 1
SYMMETRY Symmetry
INVARIANTS
  TypeOK
  ListsWhatStayed
  FaultHasCause
  LeaksKnown
CHECK_DEADLOCK FALSE
