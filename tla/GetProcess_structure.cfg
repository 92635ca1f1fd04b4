\* The process exits during the call
SPECIFICATION Spec
CONSTANTS
  MaxIncarnations = 1
  BufSize = 2
  PathMax = 1
  MaxCalls = 1
  MaxFailures = 0
INVARIANT SomeStructure
CHECK_DEADLOCK FALSE
