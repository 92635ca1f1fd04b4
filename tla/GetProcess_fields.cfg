\* A call on a pid that two processes have, with links that change, one failure
SPECIFICATION FairSpec
CONSTANTS
  MaxIncarnations = 2
  BufSize = 2
  PathMax = 3
  MaxCalls = 2
  MaxFailures = 1
INVARIANTS
  TypeOK
  CrashNeedsRace
  FieldsInOrder
  CompleteIfSteady
  AllReleased
  LinksComplete
PROPERTY Terminates
CHECK_DEADLOCK FALSE
