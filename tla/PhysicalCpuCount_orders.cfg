\* Every order of up to six lines of four packages
SPECIFICATION Spec
CONSTANTS
  Package = {0, 1, 2, 3}
  MaxLines = 6
  s = 4
  UINT_MAX = 255
INVARIANTS TypeOK AscendingExact CountBounds
CHECK_DEADLOCK FALSE
