\* Two packages other than 0 whose lines alternate
SPECIFICATION Spec
CONSTANTS
  Package = {0, 1, 2}
  MaxLines = 5
  s = 4
  UINT_MAX = 255
INVARIANT NoneRepeated
CHECK_DEADLOCK FALSE
