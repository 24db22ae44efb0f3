SPECIFICATION Spec
CONSTANTS
  Op = {1, 2}
  MaxSize = 3
  MaxFault = 0
  None = None
INVARIANTS NeverShrinks
CHECK_DEADLOCK FALSE
