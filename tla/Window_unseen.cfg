SPECIFICATION Spec
CONSTANTS
  AutoClose = FALSE
  MaxWin = 1
  MaxRun = 2
  MaxLine = 0
INVARIANT NoUnseenRun
CHECK_DEADLOCK FALSE
