SPECIFICATION Spec
CONSTANTS
  f1 = f1
  f2 = f2
  VM = {1, 2}
  File = {f1}
  Snaps <- MCSnaps
  MaxLoad = 2
  MaxKey = 4
  MaxNav = 1
  MaxChange = 1
  MaxCmd = 1
  None = None
INVARIANTS ConsentHolds
PROPERTIES CursorKeepsName LiveTable
CHECK_DEADLOCK FALSE
