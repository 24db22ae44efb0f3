SPECIFICATION Spec
CONSTANTS
  Name = {a, b}
  Kind = {"root", "data"}
  MicroVM = {}
  Reader = {"rec"}
  Handle = {"lv"}
  LvOf <- MCLvOf
  MaxChange = 2
  MaxRestart = 1
  Starts <- MCBoth
  MaxFault = 0
  None = None
INVARIANTS OrphansOnly
CHECK_DEADLOCK FALSE
