SPECIFICATION EstateMCSpec
CONSTANTS
  a = a
  b = b
  l1 = l1
  l2 = l2
  Names = {a, b}
  MicroVMs = {b}
  Handles = {"lv"}
  Kinds = {"root", "data"}
  Readers <- MCReader
  LvOf <- MCLvOf
  Starting <- MCAny
  MaxChange = 2
  MaxRestart = 1
  MaxCommand = 1
  Lanes = {l1, l2}
  Count <- MCCount
  Follow <- MCFollow
  MaxTry = 3
  MaxMiss = 1
  AutoClose = TRUE
  MaxWin = 2
  MaxRun = 3
  MaxLine = 1
  Op = {1}
  MaxSize = 5
  MaxFault = 4
  None = None
INVARIANTS ReconcileIsTrue LayersInOrder BatchIsTold
PROPERTY ShowsTheTruth
CHECK_DEADLOCK FALSE
