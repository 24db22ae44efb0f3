SPECIFICATION Spec
CONSTANTS
  NDisk = 2
  Dest = {nas, usb}
  NewVM = {copy}
  Keep = 1
  SamePool = FALSE
  Reconfig = FALSE
  ProbeFaults = TRUE
  LateDrop = FALSE
  MaxPoint = 3
  MaxFault = 2
INVARIANTS RestoreAllOrNothing NewestRestorable
PROPERTIES ForeignKept BackupEnds
