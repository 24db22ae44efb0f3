SPECIFICATION Spec
CONSTANTS
  NDisk = 2
  Dest = {nas}
  NewVM = {}
  Keep = 1
  SamePool = TRUE
  Reconfig = TRUE
  ProbeFaults = FALSE
  LateDrop = TRUE
  MaxPoint = 3
  MaxFault = 2
INVARIANTS TypeOK ChainIntact CleanRunConverges
