SPECIFICATION Spec
CONSTANTS
  Name = {a, b}
  Kind = {"root", "data"}
  Proc = {p}
  Offered = {"start", "forceoff", "delete", "clone", "goldenclone", "golden", "rollback"}
  MaxFire = 4
  MaxFault = 0
  MaxOther = 0
  MaxHold = 2
  Retries = 2
  Remote = FALSE
INVARIANTS DeleteIsWhole
PROPERTIES PlanEnds
CHECK_DEADLOCK FALSE
