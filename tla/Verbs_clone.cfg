SPECIFICATION Spec
SYMMETRY Symm
CONSTANTS
  Name = {a, b}
  Kind = {"root", "data"}
  Proc = {p, q}
  Offered = {"clone", "goldenclone", "golden"}
  MaxFire = 2
  MaxFault = 1
  MaxOther = 1
  MaxHold = 0
  Retries = 1
  Remote = TRUE
INVARIANTS CloneIsWhole
PROPERTIES CloneTouchesOwn
CHECK_DEADLOCK FALSE
