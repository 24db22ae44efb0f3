SPECIFICATION ViewerSpec
CONSTANTS
  Rows = 3
  MaxFrame = 4
  Cap = 1
  Buffer = 1
  MaxInput = 2
  MaxMotion = 1
  MaxStall = 1
  Size = {s, m, l}
  Mode = {s, m}
  MaxResize = 2
  MaxOwn = 1
  VM = {a, b}
  Counted = {a}
  MaxCPU = 1
  MaxDial = 2
  MaxFetch = 2
  MaxPress = 2
  MaxTap = 2
  MaxPaste = 2
  MaxBlur = 1
INVARIANTS TypeOK LastFrameShown MessagesKept SizesAgree ScreenIsTrue KeysAsHeld
PROPERTIES NothingForNothing ComesToAnEnd ConnectSettles
CHECK_DEADLOCK FALSE
