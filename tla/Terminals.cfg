SPECIFICATION TerminalsSpec
CONSTANTS
  N = 2
  Ruled = {1}
  Cloned = {2}
  Chain = {1, 2}
  Batch = {1}
  MaxKey = 3
  MaxFault = 1
  Session = {s1, s2, s3}
  Steps = 2
  MaxJobs = 1
  MaxTick = 2
  MaxSeq = 1
  MaxSize = 2
  Sizable = TRUE
  MaxFrame = 3
  MaxWinch = 1
  AnyKey = {"esc", "up", "alt", "menu", "x", "r"}
  MaxTyped = 3
  Cols = {10, 11}
  Lines = {4}
  CellW = 3
  CellH = 5
  Wide = {7, 33}
  High = {3, 20}
  Devices <- OneDisk
  Typed = {short, four, eight, nine}
  Length <- Lengths
  short = short
  four = four
  eight = eight
  nine = nine
  None = None
SYMMETRY Symm
INVARIANTS TuiIsSound PanesAreTrue ScreenIsSound
PROPERTIES CursorKeepsName RetiredEnds
CHECK_DEADLOCK FALSE
