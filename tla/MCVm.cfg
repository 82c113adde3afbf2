SPECIFICATION Spec
CONSTANTS
  Procs = {p1, p2}
  NFrames = 22
  Sizes = {1, 3, 6, 7, 8, 9, 10, 11, 15, 16, 17, 18, 19, 20, 21, 22}
  NPD = 2
  PDN = 2
  PTN = 3
  MaxCalls = 5
  Programs <- MCPrograms
SYMMETRY Symmetry
INVARIANTS FramesOK TreeOK CopyOK CowOK
CHECK_DEADLOCK FALSE
