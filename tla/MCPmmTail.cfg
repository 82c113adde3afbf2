SPECIFICATION Spec
CONSTANTS
  Managers = {"default"}
  npage = 4
  TailFrees = TRUE
INVARIANTS TotalOK
