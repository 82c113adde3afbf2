SPECIFICATION Spec
CONSTANTS
  Procs = {p1, p2}
  init = init
  Tables = {t1, t2, t3}
  NENTRY = 3
  Files = {f, g}
  stdin = stdin
  root = root
  MaxPos = 0
  MaxLost = 1
  MaxLeaked = 1
  CloneFs = {TRUE, FALSE}
SYMMETRY Symmetry
INVARIANTS SlotsOK CountsOK TablesOK
CHECK_DEADLOCK FALSE
