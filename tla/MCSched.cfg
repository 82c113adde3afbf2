SPECIFICATION Spec
CONSTANTS
  Procs = {1, 2, 3}
  Policies = {"RR", "STRIDE", "FIFO", "SJF", "PRIO_RR"}
  MAX_TIME_SLICE = 1
  MAX_PRIORITY_SLICE = 2
  HALF = 4
  BIG_STRIDE = 3
  Priorities = {0, 3}
  Runtimes = {1, 2}
  MaxPass = 10
INVARIANTS QueueOK Spread
PROPERTY StrideRefinement
