SPECIFICATION Spec
CONSTANTS
  idleproc = idle
  initproc = init
  NULL = NULL
  p1 = p1
  p2 = p2
  p3 = p3
  Procs = {idle, init, p1, p2, p3}
  MAX_PROCESS = 5
  MaxTimeSlice = 1
  MaxSleep = 2
  Workers = 2
  KillTargets = {p1, p2, p3}
SYMMETRY Slots
INVARIANTS SchedOK NoLostChild FamilyOK InitDoneOK
PROPERTY SleepRefinement
