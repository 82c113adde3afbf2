SPECIFICATION FairSpec
CONSTANTS
  idleproc = idle
  initproc = init
  NULL = NULL
  p1 = p1
  p2 = p2
  p3 = p3
  Procs = {idle, init, p1, p2}
  MAX_PROCESS = 4
  MaxTimeSlice = 2
  MaxSleep = 1
  Workers = 1
  KillTargets = {init, p1, p2}
PROPERTIES RunnableRuns SleeperWakes OrphanReaped KilledSleeperExits
