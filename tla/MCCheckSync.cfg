SPECIFICATION FairSpec
CONSTANTS
  N = 4
  TIMES = 2
INVARIANTS SemaOK MonitorOK
PROPERTIES DiningRefinement MonitorDining CheckSyncEnds
