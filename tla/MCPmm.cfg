VIEW LiveView
SPECIFICATION ManagerSpec
CONSTANTS
  npage = 6
  Managers = {"default", "best_fit", "slub", "buddy"}
  TailFrees = FALSE
  buddy_npages = 9
  BUDDY_MAX_ORDER = 3
  Defaults <- MCDefaults
  Customs = 1
  CustomSizes = {2, 6}
  Usable = 5
  MaxSlabs = 2
INVARIANTS ManagerOK SlubOK
PROPERTIES PmmRefinement
