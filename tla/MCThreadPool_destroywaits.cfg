SPECIFICATION Spec
CONSTANTS
  Threads = {t1, t2}
  Main = Main
  None = None
  MaxTasks = 2
  Size = 2
  MIN_POOL_SIZE = 2
  CreateMayFail = FALSE
SYMMETRY Symmetry
INVARIANTS
  DestroyWaitsForTasks
