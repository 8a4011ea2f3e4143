SPECIFICATION Spec
CONSTANTS
  Threads = {t1, t2, t3}
  Main = Main
  None = None
  MaxTasks = 5
  Size = 2
  MIN_POOL_SIZE = 2
  CreateMayFail = TRUE
SYMMETRY Symmetry
INVARIANTS
  NoCircularWait
  MutualExclusion
  TaskConservation
  NoStrandedTask
  PoolAccounting
  NoWorkerForgotten
  KeepsMinimum
  Inductive
  BooksInv
