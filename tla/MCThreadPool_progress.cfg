SPECIFICATION FairSpec
CONSTANTS
  Threads = {t1, t2}
  Main = Main
  None = None
  MaxTasks = 3
  Size = 2
  MIN_POOL_SIZE = 1
  CreateMayFail = FALSE
PROPERTIES
  TasksFinish
  DestroyEnds
  ImplementsService
