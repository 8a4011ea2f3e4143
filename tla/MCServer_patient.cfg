SPECIFICATION FairSpec
CONSTANTS
  Clients = {c1}
  Fds = {5, 6, 7, 8, 9, 10, 11, 12, 13}
  None = None
  MaxRequests = 2
  Parts <- TwoParts
  MaxTasks = 4
  FileName <- FileOfClient
  OutName <- MCOutName
  Patient = TRUE
  AcceptMayFail = FALSE
CHECK_DEADLOCK FALSE
INVARIANTS
  TypeInv
  OwnRepliesInOrder
  OpenUntilShutdown
  OpenInv
  OrderInv
PROPERTIES
  EveryRequestAnswered
  EndedIsClosed
