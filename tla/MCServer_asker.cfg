SPECIFICATION Spec
CONSTANTS
  Clients = {c1, c2}
  Fds = {5, 6, 7, 8, 9, 10}
  None = None
  MaxRequests = 1
  Parts <- OnePart
  MaxTasks = 2
  FileName <- FileOfClient
  OutName <- MCOutName
  Patient = TRUE
  AcceptMayFail = FALSE
CHECK_DEADLOCK FALSE
INVARIANTS
  ReplyToAsker
