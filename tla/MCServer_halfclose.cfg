SPECIFICATION Spec
CONSTANTS
  Clients = {c1}
  Fds = {5, 6, 7, 8, 9}
  None = None
  MaxRequests = 1
  Parts <- OnePart
  MaxTasks = 2
  FileName <- FileOfClient
  OutName <- MCOutName
  Patient = FALSE
  AcceptMayFail = FALSE
CHECK_DEADLOCK FALSE
INVARIANTS
  AnsweredBeforeClose
