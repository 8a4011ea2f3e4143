SPECIFICATION SysSpec
CONSTANTS
  Clients = {c1}
  Fds = {5, 6, 7, 8, 9}
  None = None
  MaxRequests = 1
  Parts <- OnePart
  MaxTasks = 2
  MaxLines = 1
  FirstMax <- NoMax
  FileName <- NameInPlace
  OutName <- MCOutName
  Patient = FALSE
  AcceptMayFail = FALSE
CHECK_DEADLOCK FALSE
INVARIANTS
  SelectSeesReply
