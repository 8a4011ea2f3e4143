SPECIFICATION SysSpec
CONSTANTS
  Clients = {c1}
  Fds = {5, 6, 7, 8, 9, 10, 11}
  None = None
  MaxRequests = 2
  Parts <- OnePart
  MaxTasks = 3
  MaxLines = 3
  FirstMax <- AnyMax
  FileName <- NameInPlace
  OutName <- MCOutName
  Patient = FALSE
  AcceptMayFail = FALSE
CHECK_DEADLOCK FALSE
INVARIANTS
  SysTypeOK
  EachFileSaved
  EndsServed
  SessionInv
PROPERTIES
  ImplementsSession
  FilesComeBack
  EndOfInputEnds
