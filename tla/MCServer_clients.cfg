SPECIFICATION Spec
CONSTANTS
  Clients = {c1, c2}
  Fds = {5, 6, 7, 8, 9, 10, 11, 12}
  None = None
  MaxRequests = 1
  Parts <- OnePart
  MaxTasks = 3
  FileName <- FileOfOwn
  OutName <- HtmlOfOwn
  Patient = TRUE
  AcceptMayFail = TRUE
CHECK_DEADLOCK FALSE
SYMMETRY Alike
INVARIANTS
  AnsweredAtMostOnce
  OnceInv
  StreamsInv
