SPECIFICATION Spec
CONSTANTS
  Conns = {a, b}
  Fds = {3, 4}
  TimerFd = 1
  Timer = Timer
  Listen = Listen
  ThreadNums = {0, 1}
  Users = {}
  UserOps = {}
  EagerDrop = FALSE
  HandlerOps = {"send", "shutdown", "forceClose"}
  ErrorOps = {"shutdown"}
  PeersReset = TRUE
  CrossOps = FALSE
  HasConnectCb = TRUE
  MaxData = 1
  MaxUserCalls = 0
  Dials = {}
  MaxClients = 2
  MaxAcceptFails = 1
CHECK_DEADLOCK FALSE
SYMMETRY Symmetry
INVARIANTS NoUseAfterFree CloseOnce NoMessageAfterClose RegisteredAsItself FreedIsGone
