SPECIFICATION Spec
CONSTANTS
  Conns = {a, b}
  Fds = {3, 4}
  TimerFd = 1
  Timer = Timer
  Listen = Listen
  ThreadNums = {0}
  Users = {}
  UserOps = {}
  EagerDrop = FALSE
  HandlerOps = {}
  ErrorOps = {}
  PeersReset = FALSE
  CrossOps = FALSE
  HasConnectCb = TRUE
  MaxData = 0
  MaxUserCalls = 0
  Dials = {}
  MaxClients = 2
  MaxAcceptFails = 2
CHECK_DEADLOCK FALSE
INVARIANTS RegisteredAsItself
