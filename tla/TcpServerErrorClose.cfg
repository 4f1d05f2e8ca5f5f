SPECIFICATION Spec
CONSTANTS
  Conns = {a, b}
  Fds = {3, 4}
  TimerFd = 1
  Timer = Timer
  Listen = Listen
  ThreadNums = {0}
  Users = {}
  UserOps = {}
  EagerDrop = FALSE
  HandlerOps = {}
  ErrorOps = {"forceClose"}
  PeersReset = TRUE
  CrossOps = FALSE
  HasConnectCb = TRUE
  MaxData = 1
  MaxUserCalls = 0
  Dials = {}
  MaxClients = 2
  MaxAcceptFails = 0
CHECK_DEADLOCK FALSE
INVARIANTS CloseOnce
