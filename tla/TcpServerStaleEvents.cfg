SPECIFICATION Spec
CONSTANTS
  Conns = {a, b}
  Fds = {3, 4}
  TimerFd = 1
  Timer = Timer
  Listen = Listen
  ThreadNums = {0}
  Users = {}
  UserOps = {}
  EagerDrop = FALSE
  HandlerOps = {"forceClose"}
  ErrorOps = {}
  PeersReset = FALSE
  CrossOps = TRUE
  HasConnectCb = TRUE
  MaxData = 1
  MaxUserCalls = 0
  Dials = {}
  MaxClients = 2
  MaxAcceptFails = 0
CHECK_DEADLOCK FALSE
INVARIANTS CloseOnce
