SPECIFICATION Spec
CONSTANTS
  Conns = {a}
  Fds = {3}
  TimerFd = 1
  Timer = Timer
  Listen = Listen
  ThreadNums = {1}
  Users = {}
  UserOps = {}
  EagerDrop = FALSE
  HandlerOps = {}
  ErrorOps = {}
  PeersReset = FALSE
  CrossOps = FALSE
  HasConnectCb = FALSE
  MaxData = 0
  MaxUserCalls = 0
  Dials = {}
  MaxClients = 1
  MaxAcceptFails = 0
CHECK_DEADLOCK FALSE
INVARIANTS NoEmptyFunction
