SPECIFICATION Spec
CONSTANTS
  Conns = {a}
  Fds = {3}
  TimerFd = 1
  Timer = Timer
  Listen = Listen
  ThreadNums = {1}
  Users = {u1}
  UserOps = {"send"}
  EagerDrop = TRUE
  HandlerOps = {}
  ErrorOps = {}
  PeersReset = FALSE
  CrossOps = FALSE
  HasConnectCb = TRUE
  MaxData = 0
  MaxUserCalls = 1
  Dials = {}
  MaxClients = 1
  MaxAcceptFails = 0
CHECK_DEADLOCK FALSE
INVARIANTS NoUseAfterFree
