SPECIFICATION ConnectorSpec
CONSTANTS
  Conns = {a, b}
  Fds = {3, 4}
  TimerFd = 1
  Timer = Timer
  Listen = Listen
  Dials = {d, e}
  Targets <- ATargets
  Garbage = Garbage
  ThreadNums = {0, 1}
  Users = {}
  UserOps = {}
  EagerDrop = FALSE
  HandlerOps = {}
  ErrorOps = {}
  PeersReset = FALSE
  CrossOps = FALSE
  HasConnectCb = TRUE
  MaxData = 0
  MaxUserCalls = 0
  MaxClients = 0
  MaxAcceptFails = 0
CHECK_DEADLOCK FALSE
INVARIANTS PeerAddressAlwaysKept
