SPECIFICATION FairSpec
CONSTANTS
  Conns = {a}
  Fds = {3}
  TimerFd = 1
  Timer = Timer
  Listen = Listen
  Dials = {}
  ThreadNums = {1}
  Users = {u1, u2}
  UserOps = {"send", "shutdown", "forceClose"}
  EagerDrop = TRUE
  HandlerOps = {"forceClose"}
  ErrorOps = {}
  PeersReset = FALSE
  CrossOps = FALSE
  HasConnectCb = TRUE
  MaxData = 0
  MaxUserCalls = 2
  MaxClients = 1
  MaxAcceptFails = 0
CHECK_DEADLOCK FALSE
INVARIANTS UseAfterFreeNeedsRace
PROPERTIES ClosedIsFreed
