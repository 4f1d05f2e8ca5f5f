SPECIFICATION Spec
CONSTANTS
  Threads = {t1}
  Loop = Loop
  ThreadOps = {"send", "shutdown"}
  LoopOps = {}
  Capacity = 1
  MaxSends = 2
  MaxLen = 2
  MaxDowns = 1
CHECK_DEADLOCK FALSE
INVARIANTS FinAfterSends
