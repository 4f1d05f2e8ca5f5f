SPECIFICATION FairSpec
CONSTANTS
  Threads = {t1, t2}
  Loop = Loop
  ThreadOps = {"send", "shutdown", "forceClose"}
  LoopOps = {"send", "shutdown", "forceClose"}
  Capacity = 1
  MaxSends = 2
  MaxLen = 2
  MaxDowns = 1
CHECK_DEADLOCK FALSE
INVARIANTS StreamConserved SenderOrder FinAfterTaken
PROPERTIES Drains ShutdownEnds
