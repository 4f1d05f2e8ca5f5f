SPECIFICATION FairSpec
CONSTANTS
  Timers = {a, b}
  NoTimer = NoTimer
  Delays <- PastAndFuture
  Intervals = {2}
  RunEveryInCallback = FALSE
  TickStep = 1
  MaxTime = 4
  Skew = 0
  Forever = 1000
CHECK_DEADLOCK FALSE
PROPERTIES TimerFires
