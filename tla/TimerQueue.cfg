SPECIFICATION FairSpec
CONSTANTS
  Timers = {a, b}
  NoTimer = NoTimer
  Delays <- PastAndFuture
  Intervals = {2, 4}
  RunEveryInCallback = FALSE
  TickStep = 2
  MaxTime = 8
  Skew = 1
  Forever = 1000
CHECK_DEADLOCK FALSE
INVARIANTS NoEarlyFire TimerfdArmed DeletedIsGone NoDrift
PROPERTIES DueIsCalled TimerFires
