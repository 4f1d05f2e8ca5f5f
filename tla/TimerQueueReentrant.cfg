SPECIFICATION Spec
CONSTANTS
  Timers = {a, b, c}
  NoTimer = NoTimer
  Delays <- PastAndFuture
  Intervals = {2, 4}
  RunEveryInCallback = TRUE
  TickStep = 2
  MaxTime = 6
  Skew = 1
  Forever = 1000
CHECK_DEADLOCK FALSE
SYMMETRY Symmetry
INVARIANTS NoEarlyFire
