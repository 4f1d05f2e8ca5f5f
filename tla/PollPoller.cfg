SPECIFICATION Spec
CONSTANTS
  Channels = {c1, c2, c3}
  Fds = {0, 5, 6}
CHECK_DEADLOCK FALSE
INVARIANTS IndexConsistent EntriesMatchEvents
PROPERTIES CrashNeedsHiddenChannel RefinesInterest
