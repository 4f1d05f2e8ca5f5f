SPECIFICATION FairSpec
CONSTANTS
  MaxThreads = 4
  MaxConns = 3
CHECK_DEADLOCK FALSE
INVARIANTS Handshake PoolComplete DealtEvenly
PROPERTIES StartTerminates
