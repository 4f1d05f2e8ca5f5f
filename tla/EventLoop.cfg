SPECIFICATION FairSpec
CONSTANTS
  Threads = {th1, th2}
  Tasks = {a, b, c}
  NoTask = NoTask
INVARIANTS Conservation WakeupPending
PROPERTIES WokenTaskRuns ActiveLoopRunsAll RefinesExecutor
