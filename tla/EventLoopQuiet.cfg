SPECIFICATION FairSpec
CONSTANTS
  Threads = {th1}
  Tasks = {a, b}
  NoTask = NoTask
PROPERTIES PushedTaskRuns
