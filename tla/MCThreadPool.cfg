SPECIFICATION FairSpec
CONSTANTS
  Workers = {w1, w2, w3}
  Callers = {c1, c2}
  NoTask = NoTask
  NoOwner = NoOwner
  MaxTasks = 4
INVARIANTS TypeOK ExactlyOnce NoLostWakeup StopIsPrompt
PROPERTIES QueueSpec EveryTaskRuns
CHECK_DEADLOCK FALSE
