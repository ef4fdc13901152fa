SPECIFICATION FairSpec
CONSTANTS
  Workers = {w1, w2}
  Callers = {c1, c2}
  NoTask = NoTask
  NoOwner = NoOwner
  MaxTasks = 3
PROPERTIES DestructorReturns
CHECK_DEADLOCK FALSE
