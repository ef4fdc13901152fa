SPECIFICATION Spec
CONSTANTS
  MaxObjects = 6
  MaxLoads = 1
  Nil = Nil
  Garbage = Garbage
INVARIANTS ClientFailureSurvived
CHECK_DEADLOCK FALSE
