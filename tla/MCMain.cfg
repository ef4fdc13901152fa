SPECIFICATION Spec
CONSTANTS
  MaxObjects = 9
  MaxLoads = 2
  Nil = Nil
  Garbage = Garbage
INVARIANTS TypeOK HeldIsLive LeaksOnlyByRepetition SessionsCertified
CHECK_DEADLOCK FALSE
