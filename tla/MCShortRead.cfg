SPECIFICATION Spec
CONSTANTS
  Workers = {w1}
  Handlers = {"Tls"}
  MaxBytes = 2
  MaxRecord = 2
  BufferSize = 2
  IntRange = 4
  Messages = {m1}
  Length = 2
  Capacity = 2
  MaxCalls = 1
  Nil = Nil
PROPERTIES ShortReadMeansDrained
CHECK_DEADLOCK FALSE
