SPECIFICATION FairSpec
CONSTANTS
  Workers = {w1, w2}
  Handlers = {"Tcp", "Tls"}
  MaxBytes = 2
  MaxRecord = 2
  BufferSize = 2
  IntRange = 4
  Messages = {m1, m2}
  Length = 2
  Capacity = 2
  MaxCalls = 2
  Nil = Nil
INVARIANTS TypeOK AvailabilityHolds MessagesFramed SessionExclusive
PROPERTIES StreamSpec CallsReturn TcpDelivers
CHECK_DEADLOCK FALSE
