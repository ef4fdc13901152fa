SPECIFICATION FairSpec
CONSTANTS
  Clients = {c1}
  Fds = {f1}
  Ptrs = {p1}
  NumLoops = 2
  MaxSends = 2
  Nil = Nil
  Workers = {w1}
  Tls = FALSE
  Receivers = {"set"}
  StopRequested = TRUE
INVARIANTS StopIsComplete
PROPERTIES PeerCloseReclaimed DataConsumed LoopsExit
CHECK_DEADLOCK FALSE
