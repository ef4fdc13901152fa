SPECIFICATION Spec
CONSTANTS
  Clients = {c1}
  Fds = {f1}
  Ptrs = {p1}
  NumLoops = 1
  MaxSends = 0
  Nil = Nil
  Workers = {w1}
  Tls = FALSE
  Receivers = {"set"}
  StopRequested = TRUE
INVARIANTS ListenerClosedByStop
CHECK_DEADLOCK FALSE
