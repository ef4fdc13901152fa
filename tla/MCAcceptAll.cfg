SPECIFICATION FairSpec
CONSTANTS
  Clients = {c1, c2}
  Fds = {f1, f2}
  Ptrs = {p1, p2}
  NumLoops = 1
  MaxSends = 0
  Nil = Nil
  Workers = {w1}
  Tls = FALSE
  Receivers = {"set"}
  StopRequested = FALSE
PROPERTIES EveryConnectionHandled
CHECK_DEADLOCK FALSE
