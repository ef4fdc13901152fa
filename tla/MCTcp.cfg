SPECIFICATION Spec
CONSTANTS
  Clients = {c1, c2}
  Fds = {f1, f2}
  Ptrs = {p1, p2}
  NumLoops = 2
  MaxSends = 1
  Nil = Nil
  Workers = {w1, w2}
  Tls = FALSE
  Receivers = {"set"}
  StopRequested = FALSE
SYMMETRY Symmetry
INVARIANTS TypeOK Ownership OwnDescriptor EventsNeverDangle OpenConnectionTaskIsLive ClosedCallbackIsTrue
PROPERTIES ClosedPostedLast
CHECK_DEADLOCK FALSE
