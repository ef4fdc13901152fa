SPECIFICATION Spec
CONSTANTS
  Clients = {c1, c2}
  Fds = {f1}
  Ptrs = {p1, p2}
  NumLoops = 1
  MaxSends = 1
  Nil = Nil
  Workers = {w1}
  Tls = TRUE
  Receivers = {"null", "wild"}
  StopRequested = TRUE
SYMMETRY Symmetry
INVARIANTS Ownership OwnDescriptor EventsNeverDangle OpenConnectionTaskIsLive ClosedCallbackIsTrue
PROPERTIES ClosedPostedLast
CHECK_DEADLOCK FALSE
