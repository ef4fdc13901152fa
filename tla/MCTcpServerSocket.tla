--------------------------- MODULE MCTcpServerSocket ---------------------------
(* Bounded instances of TcpServerSocket for TLC. *)
EXTENDS TcpServerSocket, TLC

Symmetry ==
  Permutations(Clients) \cup Permutations(Fds) \cup Permutations(Ptrs) \cup Permutations(Workers)
===============================================================================
