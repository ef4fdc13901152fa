--------------------------- MODULE MCSocketTransfer ---------------------------
(* Bounded instances of SocketTransfer for TLC. *)
EXTENDS SocketTransfer
===============================================================================
