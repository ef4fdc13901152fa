----------------------------- MODULE MCMainProgram -----------------------------
(* Bounded instances of MainProgram for TLC. *)
EXTENDS MainProgram
===============================================================================
