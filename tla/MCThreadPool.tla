----------------------------- MODULE MCThreadPool -----------------------------
(* Bounded instances of ThreadPool for TLC.  EveryTaskRuns is a liveness      *)
(* property, so no symmetry is declared.                                      *)
EXTENDS ThreadPool
===============================================================================
