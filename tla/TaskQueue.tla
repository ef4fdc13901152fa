------------------------------ MODULE TaskQueue ------------------------------
(***************************************************************************)
(* What the thread pool promises to the threads that call enqueueTask: a   *)
(* queue whose tasks are started in the order they were submitted, each by *)
(* one worker and each once.  Tasks are numbered in submission order.      *)
(* ThreadPool implements this specification; TcpServerSocket uses a queue  *)
(* of this kind and leaves the condition variable out.                     *)
(***************************************************************************)
EXTENDS Naturals, Sequences

CONSTANT MaxTasks   \* bound on the number of tasks submitted

VARIABLES
  submitted,        \* how many tasks have been submitted
  pending,          \* submitted and not started, in submission order
  running,          \* started and not finished
  finished          \* tasks whose function has returned

vars == <<submitted, pending, running, finished>>

Init ==
  /\ submitted = 0
  /\ pending = <<>>
  /\ running = {}
  /\ finished = {}

Submit ==
  /\ submitted < MaxTasks
  /\ submitted' = submitted + 1
  /\ pending' = Append(pending, submitted + 1)
  /\ UNCHANGED <<running, finished>>

(* Only the oldest pending task may start, and only if it never did before. *)
Start ==
  /\ pending # <<>>
  /\ Head(pending) \notin running \cup finished
  /\ running' = running \cup {Head(pending)}
  /\ pending' = Tail(pending)
  /\ UNCHANGED <<submitted, finished>>

Finish ==
  \E t \in running :
    /\ running' = running \ {t}
    /\ finished' = finished \cup {t}
    /\ UNCHANGED <<submitted, pending>>

Next == Submit \/ Start \/ Finish

Spec == Init /\ [][Next]_vars
==============================================================================
