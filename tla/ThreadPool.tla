------------------------------ MODULE ThreadPool ------------------------------
(***************************************************************************)
(* src/threadpool: a queue of IOTask guarded by m_queueMutex, worker       *)
(* threads that wait for it on m_condition, and a destructor that stops    *)
(* and joins them.  A step of this module is what one thread does between  *)
(* two points where another thread can be seen to interfere: taking the    *)
(* mutex, releasing it, blocking on the condition variable, and each       *)
(* access to the atomic m_stop, which is not guarded by the mutex.         *)
(*                                                                         *)
(* A task is the number of the enqueueTask call that pushed it.            *)
(***************************************************************************)
EXTENDS Naturals, Sequences, FiniteSets

CONSTANTS
  Workers,      \* the threads of m_workers
  Callers,      \* the threads that call enqueueTask: acceptor and pollers
  NoTask,       \* an IOTask(nullptr, nullptr)
  NoOwner,      \* m_queueMutex is free
  MaxTasks      \* bound on the number of enqueueTask calls

ASSUME ThreadPoolAssumption ==
  /\ Workers # {}
  /\ IsFiniteSet(Workers)
  /\ IsFiniteSet(Callers)
  /\ MaxTasks \in Nat
  /\ NoTask \notin Nat
  /\ NoOwner \notin Workers

VARIABLES
  m_tasks,      \* the queue
  m_stop,       \* the atomic flag
  m_queueMutex, \* the worker that holds the mutex over more than one step
  worker,       \* where each worker is in workerThread
  task,         \* the local IOTask of each worker
  caller,       \* "notify": pushed, has not called notify_one yet
  destructor,   \* where the destroying thread is in ~ThreadPool
  pushed,       \* number of pushes so far: the name of the last task
  executed,     \* history: the tasks whose execute() has returned
  overtime      \* history: how many of them, for each worker, after m_stop

vars == <<m_tasks, m_stop, m_queueMutex, worker, task, caller, destructor,
          pushed, executed, overtime>>

WorkerStates == {"loop", "lock", "predicate", "pop", "block", "asleep", "run", "exited"}
DestructorStates == {"alive", "notify", "join", "done"}

Asleep == {w \in Workers : worker[w] = "asleep"}
Running == {w \in Workers : worker[w] = "run"}

Init ==
  /\ m_tasks = <<>>
  /\ m_stop = FALSE
  /\ m_queueMutex = NoOwner
  /\ worker = [w \in Workers |-> "loop"]
  /\ task = [w \in Workers |-> NoTask]
  /\ caller = [c \in Callers |-> "idle"]
  /\ destructor = "alive"
  /\ pushed = 0
  /\ executed = {}
  /\ overtime = [w \in Workers |-> 0]

-------------------------------------------------------------------------------
(* Mutants, which no action uses: bugs of this kind of code, each of which, *)
(* put in place of the action it is a variant of, breaks a property.        *)

(* The task is moved from before it is pushed.                              *)
MutantEnqueueTask(c) ==
  /\ caller[c] = "idle"
  /\ m_queueMutex = NoOwner
  /\ pushed < MaxTasks
  /\ destructor # "done"
  /\ pushed' = pushed + 1
  /\ m_tasks' = Append(m_tasks, NoTask)
  /\ caller' = [caller EXCEPT ![c] = "notify"]
  /\ UNCHANGED <<m_stop, m_queueMutex, worker, task, destructor, executed, overtime>>

(* enqueueTask without its notify_one.                                      *)
MutantNotifyOne(c) ==
  /\ caller[c] = "notify"
  /\ caller' = [caller EXCEPT ![c] = "idle"]
  /\ UNCHANGED <<m_tasks, m_stop, m_queueMutex, worker, task, destructor, pushed, executed, overtime>>

(* while (true) in place of while (!m_stop.load()).                         *)
MutantTestStop(w) ==
  /\ worker[w] = "loop"
  /\ worker' = [worker EXCEPT ![w] = "lock"]
  /\ task' = [task EXCEPT ![w] = NoTask]
  /\ UNCHANGED <<m_tasks, m_stop, m_queueMutex, caller, destructor, pushed, executed, overtime>>

(* A lock that is a temporary, and unlocks at once.                         *)
MutantLockQueue(w) ==
  /\ worker[w] = "lock"
  /\ m_queueMutex = NoOwner
  /\ worker' = [worker EXCEPT ![w] = "predicate"]
  /\ UNCHANGED <<m_tasks, m_stop, m_queueMutex, task, caller, destructor, pushed, executed,
                 overtime>>

(* A stack in place of the queue.                                           *)
MutantPopTask(w) ==
  /\ worker[w] = "pop"
  /\ m_tasks' = SubSeq(m_tasks, 1, Len(m_tasks) - 1)
  /\ m_queueMutex' = NoOwner
  /\ worker' = [worker EXCEPT ![w] = "run"]
  /\ UNCHANGED <<m_stop, task, caller, destructor, pushed, executed, overtime>>

-------------------------------------------------------------------------------
(* enqueueTask: the push in its own critical section, then notify_one       *)
(* after the mutex has been released.                                       *)

EnqueueTask(c) ==
  /\ caller[c] = "idle"
  /\ m_queueMutex = NoOwner
  /\ pushed < MaxTasks
  /\ destructor # "done"
  /\ pushed' = pushed + 1
  /\ m_tasks' = Append(m_tasks, pushed + 1)
  /\ caller' = [caller EXCEPT ![c] = "notify"]
  /\ UNCHANGED <<m_stop, m_queueMutex, worker, task, destructor, executed, overtime>>

(* notify_one wakes one of the sleeping workers, or nobody if none sleeps.  *)
NotifyOne(c) ==
  /\ caller[c] = "notify"
  /\ caller' = [caller EXCEPT ![c] = "idle"]
  /\ \/ /\ Asleep = {}
        /\ UNCHANGED worker
     \/ \E w \in Asleep : worker' = [worker EXCEPT ![w] = "lock"]
  /\ UNCHANGED <<m_tasks, m_stop, m_queueMutex, task, destructor, pushed, executed, overtime>>

-------------------------------------------------------------------------------
(* workerThread *)

(* while (!m_stop.load()) *)
TestStop(w) ==
  /\ worker[w] = "loop"
  /\ worker' = [worker EXCEPT ![w] = IF m_stop THEN "exited" ELSE "lock"]
  /\ task' = [task EXCEPT ![w] = NoTask]
  /\ UNCHANGED <<m_tasks, m_stop, m_queueMutex, caller, destructor, pushed, executed, overtime>>

(* unique_lock, or the reacquisition inside wait() after a wake-up *)
LockQueue(w) ==
  /\ worker[w] = "lock"
  /\ m_queueMutex = NoOwner
  /\ m_queueMutex' = w
  /\ worker' = [worker EXCEPT ![w] = "predicate"]
  /\ UNCHANGED <<m_tasks, m_stop, task, caller, destructor, pushed, executed, overtime>>

(* The predicate holds because the queue is not empty: move from front().   *)
TakeFront(w) ==
  /\ worker[w] = "predicate"
  /\ m_tasks # <<>>
  /\ task' = [task EXCEPT ![w] = Head(m_tasks)]
  /\ worker' = [worker EXCEPT ![w] = "pop"]
  /\ UNCHANGED <<m_tasks, m_stop, m_queueMutex, caller, destructor, pushed, executed, overtime>>

(* pop() whatever is at the front now, and unlock.                          *)
PopTask(w) ==
  /\ worker[w] = "pop"
  /\ m_tasks' = SubSeq(m_tasks, 2, Len(m_tasks))
  /\ m_queueMutex' = NoOwner
  /\ worker' = [worker EXCEPT ![w] = "run"]
  /\ UNCHANGED <<m_stop, task, caller, destructor, pushed, executed, overtime>>

(* The predicate holds because of m_stop alone: return.                     *)
ReturnStopped(w) ==
  /\ worker[w] = "predicate"
  /\ m_tasks = <<>>
  /\ m_stop
  /\ m_queueMutex' = NoOwner
  /\ worker' = [worker EXCEPT ![w] = "exited"]
  /\ UNCHANGED <<m_tasks, m_stop, task, caller, destructor, pushed, executed, overtime>>

(* The predicate does not hold.  The worker keeps the mutex until it blocks,*)
(* but m_stop may be set before it does.                                    *)
PredicateFalse(w) ==
  /\ worker[w] = "predicate"
  /\ m_tasks = <<>>
  /\ ~m_stop
  /\ worker' = [worker EXCEPT ![w] = "block"]
  /\ UNCHANGED <<m_tasks, m_stop, m_queueMutex, task, caller, destructor, pushed, executed, overtime>>

(* Release the mutex and join the sleepers of m_condition in one step.      *)
Block(w) ==
  /\ worker[w] = "block"
  /\ m_queueMutex' = NoOwner
  /\ worker' = [worker EXCEPT ![w] = "asleep"]
  /\ UNCHANGED <<m_tasks, m_stop, task, caller, destructor, pushed, executed, overtime>>

(* A condition variable may wake a thread nobody notified.                  *)
SpuriousWakeup(w) ==
  /\ worker[w] = "asleep"
  /\ worker' = [worker EXCEPT ![w] = "lock"]
  /\ UNCHANGED <<m_tasks, m_stop, m_queueMutex, task, caller, destructor, pushed, executed, overtime>>

(* task.execute(): the callback runs outside the mutex and returns.         *)
Execute(w) ==
  /\ worker[w] = "run"
  /\ executed' = executed \cup {task[w]}
  /\ overtime' = IF m_stop THEN [overtime EXCEPT ![w] = @ + 1] ELSE overtime
  /\ worker' = [worker EXCEPT ![w] = "loop"]
  /\ UNCHANGED <<m_tasks, m_stop, m_queueMutex, task, caller, destructor, pushed>>

-------------------------------------------------------------------------------
(* ~ThreadPool *)

StoreStop ==
  /\ destructor = "alive"
  /\ m_stop' = TRUE
  /\ destructor' = "notify"
  /\ UNCHANGED <<m_tasks, m_queueMutex, worker, task, caller, pushed, executed, overtime>>

NotifyAll ==
  /\ destructor = "notify"
  /\ worker' = [w \in Workers |-> IF worker[w] = "asleep" THEN "lock" ELSE worker[w]]
  /\ destructor' = "join"
  /\ UNCHANGED <<m_tasks, m_stop, m_queueMutex, task, caller, pushed, executed, overtime>>

JoinAll ==
  /\ destructor = "join"
  /\ \A w \in Workers : worker[w] = "exited"
  /\ destructor' = "done"
  /\ UNCHANGED <<m_tasks, m_stop, m_queueMutex, worker, task, caller, pushed, executed, overtime>>

-------------------------------------------------------------------------------
(* What a worker does of its own accord, without the spurious wake-ups.     *)
WorkerThread(w) ==
  \/ TestStop(w) \/ LockQueue(w) \/ TakeFront(w) \/ PopTask(w) \/ ReturnStopped(w)
  \/ PredicateFalse(w) \/ Block(w) \/ Execute(w)

Destroy == StoreStop \/ NotifyAll \/ JoinAll

Next ==
  \/ \E c \in Callers : EnqueueTask(c) \/ NotifyOne(c)
  \/ \E w \in Workers : WorkerThread(w) \/ SpuriousWakeup(w)
  \/ Destroy

Spec == Init /\ [][Next]_vars

(* Threads that can run are run: workers, a caller between the push and the *)
(* notify_one, and a destructor that has begun.  Nobody has to enqueue or   *)
(* to destroy the pool, and no wake-up without a notification is promised.  *)
FairSpec ==
  /\ Spec
  /\ \A w \in Workers : WF_vars(WorkerThread(w))
  /\ \A c \in Callers : WF_vars(NotifyOne(c))
  /\ WF_vars(NotifyAll \/ JoinAll)

-------------------------------------------------------------------------------
(* Every variable keeps its C++ type.     *)
TypeOK ==
  /\ m_tasks \in Seq(Nat)
  /\ m_stop \in BOOLEAN
  /\ m_queueMutex \in Workers \cup {NoOwner}
  /\ worker \in [Workers -> WorkerStates]
  /\ task \in [Workers -> Nat \cup {NoTask}]
  /\ caller \in [Callers -> {"idle", "notify"}]
  /\ destructor \in DestructorStates
  /\ pushed \in Nat
  /\ executed \subseteq Nat \cup {NoTask}
  /\ overtime \in [Workers -> Nat]

(* The queue holds the last tasks pushed, oldest first, with no gap: the    *)
(* pops of all workers together take the tasks in the order of the pushes.  *)
InOrder ==
  /\ Len(m_tasks) <= pushed
  /\ \A i \in 1..Len(m_tasks) : m_tasks[i] = pushed - Len(m_tasks) + i

(* Every task ever pushed is in exactly one place: still queued, held by    *)
(* exactly one worker, or executed.  A worker that moves from the front and *)
(* pops without the mutex over both breaks this.                            *)
ExactlyOnce ==
  /\ \A t \in 1..(pushed - Len(m_tasks)) :
       \/ t \in executed /\ \A w \in Running : task[w] # t
       \/ t \notin executed /\ \E w \in Running : task[w] = t
  /\ \A v, w \in Running : task[v] = task[w] => v = w
  /\ \A w \in Running : task[w] \in 1..(pushed - Len(m_tasks))
  /\ executed \subseteq 1..(pushed - Len(m_tasks))

(* Threads on their way to look at the queue.                               *)
Heading == {w \in Workers : worker[w] \in {"loop", "lock", "predicate", "pop"}}
Notifying == {c \in Callers : caller[c] = "notify"}

(* No wake-up of enqueueTask is lost: while the pool is not stopping, as    *)
(* long as some worker sleeps, each queued task has a caller that has still *)
(* to call notify_one or a worker that is about to look at the queue.  No   *)
(* task waits for a busy worker while an idle one is left asleep.           *)
NoLostWakeup ==
  ~m_stop /\ Asleep # {} =>
     Len(m_tasks) <= Cardinality(Notifying) + Cardinality(Heading)

(* Stopping is prompt and clean, although m_stop is looked at only between  *)
(* tasks and workers that sleep or wait for the mutex may still take one:   *)
(* the destructor waits for at most one callback of each worker, whatever   *)
(* is queued, and when it is done no task is left half-way, so that those   *)
(* dropped are the last ones pushed, none of which has run.                 *)
StopIsPrompt ==
  /\ \A w \in Workers : overtime[w] <= 1
  /\ destructor = "done" => executed = 1..(pushed - Len(m_tasks))

(* Each task enqueued is eventually executed, or the pool is being stopped. *)
EveryTaskRuns ==
  \A t \in 1..MaxTasks : t <= pushed ~> t \in executed \/ m_stop

(* The destructor returns: every worker leaves and is joined.               *)
DestructorReturns == (destructor = "notify") ~> (destructor = "done")

(* The pool implements the queue its callers see.                           *)
Queue == INSTANCE TaskQueue WITH
  submitted <- pushed,
  pending <- m_tasks,
  running <- {task[w] : w \in Running},
  finished <- executed

QueueSpec == Queue!Spec
===============================================================================
