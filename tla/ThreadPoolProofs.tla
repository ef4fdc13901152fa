--------------------------- MODULE ThreadPoolProofs ---------------------------
(* Theorems about ThreadPool for any finite set of workers and callers.     *)
EXTENDS ThreadPool, Integers, FiniteSetTheorems, TLAPS

(* A worker holds m_queueMutex exactly from the predicate to its pop or its *)
(* wait.  One about to pop has a copy of the front that is still the front, *)
(* and one about to block found the queue empty: nobody can have popped or  *)
(* pushed since, for both need the mutex.                                   *)
MutexInv ==
  /\ \A w \in Workers : worker[w] \in {"predicate", "pop", "block"} <=> m_queueMutex = w
  /\ \A w \in Workers : worker[w] = "pop" => m_tasks # <<>> /\ task[w] = Head(m_tasks)
  /\ \A w \in Workers : worker[w] = "block" => m_tasks = <<>>

IInv == TypeOK /\ MutexInv /\ InOrder /\ ExactlyOnce

(* Every variable keeps its type whatever the threads do.                   *)
THEOREM Typing == Spec => []TypeOK
<1>1. Init => TypeOK
  <2> SUFFICES ASSUME Init PROVE TypeOK
    OBVIOUS
  <2>1. m_tasks \in Seq(Nat)
    BY DEF Init
  <2>2. /\ worker \in [Workers -> WorkerStates] /\ task \in [Workers -> Nat \cup {NoTask}]
        /\ overtime \in [Workers -> Nat]
    BY DEF Init, WorkerStates
  <2>3. caller \in [Callers -> {"idle", "notify"}]
    BY DEF Init
  <2> QED
    BY <2>1, <2>2, <2>3 DEF Init, TypeOK, DestructorStates
<1>2. TypeOK /\ [Next]_vars => TypeOK'
  <2> SUFFICES ASSUME TypeOK, [Next]_vars PROVE TypeOK'
    OBVIOUS
  <2> USE ThreadPoolAssumption DEF TypeOK, WorkerStates, DestructorStates
  <2>1. ASSUME NEW c \in Callers, EnqueueTask(c) PROVE TypeOK'
    BY <2>1 DEF EnqueueTask
  <2>2. ASSUME NEW c \in Callers, NotifyOne(c) PROVE TypeOK'
    BY <2>2 DEF NotifyOne, Asleep
  <2>3. ASSUME NEW w \in Workers, TestStop(w) PROVE TypeOK'
    BY <2>3 DEF TestStop
  <2>4. ASSUME NEW w \in Workers, LockQueue(w) PROVE TypeOK'
    BY <2>4 DEF LockQueue
  <2>5. ASSUME NEW w \in Workers, PopTask(w) PROVE TypeOK'
    BY <2>5 DEF PopTask
  <2>6. ASSUME NEW w \in Workers, ReturnStopped(w) PROVE TypeOK'
    BY <2>6 DEF ReturnStopped
  <2>7. ASSUME NEW w \in Workers, PredicateFalse(w) PROVE TypeOK'
    BY <2>7 DEF PredicateFalse
  <2>8. ASSUME NEW w \in Workers, Block(w) PROVE TypeOK'
    BY <2>8 DEF Block
  <2>9. ASSUME NEW w \in Workers, SpuriousWakeup(w) PROVE TypeOK'
    BY <2>9 DEF SpuriousWakeup
  <2>10. ASSUME NEW w \in Workers, Execute(w) PROVE TypeOK'
    <3>1. overtime' \in [Workers -> Nat]
      BY <2>10 DEF Execute
    <3>2. /\ worker' \in [Workers -> WorkerStates] /\ executed' \subseteq Nat \cup {NoTask}
          /\ UNCHANGED <<m_tasks, m_stop, m_queueMutex, task, caller, destructor, pushed>>
      BY <2>10 DEF Execute
    <3> QED
      BY <3>1, <3>2
  <2>11. ASSUME NEW w \in Workers, TakeFront(w) PROVE TypeOK'
    BY <2>11 DEF TakeFront
  <2>12. CASE Destroy
    BY <2>12 DEF Destroy, StoreStop, NotifyAll, JoinAll
  <2>13. CASE UNCHANGED vars
    BY <2>13 DEF vars
  <2> QED
    BY <2>1, <2>2, <2>3, <2>4, <2>5, <2>6, <2>7, <2>8, <2>9, <2>10, <2>11, <2>12, <2>13
    DEF Next, WorkerThread
<1> QED
  BY <1>1, <1>2, PTL DEF Spec

(* Only PopTask, EnqueueTask and Execute move a task; the other steps leave *)
(* the queue, the running workers and the tasks these have as they are.     *)
LEMMA QuietSteps ==
  ASSUME IInv, UNCHANGED <<m_tasks, pushed, executed>>,
         Running' = Running, \A w \in Running : task'[w] = task[w]
  PROVE  InOrder' /\ ExactlyOnce'
<1>1. InOrder'
  BY DEF IInv, InOrder
<1>2. ExactlyOnce'
  BY DEF IInv, ExactlyOnce
<1> QED
  BY <1>1, <1>2

(* m_queueMutex is really held over the steps that rely on it.              *)
LEMMA MutexStep == TypeOK /\ MutexInv /\ [Next]_vars => MutexInv'
<1> SUFFICES ASSUME TypeOK, MutexInv, [Next]_vars PROVE MutexInv'
  OBVIOUS
<1> USE ThreadPoolAssumption DEF TypeOK, MutexInv, WorkerStates
<1>1. ASSUME NEW c \in Callers, EnqueueTask(c) PROVE MutexInv'
  BY <1>1 DEF EnqueueTask
<1>2. ASSUME NEW c \in Callers, NotifyOne(c) PROVE MutexInv'
  BY <1>2 DEF NotifyOne, Asleep
<1>3. ASSUME NEW w \in Workers, TestStop(w) PROVE MutexInv'
  BY <1>3 DEF TestStop
<1>4. ASSUME NEW w \in Workers, LockQueue(w) PROVE MutexInv'
  BY <1>4 DEF LockQueue
<1>5. ASSUME NEW w \in Workers, PopTask(w) PROVE MutexInv'
  BY <1>5 DEF PopTask
<1>6. ASSUME NEW w \in Workers, ReturnStopped(w) PROVE MutexInv'
  BY <1>6 DEF ReturnStopped
<1>7. ASSUME NEW w \in Workers, PredicateFalse(w) PROVE MutexInv'
  BY <1>7 DEF PredicateFalse
<1>8. ASSUME NEW w \in Workers, Block(w) PROVE MutexInv'
  BY <1>8 DEF Block
<1>9. ASSUME NEW w \in Workers, SpuriousWakeup(w) PROVE MutexInv'
  BY <1>9 DEF SpuriousWakeup
<1>10. ASSUME NEW w \in Workers, Execute(w) PROVE MutexInv'
  BY <1>10 DEF Execute
<1>11. ASSUME NEW w \in Workers, TakeFront(w) PROVE MutexInv'
  BY <1>11 DEF TakeFront
<1>12. CASE Destroy
  BY <1>12 DEF Destroy, StoreStop, NotifyAll, JoinAll
<1>13. CASE UNCHANGED vars
  BY <1>13 DEF vars
<1> QED
  BY <1>1, <1>2, <1>3, <1>4, <1>5, <1>6, <1>7, <1>8, <1>9, <1>10, <1>11, <1>12, <1>13
  DEF Next, WorkerThread

(* A push appends the next number, so the queue stays a run of numbers.     *)
LEMMA EnqueueStep ==
  ASSUME IInv, NEW c \in Callers, EnqueueTask(c)
  PROVE  InOrder' /\ ExactlyOnce'
<1> DEFINE n == Len(m_tasks)
<1> USE DEF IInv, TypeOK
<1>1. n \in Nat /\ Len(m_tasks') = n + 1 /\ pushed' = pushed + 1
  BY DEF EnqueueTask
<1>2. \A i \in 1..n : m_tasks'[i] = m_tasks[i]
  BY DEF EnqueueTask
<1>3. m_tasks'[n + 1] = pushed + 1
  BY DEF EnqueueTask
<1>4. InOrder'
  <2> SUFFICES ASSUME NEW i \in 1..(n + 1) PROVE m_tasks'[i] = pushed - n + i
    BY <1>1 DEF InOrder
  <2>1. CASE i \in 1..n
    BY <2>1, <1>1, <1>2 DEF InOrder
  <2>2. CASE i = n + 1
    BY <2>2, <1>1, <1>3
  <2> QED
    BY <1>1, <2>1, <2>2
<1>5. pushed' - Len(m_tasks') = pushed - Len(m_tasks)
  BY <1>1
<1>6. UNCHANGED <<worker, task, executed>>
  BY DEF EnqueueTask
<1>7. ExactlyOnce'
  BY <1>5, <1>6 DEF ExactlyOnce, Running
<1> QED
  BY <1>4, <1>7

(* The front copied is the front popped.                                    *)
LEMMA PopIsTail ==
  ASSUME TypeOK, MutexInv, NEW w \in Workers, PopTask(w)
  PROVE  m_tasks # <<>> /\ m_tasks' = Tail(m_tasks) /\ task[w] = Head(m_tasks)
BY SMTT(20) DEF TypeOK, MutexInv, PopTask

LEMMA TailFacts ==
  ASSUME m_tasks \in Seq(Nat), m_tasks # <<>>, m_tasks' = Tail(m_tasks)
  PROVE  /\ Len(m_tasks) \in Nat \ {0}
         /\ Len(m_tasks') = Len(m_tasks) - 1
         /\ \A i \in 1..(Len(m_tasks) - 1) : m_tasks'[i] = m_tasks[i + 1]
         /\ Head(m_tasks) = m_tasks[1]
OBVIOUS

(* A pop starts the task numbered just above all tasks started before.      *)
LEMMA PopStep ==
  ASSUME IInv, NEW w \in Workers, PopTask(w)
  PROVE  InOrder' /\ ExactlyOnce'
<1> DEFINE n == Len(m_tasks)
           last == pushed - n
<1> USE DEF IInv, TypeOK
<1>1. /\ n \in Nat \ {0}
      /\ Len(m_tasks') = n - 1
      /\ \A i \in 1..(n - 1) : m_tasks'[i] = m_tasks[i + 1]
      /\ Head(m_tasks) = m_tasks[1]
  BY PopIsTail, TailFacts
<1>2. Head(m_tasks) = last + 1
  BY <1>1 DEF InOrder
<1>3. UNCHANGED <<pushed, executed>>
  BY DEF PopTask
<1>4. InOrder'
  BY <1>1, <1>3 DEF InOrder
<1>5. pushed' - Len(m_tasks') = last + 1
  BY <1>1, <1>3
<1>6. w \notin Running /\ Running' = Running \cup {w}
  BY DEF PopTask, Running, WorkerStates
<1>7. task'[w] = last + 1 /\ \A v \in Running : task'[v] = task[v]
  BY <1>2, <1>6, PopIsTail DEF PopTask, Running
<1>8. last \in Nat
  BY <1>1 DEF InOrder
<1>9. \A v \in Running : task[v] \in 1..last
  BY DEF ExactlyOnce
<1>10. 1..(last + 1) = 1..last \cup {last + 1} /\ last + 1 \notin 1..last
  BY <1>8
<1>11. executed \subseteq 1..last
  BY DEF ExactlyOnce
<1>12. \A v \in Running' : task'[v] \in 1..(last + 1)
  BY <1>6, <1>7, <1>9, <1>10
<1>13. \A u, v \in Running' : task'[u] = task'[v] => u = v
  BY <1>6, <1>7, <1>9, <1>10 DEF ExactlyOnce
<1>14. ASSUME NEW t \in 1..(last + 1)
       PROVE  \/ t \in executed /\ \A v \in Running' : task'[v] # t
              \/ t \notin executed /\ \E v \in Running' : task'[v] = t
  <2>1. CASE t = last + 1
    BY <2>1, <1>6, <1>7, <1>10, <1>11
  <2>2. CASE t \in 1..last
    BY <2>2, <1>6, <1>7, <1>10 DEF ExactlyOnce
  <2> QED
    BY <2>1, <2>2, <1>10
<1>15. ExactlyOnce'
  BY <1>3, <1>5, <1>10, <1>11, <1>12, <1>13, <1>14 DEF ExactlyOnce
<1> QED
  BY <1>4, <1>15

(* A task that returns leaves its worker and joins the executed ones.       *)
LEMMA ExecuteStep ==
  ASSUME IInv, NEW w \in Workers, Execute(w)
  PROVE  InOrder' /\ ExactlyOnce'
<1> DEFINE last == pushed - Len(m_tasks)
<1> USE DEF IInv, TypeOK
<1>1. UNCHANGED <<m_tasks, pushed, task>> /\ executed' = executed \cup {task[w]}
  BY DEF Execute
<1>2. w \in Running /\ Running' = Running \ {w}
  BY DEF Execute, Running, WorkerStates
<1>3. InOrder'
  BY <1>1 DEF InOrder
<1>4. ExactlyOnce'
  BY <1>1, <1>2 DEF ExactlyOnce
<1> QED
  BY <1>3, <1>4

(* The conjunction is inductive: each part needs the others.                *)
THEOREM Inductive == Spec => []IInv
<1>1. Init => MutexInv /\ InOrder /\ ExactlyOnce
  <2> SUFFICES ASSUME Init PROVE MutexInv /\ InOrder /\ ExactlyOnce
    OBVIOUS
  <2>1. MutexInv
    BY ThreadPoolAssumption DEF Init, MutexInv
  <2>2. Len(m_tasks) = 0 /\ pushed = 0 /\ Running = {} /\ executed = {}
    BY DEF Init, Running
  <2>3. InOrder /\ ExactlyOnce
    BY <2>2 DEF InOrder, ExactlyOnce
  <2> QED
    BY <2>1, <2>3
<1>2. TypeOK' /\ IInv /\ [Next]_vars => IInv'
  <2> SUFFICES ASSUME TypeOK', IInv, [Next]_vars PROVE InOrder' /\ ExactlyOnce'
    BY MutexStep DEF IInv
  <2> USE DEF IInv, TypeOK, Running, WorkerStates
  <2>1. ASSUME NEW c \in Callers, EnqueueTask(c) PROVE InOrder' /\ ExactlyOnce'
    BY <2>1, EnqueueStep
  <2>2. ASSUME NEW c \in Callers, NotifyOne(c) PROVE InOrder' /\ ExactlyOnce'
    <3>1. Running' = Running /\ UNCHANGED <<m_tasks, pushed, executed, task>>
      BY <2>2 DEF NotifyOne, Asleep
    <3> QED
      BY <3>1, QuietSteps
  <2>3. ASSUME NEW w \in Workers, TestStop(w) \/ TakeFront(w) PROVE InOrder' /\ ExactlyOnce'
    <3>1. Running' = Running /\ UNCHANGED <<m_tasks, pushed, executed>>
      BY <2>3 DEF TestStop, TakeFront
    <3>2. \A v \in Running : task'[v] = task[v]
      BY <2>3 DEF TestStop, TakeFront
    <3> QED
      BY <3>1, <3>2, QuietSteps
  <2>4. ASSUME NEW w \in Workers,
               LockQueue(w) \/ ReturnStopped(w) \/ PredicateFalse(w) \/ Block(w)
                 \/ SpuriousWakeup(w)
        PROVE  InOrder' /\ ExactlyOnce'
    <3>1. Running' = Running /\ UNCHANGED <<m_tasks, pushed, executed, task>>
      BY <2>4 DEF LockQueue, ReturnStopped, PredicateFalse, Block, SpuriousWakeup
    <3> QED
      BY <3>1, QuietSteps
  <2>5. ASSUME NEW w \in Workers, PopTask(w) PROVE InOrder' /\ ExactlyOnce'
    BY <2>5, PopStep
  <2>6. ASSUME NEW w \in Workers, Execute(w) PROVE InOrder' /\ ExactlyOnce'
    BY <2>6, ExecuteStep
  <2>7. ASSUME Destroy PROVE InOrder' /\ ExactlyOnce'
    <3>1. Running' = Running /\ UNCHANGED <<m_tasks, pushed, executed, task>>
      BY <2>7 DEF Destroy, StoreStop, NotifyAll, JoinAll
    <3> QED
      BY <3>1, QuietSteps
  <2>8. ASSUME UNCHANGED vars PROVE InOrder' /\ ExactlyOnce'
    <3>1. Running' = Running /\ UNCHANGED <<m_tasks, pushed, executed, task>>
      BY <2>8 DEF vars
    <3> QED
      BY <3>1, QuietSteps
  <2> QED
    BY <2>1, <2>2, <2>3, <2>4, <2>5, <2>6, <2>7, <2>8 DEF Next, WorkerThread
<1>3. IInv <=> TypeOK /\ MutexInv /\ InOrder /\ ExactlyOnce
  BY DEF IInv
<1> QED
  BY <1>1, <1>2, <1>3, Typing, PTL DEF Spec

(* Every task pushed is queued, held by one worker, or executed, never two  *)
(* of these, and no two workers hold the same task.                         *)
THEOREM Exactness == Spec => []ExactlyOnce
<1>1. IInv => ExactlyOnce
  BY DEF IInv
<1> QED
  BY <1>1, Inductive, PTL

-------------------------------------------------------------------------------
(* The pool implements the queue its callers rely on: pushes are Submit,    *)
(* pops Start, returning callbacks Finish, and every other step of a worker,*)
(* a caller or the destructor is invisible.                                 *)
THEOREM Implementation == Spec => QueueSpec
<1>1. Init => Queue!Init
  BY DEF Init, Queue!Init, Running
<1>2. IInv /\ IInv' /\ [Next]_vars => [Queue!Next]_Queue!vars
  <2> SUFFICES ASSUME IInv, IInv', [Next]_vars PROVE [Queue!Next]_Queue!vars
    OBVIOUS
  <2> USE DEF IInv, TypeOK
  <2>1. ASSUME NEW c \in Callers, EnqueueTask(c) PROVE Queue!Submit
    BY <2>1 DEF EnqueueTask, Queue!Submit, Running
  <2>2. ASSUME NEW w \in Workers, PopTask(w) PROVE Queue!Start
    <3>1. w \notin Running /\ Running' = Running \cup {w}
      BY <2>2 DEF PopTask, Running, WorkerStates
    <3>2. task'[w] = Head(m_tasks) /\ \A v \in Running : task'[v] = task[v]
      BY <2>2, <3>1, PopIsTail DEF PopTask, Running
    <3>3. {task'[v] : v \in Running'} = {task[v] : v \in Running} \cup {Head(m_tasks)}
      BY <3>1, <3>2
    <3>4. Head(m_tasks) = pushed - Len(m_tasks) + 1 /\ Len(m_tasks) \in Nat
      BY <2>2, PopIsTail, TailFacts DEF InOrder
    <3>5. Head(m_tasks) \notin {task[v] : v \in Running} \cup executed
      <4>1. Head(m_tasks) \notin 1..(pushed - Len(m_tasks))
        BY <3>4
      <4>2. \A v \in Running : task[v] \in 1..(pushed - Len(m_tasks))
        BY DEF ExactlyOnce
      <4>3. executed \subseteq 1..(pushed - Len(m_tasks))
        BY DEF ExactlyOnce
      <4> QED
        BY <4>1, <4>2, <4>3
    <3>6. m_tasks # <<>> /\ m_tasks' = Tail(m_tasks)
      BY <2>2, PopIsTail
    <3> QED
      BY <2>2, <3>3, <3>5, <3>6 DEF PopTask, Queue!Start
  <2>3. ASSUME NEW w \in Workers, Execute(w) PROVE Queue!Finish
    <3>1. w \in Running /\ Running' = Running \ {w} /\ task' = task
      BY <2>3 DEF Execute, Running, WorkerStates
    <3>2. {task'[v] : v \in Running'} = {task[v] : v \in Running} \ {task[w]}
      BY <3>1 DEF ExactlyOnce
    <3>3. task[w] \in {task[v] : v \in Running}
      BY <3>1
    <3>4. executed' = executed \cup {task[w]} /\ UNCHANGED <<pushed, m_tasks>>
      BY <2>3 DEF Execute
    <3> QED
      BY <3>2, <3>3, <3>4 DEF Queue!Finish
  <2>4. ASSUME Running' = Running, \A v \in Running : task'[v] = task[v],
               UNCHANGED <<m_tasks, pushed, executed>>
        PROVE  UNCHANGED Queue!vars
    BY <2>4 DEF Queue!vars
  <2>5. ASSUME NEW c \in Callers, NotifyOne(c) PROVE UNCHANGED Queue!vars
    <3>1. Running' = Running /\ UNCHANGED <<m_tasks, pushed, executed, task>>
      BY <2>5 DEF NotifyOne, Asleep, Running, WorkerStates
    <3> QED
      BY <3>1, <2>4
  <2>6. ASSUME NEW w \in Workers, TestStop(w) \/ TakeFront(w) PROVE UNCHANGED Queue!vars
    <3>1. /\ Running' = Running /\ UNCHANGED <<m_tasks, pushed, executed>>
          /\ \A v \in Running : task'[v] = task[v]
      BY <2>6 DEF TestStop, TakeFront, Running, WorkerStates
    <3> QED
      BY <3>1, <2>4
  <2>7. ASSUME NEW w \in Workers,
               LockQueue(w) \/ ReturnStopped(w) \/ PredicateFalse(w) \/ Block(w)
                 \/ SpuriousWakeup(w)
        PROVE  UNCHANGED Queue!vars
    <3>1. Running' = Running /\ UNCHANGED <<m_tasks, pushed, executed, task>>
      BY <2>7 DEF LockQueue, ReturnStopped, PredicateFalse, Block, SpuriousWakeup,
                  Running, WorkerStates
    <3> QED
      BY <3>1, <2>4
  <2>8. ASSUME Destroy \/ UNCHANGED vars PROVE UNCHANGED Queue!vars
    <3>1. Running' = Running /\ UNCHANGED <<m_tasks, pushed, executed, task>>
      BY <2>8 DEF Destroy, StoreStop, NotifyAll, JoinAll, vars, Running, WorkerStates
    <3> QED
      BY <3>1, <2>4
  <2> QED
    BY <2>1, <2>2, <2>3, <2>5, <2>6, <2>7, <2>8 DEF Next, WorkerThread, Queue!Next
<1> QED
  BY <1>1, <1>2, Inductive, PTL DEF Spec, QueueSpec, Queue!Spec

(* What makes the stop prompt: m_stop stays set, a worker that has finished *)
(* a callback since goes back to the loop test, which it does not pass, and *)
(* a destructor that is done has seen all workers leave.                    *)
StopInv ==
  /\ destructor # "alive" => m_stop
  /\ \A w \in Workers : \/ overtime[w] = 0
                        \/ overtime[w] = 1 /\ m_stop /\ worker[w] \in {"loop", "exited"}
  /\ destructor = "done" => \A w \in Workers : worker[w] = "exited"

LEMMA StopStep == TypeOK /\ StopInv /\ [Next]_vars => StopInv'
<1> SUFFICES ASSUME TypeOK, StopInv, [Next]_vars PROVE StopInv'
  OBVIOUS
<1> USE ThreadPoolAssumption DEF TypeOK, StopInv, WorkerStates
<1>1. ASSUME NEW c \in Callers, EnqueueTask(c) PROVE StopInv'
  BY <1>1 DEF EnqueueTask
<1>2. ASSUME NEW c \in Callers, NotifyOne(c) PROVE StopInv'
  BY <1>2 DEF NotifyOne, Asleep
<1>3. ASSUME NEW w \in Workers, TestStop(w) PROVE StopInv'
  BY <1>3 DEF TestStop
<1>4. ASSUME NEW w \in Workers, LockQueue(w) PROVE StopInv'
  BY <1>4 DEF LockQueue
<1>5. ASSUME NEW w \in Workers, TakeFront(w) \/ PopTask(w) PROVE StopInv'
  BY <1>5 DEF TakeFront, PopTask
<1>6. ASSUME NEW w \in Workers, ReturnStopped(w) PROVE StopInv'
  BY <1>6 DEF ReturnStopped
<1>7. ASSUME NEW w \in Workers, PredicateFalse(w) \/ Block(w) PROVE StopInv'
  BY <1>7 DEF PredicateFalse, Block
<1>8. ASSUME NEW w \in Workers, SpuriousWakeup(w) PROVE StopInv'
  BY <1>8 DEF SpuriousWakeup
<1>9. ASSUME NEW w \in Workers, Execute(w) PROVE StopInv'
  BY <1>9 DEF Execute
<1>10. CASE StoreStop
  BY <1>10 DEF StoreStop
<1>11. CASE NotifyAll
  BY <1>11 DEF NotifyAll
<1>12. CASE JoinAll
  BY <1>12 DEF JoinAll
<1>13. CASE UNCHANGED vars
  BY <1>13 DEF vars
<1> QED
  BY <1>1, <1>2, <1>3, <1>4, <1>5, <1>6, <1>7, <1>8, <1>9, <1>10, <1>11, <1>12, <1>13
  DEF Next, WorkerThread, Destroy

(* Once m_stop is set each worker finishes at most one more callback, and   *)
(* when the destructor is done the tasks that did run are the first pushed. *)
THEOREM StopPrompt == Spec => []StopIsPrompt
<1>1. Init => StopInv
  BY ThreadPoolAssumption DEF Init, StopInv
<1>2. IInv /\ StopInv => StopIsPrompt
  <2> SUFFICES ASSUME IInv, StopInv PROVE StopIsPrompt
    OBVIOUS
  <2>1. \A w \in Workers : overtime[w] <= 1
    BY DEF StopInv
  <2>2. ASSUME destructor = "done" PROVE executed = 1..(pushed - Len(m_tasks))
    <3>1. Running = {}
      BY <2>2 DEF StopInv, Running
    <3> QED
      BY <3>1 DEF IInv, ExactlyOnce
  <2> QED
    BY <2>1, <2>2 DEF StopIsPrompt
<1> QED
  BY <1>1, <1>2, StopStep, Inductive, Typing, PTL DEF Spec

-------------------------------------------------------------------------------
(* What the counting argument needs of the two sets it counts.              *)
LEMMA Counts ==
  /\ IsFiniteSet(Notifying) /\ Cardinality(Notifying) \in Nat
  /\ IsFiniteSet(Heading) /\ Cardinality(Heading) \in Nat
<1>1. IsFiniteSet(Notifying) /\ IsFiniteSet(Heading)
  BY ThreadPoolAssumption, FS_Subset DEF Notifying, Heading
<1> QED
  BY <1>1, FS_CardinalityType

(* Each step pays for the task it adds, or for the notification it uses up, *)
(* with a caller that will notify or a worker that will look.               *)
LEMMA WakeupStep == IInv /\ NoLostWakeup /\ [Next]_vars => NoLostWakeup'
<1> SUFFICES ASSUME IInv, NoLostWakeup, [Next]_vars, ~m_stop', Asleep' # {}
             PROVE  Len(m_tasks') <= Cardinality(Notifying') + Cardinality(Heading')
  BY DEF NoLostWakeup
<1> DEFINE Goal == Len(m_tasks') <= Cardinality(Notifying') + Cardinality(Heading')
<1> USE DEF IInv, TypeOK, WorkerStates
<1>0. /\ Len(m_tasks) \in Nat
      /\ IsFiniteSet(Notifying) /\ Cardinality(Notifying) \in Nat
      /\ IsFiniteSet(Heading) /\ Cardinality(Heading) \in Nat
  BY Counts
<1>1. ASSUME NEW c \in Callers, EnqueueTask(c) PROVE Goal
  <2>1. c \notin Notifying /\ Notifying' = Notifying \cup {c}
    BY <1>1 DEF EnqueueTask, Notifying
  <2>2. Heading' = Heading /\ Asleep' = Asleep /\ ~m_stop
    BY <1>1 DEF EnqueueTask, Heading, Asleep
  <2>3. Len(m_tasks') = Len(m_tasks) + 1
    BY <1>1 DEF EnqueueTask
  <2>4. Cardinality(Notifying') = Cardinality(Notifying) + 1
    BY <2>1, <1>0, FS_AddElement
  <2> QED
    BY <1>0, <2>2, <2>3, <2>4 DEF NoLostWakeup
<1>2. ASSUME NEW c \in Callers, NotifyOne(c) PROVE Goal
  <2>1. c \in Notifying /\ Notifying' = Notifying \ {c} /\ m_tasks' = m_tasks /\ ~m_stop
    BY <1>2 DEF NotifyOne, Notifying
  <2>2. PICK w \in Asleep : worker' = [worker EXCEPT ![w] = "lock"]
    BY <1>2 DEF NotifyOne, Asleep
  <2>3. w \notin Heading /\ Heading' = Heading \cup {w}
    BY <2>2 DEF Heading, Asleep
  <2>4. Cardinality(Notifying') = Cardinality(Notifying) - 1
    BY <2>1, <1>0, FS_RemoveElement
  <2>5. Cardinality(Heading') = Cardinality(Heading) + 1
    BY <2>3, <1>0, FS_AddElement
  <2> QED
    BY <1>0, <2>1, <2>2, <2>4, <2>5 DEF NoLostWakeup
<1>3. ASSUME NEW w \in Workers, TestStop(w) \/ LockQueue(w) \/ TakeFront(w) PROVE Goal
  <2>1. UNCHANGED <<m_tasks, m_stop, caller>>
    BY <1>3 DEF TestStop, LockQueue, TakeFront
  <2>2. Heading' = Heading /\ Asleep' = Asleep
    BY <1>3 DEF TestStop, LockQueue, TakeFront, Heading, Asleep
  <2> QED
    BY <2>1, <2>2 DEF NoLostWakeup, Notifying
<1>4. ASSUME NEW w \in Workers, PopTask(w) PROVE Goal
  <2>1. w \in Heading /\ Heading' = Heading \ {w} /\ Asleep' = Asleep
    BY <1>4 DEF PopTask, Heading, Asleep
  <2>2. Cardinality(Heading') = Cardinality(Heading) - 1
    BY <2>1, <1>0, FS_RemoveElement
  <2>3. Len(m_tasks') = Len(m_tasks) - 1 /\ ~m_stop /\ Notifying' = Notifying
    BY <1>4, PopIsTail, TailFacts DEF PopTask, Notifying
  <2> QED
    BY <1>0, <2>1, <2>2, <2>3 DEF NoLostWakeup
<1>5. ASSUME m_tasks' = <<>> PROVE Goal
  <2>1. Len(m_tasks') = 0
    BY <1>5
  <2>2. Notifying' \subseteq Callers /\ Heading' \subseteq Workers
    BY DEF Notifying, Heading
  <2>3. IsFiniteSet(Notifying') /\ IsFiniteSet(Heading')
    BY <2>2, ThreadPoolAssumption, FS_Subset
  <2>4. Cardinality(Notifying') \in Nat /\ Cardinality(Heading') \in Nat
    BY <2>3, FS_CardinalityType
  <2> QED
    BY <2>1, <2>4
<1>6. ASSUME NEW w \in Workers, ReturnStopped(w) \/ PredicateFalse(w) \/ Block(w) PROVE Goal
  <2>1. m_tasks' = <<>>
    BY <1>6 DEF ReturnStopped, PredicateFalse, Block, MutexInv
  <2> QED
    BY <2>1, <1>5
<1>7. ASSUME NEW w \in Workers, SpuriousWakeup(w) \/ Execute(w) PROVE Goal
  <2>1. UNCHANGED <<m_tasks, m_stop, caller>>
    BY <1>7 DEF SpuriousWakeup, Execute
  <2>2. w \notin Heading /\ Heading' = Heading \cup {w} /\ Asleep # {}
    BY <1>7 DEF SpuriousWakeup, Execute, Heading, Asleep
  <2>3. Cardinality(Heading') = Cardinality(Heading) + 1
    BY <2>2, <1>0, FS_AddElement
  <2> QED
    BY <1>0, <2>1, <2>2, <2>3 DEF NoLostWakeup, Notifying
<1>8. ASSUME Destroy PROVE Goal
  <2>1. JoinAll
    BY <1>8 DEF Destroy, StoreStop, NotifyAll, Asleep
  <2> QED
    BY <2>1 DEF JoinAll, NoLostWakeup, Notifying, Heading, Asleep
<1>9. ASSUME UNCHANGED vars PROVE Goal
  BY <1>9 DEF vars, NoLostWakeup, Notifying, Heading, Asleep
<1> QED
  BY <1>1, <1>2, <1>3, <1>4, <1>6, <1>7, <1>8, <1>9 DEF Next, WorkerThread

(* No task waits in the queue while a worker sleeps that nobody is going to *)
(* wake: enqueueTask's notify_one after the unlock loses nothing.           *)
THEOREM WakeupsSuffice == Spec => []NoLostWakeup
<1>1. Init => NoLostWakeup
  BY DEF Init, NoLostWakeup, Asleep
<1> QED
  BY <1>1, WakeupStep, Inductive, PTL DEF Spec
===============================================================================
