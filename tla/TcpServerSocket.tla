---------------------------- MODULE TcpServerSocket ----------------------------
(***************************************************************************)
(* The server of src/socket/server: the acceptor thread, the event loops   *)
(* of EventScheduler, the workers of IOWorkerThreadHandler and the thread  *)
(* of main() that starts and stops them, over the connections' heap        *)
(* objects (EventStorePointer), the map that owns them and the pool's task *)
(* queue, here the queue that TaskQueue promises.                          *)
(*                                                                         *)
(* An address is live while store[p] # Nil.  A thread that dereferences a  *)
(* dead address reads any value, writes nothing that matters, or ends the  *)
(* process: the outcomes of the undefined behaviour that are followed.     *)
(***************************************************************************)
EXTENDS Network

CONSTANTS
  Workers,        \* the threads of the pool
  Tls,            \* TLSServerSocketHandler, else TCPServerSocketHandler
  Receivers,      \* m_eventReceiver before setEventReceiver: uninitialised
  StopRequested   \* main() calls stopPolling

Acceptor == NumLoops
Threads == Loops \cup {Acceptor}
Main == NumLoops + 1

Kinds == {"New", "Data", "Closed"}   \* enum EventType

VARIABLES
  store,                  \* the heap: EventStorePointer objects by address
  clientEventStores,      \* the unique_ptr of each descriptor number
  clientEventStoresMutex, \* the thread that holds it over several steps
  tasks,                  \* the thread pool's queue
  posted,                 \* history: the kinds of task posted for each client
  pc,                     \* where the acceptor and each loop are
  newStore,               \* clientEventStore in the acceptor's handleIOEvent
  batch,                  \* m_events[i..event_count) of each loop
  current,                \* the eventStorePointer each loop is handling
  worker,                 \* what each worker does, on which task
  main,                   \* where the thread of main() is
  m_currentIndex,         \* EventScheduler: the loop chosen last
  m_continuePolling,      \* of each SocketEventHandler; false: epoll closed too
  m_eventReceiver,
  process                 \* "up", or "terminated" by std::terminate or a fault

owners == <<clientEventStores, clientEventStoresMutex>>
pool == <<tasks, posted>>
polling == <<batch, current>>
scheduler == <<m_currentIndex, m_continuePolling>>
application == <<main, m_eventReceiver>>
servervars == <<owners, pool, polling, scheduler, application, store, pc, newStore, worker,
                process>>
vars == <<netvars, servervars>>

(* EventStorePointer.  conn is the connection it was made for; ssl: m_SSL   *)
(* is a session.                                                            *)
Stores == [conn : Clients, fd : Fds, type : Kinds, loop : Loops \cup {Nil}, ssl : BOOLEAN]

(* conn and kind say what the task was posted for; the code has ptr alone.  *)
Tasks == [ptr : Ptrs, conn : Clients \cup {Nil}, kind : Kinds]

ASSUME ServerAssumption ==
  /\ Tls \in BOOLEAN
  /\ Receivers \subseteq {"null", "wild", "set"}
  /\ StopRequested \in BOOLEAN
  /\ Nil \notin Stores \cup Tasks

Live(p) == store[p] # Nil
Conn(p) == IF Live(p) THEN store[p].conn ELSE Nil

(* Mutants, here and below, are operators no action uses: each is a bug of  *)
(* this kind of code that put in place of the next operator breaks a        *)
(* property.  Two branches of handleCallBackEvent swapped.                  *)
MutantCallback == [New |-> "connectionClosedEvent", Data |-> "dataEvent",
                   Closed |-> "newConnectionEvent"]

(* The callback of EventReceiver for each kind of event.                    *)
Callback == [New |-> "newConnectionEvent", Data |-> "dataEvent",
             Closed |-> "connectionClosedEvent"]

Idle == [pc |-> "idle", task |-> Nil, size |-> 0]

Init ==
  /\ NetInit
  /\ store = [p \in Ptrs |-> Nil]
  /\ clientEventStores = [f \in Fds |-> Nil]
  /\ clientEventStoresMutex = Nil
  /\ tasks = <<>>
  /\ posted = [c \in Clients |-> {}]
  /\ pc = [t \in Threads |-> "off"]
  /\ newStore = Nil
  /\ batch = [i \in Loops |-> {}]
  /\ current = [i \in Loops |-> Nil]
  /\ worker = [w \in Workers |-> Idle]
  /\ main = "created"
  /\ m_currentIndex = 0
  /\ m_continuePolling = [t \in Threads |-> TRUE]
  /\ m_eventReceiver \in Receivers
  /\ process = "up"

(* IOWorkerThreadHandler::handleIOEvent: enqueueTask(ptr, m_taskFunction).  *)
Post(p, kind) ==
  /\ tasks' = Append(tasks, [ptr |-> p, conn |-> Conn(p), kind |-> kind])
  /\ posted' = [c \in Clients |-> IF c = Conn(p) THEN posted[c] \cup {kind} ELSE posted[c]]

(* A lock_guard that is a temporary, and unlocks at once.                   *)
MutantLockStores(t) == clientEventStoresMutex = Nil /\ UNCHANGED clientEventStoresMutex

(* lock_guard on clientEventStoresMutex, held until a later step.           *)
LockStores(t) == clientEventStoresMutex = Nil /\ clientEventStoresMutex' = t

(* m_SSL looked at by every handler, or by none.                            *)
MutantClosableSsl(p) == store[p].ssl
MutantClosableAlways(p) == TRUE

(* closeConnection closes the descriptor, under TLS only with a session.    *)
Closable(p) == ~Tls \/ store[p].ssl

(* m_socketMutex of the store: held by a worker while it receives.          *)
Receiving(p) == \E w \in Workers : worker[w].pc = "reading" /\ worker[w].task.ptr = p

Terminate ==
  /\ process' = "terminated"
  /\ UNCHANGED <<netvars, owners, pool, polling, scheduler, application, store, pc,
                 newStore, worker>>

-------------------------------------------------------------------------------
(* main(): startReceivingConnection, createServerSocketAndStartReceiving,   *)
(* setEventReceiver, and later stopPolling.                                 *)

StartReceivingConnection ==
  /\ main = "created"
  /\ main' = "loops"
  /\ pc' = [t \in Threads |-> IF t \in Loops THEN "poll" ELSE pc[t]]
  /\ UNCHANGED <<netvars, owners, pool, polling, scheduler, store, newStore, worker,
                 m_eventReceiver, process>>

CreateServerSocketAndStartReceiving ==
  /\ main = "loops"
  /\ main' = "listening"
  /\ listener' = "watched"
  /\ pc' = [pc EXCEPT ![Acceptor] = "poll"]
  /\ UNCHANGED <<endpoints, descriptors, owners, pool, polling, scheduler, backlog,
                 listenerEdge, store, newStore, worker, m_eventReceiver, process>>

(* createServerSocket throws when the address is in use or no descriptor is *)
(* left; main() does not catch.                                             *)
CreateServerSocketError == main = "loops" /\ Terminate

SetEventReceiver ==
  /\ main = "listening"
  /\ main' = "serving"
  /\ m_eventReceiver' = "set"
  /\ UNCHANGED <<netvars, owners, pool, polling, scheduler, store, pc, newStore, worker,
                 process>>

(* m_serverSocketID is never assigned: it may be -1 or no descriptor, and   *)
(* nothing is done.  Else the listener leaves its epoll and its store is    *)
(* closed; under TLS that store's m_SSL is uninitialised as well.           *)
CloseServerSocket ==
  /\ main = "serving"
  /\ StopRequested
  /\ \/ /\ main' = "stopAcceptor"
        /\ UNCHANGED <<listening, process>>
     \/ /\ main' = "stopAcceptor"
        /\ listener' = IF Tls THEN "unwatched" ELSE "closed"
        /\ backlog' = IF Tls THEN backlog ELSE <<>>
        /\ listenerEdge' = FALSE
        /\ UNCHANGED process
     \/ /\ Tls
        /\ process' = "terminated"
        /\ UNCHANGED <<listening, main>>
  /\ UNCHANGED <<endpoints, descriptors, owners, pool, polling, scheduler, store, pc,
                 newStore, worker, m_eventReceiver>>

(* stopEventThread: stopPolling, then closeEpoll; the thread is not joined. *)
StopEventThread(t) ==
  /\ m_continuePolling[t]
  /\ \/ t = Acceptor /\ main = "stopAcceptor" /\ main' = "stopLoops"
     \/ /\ t \in Loops /\ main = "stopLoops"
        /\ \A i \in Loops : i < t => ~m_continuePolling[i]
        /\ main' = IF t = NumLoops - 1 THEN "closeClients" ELSE main
  /\ m_continuePolling' = [m_continuePolling EXCEPT ![t] = FALSE]
  /\ UNCHANGED <<netvars, owners, pool, polling, store, pc, newStore, worker,
                 m_currentIndex, m_eventReceiver, process>>

Owned == {clientEventStores[f] : f \in Fds} \ {Nil}

(* closeAllClientSocket: closeConnection on each, then clear().             *)
CloseClients ==
  /\ main = "closeClients"
  /\ LockStores(Main)
  /\ Tls => \A p \in Owned : ~Receiving(p)
  /\ CloseFds({store[p].fd : p \in {q \in Owned : Closable(q)}})
  /\ store' = [p \in Ptrs |-> IF p \in Owned THEN [store[p] EXCEPT !.ssl = FALSE] ELSE store[p]]
  /\ main' = "clearClients"
  /\ UNCHANGED <<listening, endpoints, pool, polling, scheduler, clientEventStores, pc,
                 newStore, worker, m_eventReceiver, process>>

ClearClients ==
  /\ main = "clearClients"
  /\ clientEventStoresMutex' = Nil
  /\ store' = [p \in Ptrs |-> IF p \in Owned THEN Nil ELSE store[p]]
  /\ clientEventStores' = [f \in Fds |-> Nil]
  /\ main' = "stopped"
  /\ UNCHANGED <<netvars, pool, polling, scheduler, pc, newStore, worker, m_eventReceiver,
                 process>>

StopPolling ==
  \/ CloseServerSocket
  \/ \E t \in Threads : StopEventThread(t)
  \/ CloseClients
  \/ ClearClients

MainThread ==
  \/ StartReceivingConnection \/ CreateServerSocketAndStartReceiving
  \/ CreateServerSocketError \/ SetEventReceiver \/ StopPolling

-------------------------------------------------------------------------------
(* startPolling, the loop that acceptor and event loops share               *)

(* while (m_continuePolling) sees the flag; epoll_wait gives up after 500ms.*)
ExitPolling(t) ==
  /\ pc[t] = "poll"
  /\ ~m_continuePolling[t]
  /\ pc' = [pc EXCEPT ![t] = "exited"]
  /\ UNCHANGED <<netvars, owners, pool, polling, scheduler, application, store, newStore,
                 worker, process>>

(* accept() called again and again, without a look at the flag.             *)
MutantAfterEvent(t, rest) ==
  IF rest # {} THEN "batch" ELSE IF t = Acceptor THEN "accept" ELSE "poll"

(* Where a thread goes after an event, when rest are still to be handled.   *)
AfterEvent(t, rest) ==
  IF rest # {} THEN "batch" ELSE IF m_continuePolling[t] THEN "poll" ELSE "exited"

-------------------------------------------------------------------------------
(* The acceptor: TcpServerSocket::handleIOEvent once for each event.        *)

AcceptorEvent ==
  /\ pc[Acceptor] = "poll"
  /\ listenerEdge
  /\ listenerEdge' = FALSE
  /\ pc' = [pc EXCEPT ![Acceptor] = IF m_continuePolling[Acceptor] THEN "accept" ELSE "exited"]
  /\ UNCHANGED <<endpoints, descriptors, owners, pool, polling, scheduler, application,
                 backlog, listener, store, newStore, worker, process>>

(* accept() and the new EventStorePointer.  m_SSL is not initialised.       *)
Accept(f, p) ==
  /\ pc[Acceptor] = "accept"
  /\ LockStores(Acceptor)
  /\ backlog # <<>>
  /\ file[f] = Nil
  /\ ~Live(p)
  /\ backlog' = Tail(backlog)
  /\ file' = [file EXCEPT ![f] = Head(backlog)]
  /\ store' = [store EXCEPT ![p] = [conn |-> Head(backlog), fd |-> f, type |-> "New",
                                    loop |-> Nil, ssl |-> FALSE]]
  /\ newStore' = p
  /\ pc' = [pc EXCEPT ![Acceptor] = "init"]
  /\ UNCHANGED <<endpoints, pool, polling, scheduler, application, listener, listenerEdge,
                 interest, ready, clientEventStores, worker, process>>

(* accept() fails: no connection, a closed listener, or no descriptor left. *)
AcceptError ==
  /\ pc[Acceptor] = "accept"
  /\ clientEventStoresMutex = Nil
  /\ backlog = <<>> \/ \A f \in Fds : file[f] # Nil
  /\ pc' = [pc EXCEPT ![Acceptor] = AfterEvent(Acceptor, {})]
  /\ UNCHANGED <<netvars, owners, pool, polling, scheduler, application, store, newStore,
                 worker, process>>

(* initConnection.  Under TLS a null m_SSL skips the handshake, a failed    *)
(* handshake closes the descriptor, and the result is not looked at.        *)
InitConnection ==
  /\ pc[Acceptor] = "init"
  /\ \/ UNCHANGED <<descriptors, store>>
     \/ /\ Tls
        /\ CloseFds({store[newStore].fd})
        /\ UNCHANGED store
     \/ /\ Tls
        /\ store' = [store EXCEPT ![newStore].ssl = TRUE]
        /\ UNCHANGED descriptors
  /\ pc' = [pc EXCEPT ![Acceptor] = "add"]
  /\ UNCHANGED <<listening, endpoints, owners, pool, polling, scheduler, application,
                 newStore, worker, process>>

(* The round robin without its modulo.                                      *)
MutantNextIndex == m_currentIndex + 1

NextIndex == (m_currentIndex + 1) % NumLoops

(* EventScheduler::addSocket and SocketEventHandler::addSocket.             *)
AddSocket ==
  /\ pc[Acceptor] = "add"
  /\ m_currentIndex' = NextIndex
  /\ LET f == store[newStore].fd
     IN  IF m_continuePolling[NextIndex] /\ file[f] # Nil
         THEN /\ EpollAdd(NextIndex, f, newStore)
              /\ store' = [store EXCEPT ![newStore].loop = NextIndex]
         ELSE UNCHANGED <<interest, ready, store>>
  /\ pc' = [pc EXCEPT ![Acceptor] = "insert"]
  /\ UNCHANGED <<listening, endpoints, owners, pool, polling, application, file, newStore,
                 worker, m_continuePolling, process>>

(* The store enters the map, freeing whatever had its number, and the task  *)
(* is posted; the mutex is released.                                        *)
InsertAndPost ==
  /\ pc[Acceptor] = "insert"
  /\ LET f == store[newStore].fd
     IN  /\ clientEventStores' = [clientEventStores EXCEPT ![f] = newStore]
         /\ store' = [p \in Ptrs |-> IF p = clientEventStores[f] THEN Nil ELSE store[p]]
  /\ Post(newStore, "New")
  /\ newStore' = Nil
  /\ clientEventStoresMutex' = Nil
  /\ pc' = [pc EXCEPT ![Acceptor] = AfterEvent(Acceptor, {})]
  /\ UNCHANGED <<netvars, polling, scheduler, application, worker, process>>

HandleNewConnection ==
  \/ \E f \in Fds, p \in Ptrs : Accept(f, p)
  \/ AcceptError \/ AddSocket \/ InsertAndPost

AcceptorThread ==
  \/ AcceptorEvent \/ HandleNewConnection \/ InitConnection \/ ExitPolling(Acceptor)

-------------------------------------------------------------------------------
(* The event loops *)

(* epoll_wait; a call in flight when the epoll is closed may still return.  *)
EpollWait(i) ==
  /\ pc[i] = "poll"
  /\ Events(i) # {}
  /\ batch' = [batch EXCEPT ![i] = Events(i)]
  /\ ready' = [ready EXCEPT ![i] = {}]
  /\ pc' = [pc EXCEPT ![i] = "batch"]
  /\ UNCHANGED <<listening, endpoints, owners, pool, scheduler, application, file, interest,
                 store, newStore, current, worker, process>>

(* handleEvent: the test of m_continuePolling ...                           *)
HandleEvent(i, e) ==
  /\ pc[i] = "batch"
  /\ e \in batch[i]
  /\ ~e.hup
  /\ batch' = [batch EXCEPT ![i] = @ \ {e}]
  /\ IF m_continuePolling[i]
     THEN /\ current' = [current EXCEPT ![i] = e.ptr]
          /\ pc' = [pc EXCEPT ![i] = "dispatch"]
     ELSE /\ pc' = [pc EXCEPT ![i] = AfterEvent(i, batch'[i])]
          /\ UNCHANGED current
  /\ UNCHANGED <<netvars, owners, pool, scheduler, application, store, newStore, worker,
                 process>>

(* ... then the write of m_eventType and the task.                          *)
Dispatch(i) ==
  /\ pc[i] = "dispatch"
  /\ store' = [p \in Ptrs |-> IF p = current[i] /\ Live(p)
                              THEN [store[p] EXCEPT !.type = "Data"] ELSE store[p]]
  /\ Post(current[i], "Data")
  /\ current' = [current EXCEPT ![i] = Nil]
  /\ pc' = [pc EXCEPT ![i] = AfterEvent(i, batch[i])]
  /\ UNCHANGED <<netvars, owners, scheduler, application, newStore, batch, worker, process>>

(* SocketEventHandler::removeSocket fails on an epoll that is closed.       *)
EpollDel(i, f) ==
  IF m_continuePolling[i] THEN EpollRemove(i, f) ELSE UNCHANGED <<interest, ready>>

(* TcpServerSocket::removeSocket takes the mutex and marks the store, which *)
(* a worker that handles an earlier task may see at once.                   *)
MarkClosed(i, e) ==
  /\ pc[i] = "batch"
  /\ e \in batch[i]
  /\ e.hup
  /\ LockStores(i)
  /\ batch' = [batch EXCEPT ![i] = @ \ {e}]
  /\ current' = [current EXCEPT ![i] = e.ptr]
  /\ store' = [p \in Ptrs |-> IF p = e.ptr /\ Live(p)
                              THEN [store[p] EXCEPT !.type = "Closed"] ELSE store[p]]
  /\ pc' = [pc EXCEPT ![i] = "remove"]
  /\ UNCHANGED <<netvars, pool, scheduler, application, clientEventStores, newStore,
                 worker, process>>

(* It takes the descriptor out of the epoll, if that is not closed, closes  *)
(* it and posts the task.                                                   *)
RemoveSocket(i) ==
  LET p == current[i]
      f == store[p].fd
  IN  /\ pc[i] = "remove"
      /\ Tls /\ Live(p) => ~Receiving(p)
      /\ IF Live(p) /\ store[p].loop # Nil
         THEN /\ store' = [store EXCEPT ![p].ssl = FALSE]
              /\ IF Closable(p) THEN CloseFds({f}) ELSE EpollDel(store[p].loop, f) /\ UNCHANGED file
         ELSE UNCHANGED <<store, descriptors>>
      /\ Post(p, "Closed")
      /\ pc' = [pc EXCEPT ![i] = "erase"]
      /\ UNCHANGED <<listening, endpoints, owners, polling, scheduler, application, newStore,
                     worker, process>>

(* A map of plain pointers: the entry goes, its store stays.                *)
MutantEraseSocket(i) ==
  /\ pc[i] = "erase"
  /\ \E f \in IF Live(current[i]) THEN {store[current[i]].fd} ELSE Fds :
       clientEventStores' = [clientEventStores EXCEPT ![f] = Nil]
  /\ clientEventStoresMutex' = Nil
  /\ current' = [current EXCEPT ![i] = Nil]
  /\ pc' = [pc EXCEPT ![i] = AfterEvent(i, batch[i])]
  /\ UNCHANGED <<netvars, pool, scheduler, application, store, newStore, batch, worker, process>>

(* The rest of removeSocket: the map's entry for the descriptor number is   *)
(* erased and its store freed; a dead store may have given any number.      *)
EraseSocket(i) ==
  /\ pc[i] = "erase"
  /\ \E f \in IF Live(current[i]) THEN {store[current[i]].fd} ELSE Fds :
       /\ store' = [p \in Ptrs |-> IF p = clientEventStores[f] THEN Nil ELSE store[p]]
       /\ clientEventStores' = [clientEventStores EXCEPT ![f] = Nil]
  /\ clientEventStoresMutex' = Nil
  /\ current' = [current EXCEPT ![i] = Nil]
  /\ pc' = [pc EXCEPT ![i] = AfterEvent(i, batch[i])]
  /\ UNCHANGED <<netvars, pool, scheduler, application, newStore, batch, worker, process>>

(* A loop touches a store that is gone.                                     *)
LoopFault(i) ==
  /\ pc[i] \in {"dispatch", "remove"}
  /\ ~Live(current[i])
  /\ Terminate

EventLoop(i) ==
  \/ EpollWait(i)
  \/ \E e \in batch[i] : HandleEvent(i, e) \/ MarkClosed(i, e)
  \/ Dispatch(i) \/ RemoveSocket(i) \/ EraseSocket(i) \/ LoopFault(i) \/ ExitPolling(i)

-------------------------------------------------------------------------------
(* The workers *)

Take(w, state) == worker' = [worker EXCEPT ![w] = state]

TakeTask(w) ==
  /\ worker[w].pc = "idle"
  /\ tasks # <<>>
  /\ Take(w, [pc |-> "Data", task |-> Head(tasks), size |-> 0])
  /\ tasks' = Tail(tasks)
  /\ UNCHANGED <<netvars, owners, polling, scheduler, application, store, posted, pc,
                 newStore, process>>

(* The values a read of m_eventType through p may give.                     *)
EventTypes(p) == IF Live(p) THEN {store[p].type} ELSE Kinds

(* handleCallBackEvent tests m_eventType for Data, New and Closed in turn,  *)
(* reading it each time, without any mutex.                                 *)
NextTest == [Data |-> "New", New |-> "Closed"]

HandleCallBackEvent(w) ==
  LET kind == worker[w].pc
  IN  /\ kind \in Kinds
      /\ \E type \in EventTypes(worker[w].task.ptr) :
           CASE type = kind /\ m_eventReceiver = "set" ->
                  Take(w, [worker[w] EXCEPT !.pc = Callback[kind]]) /\ UNCHANGED process
             [] type = kind /\ m_eventReceiver = "wild" ->
                  process' = "terminated" /\ UNCHANGED worker
             [] type # kind /\ kind # "Closed" ->
                  Take(w, [worker[w] EXCEPT !.pc = NextTest[kind]]) /\ UNCHANGED process
             [] OTHER -> Take(w, Idle) /\ UNCHANGED process
      /\ UNCHANGED <<netvars, owners, pool, polling, scheduler, application, store, pc,
                     newStore>>

(* newConnectionEvent and connectionClosedEvent of main.cpp only print; so  *)
(* does dataEvent when receiveData gives up: under TLS without a session.   *)
Return(w) ==
  /\ \/ worker[w].pc \in {"newConnectionEvent", "connectionClosedEvent"}
     \/ /\ worker[w].pc = "dataEvent"
        /\ LET p == worker[w].task.ptr IN Live(p) => Tls /\ ~store[p].ssl
  /\ Take(w, Idle)
  /\ UNCHANGED <<netvars, owners, pool, polling, scheduler, application, store, pc,
                 newStore, process>>

(* A buffer of constant size: one read() where the edge announced more.     *)
MutantAvailable(p) == 1

(* getAvailable: FIONREAD.                                                  *)
Available(p) == unread[file[store[p].fd]]

(* receiveData takes m_socketMutex and asks how much there is to read.      *)
GetAvailable(w) ==
  LET p == worker[w].task.ptr
  IN  /\ worker[w].pc = "dataEvent"
      /\ Live(p)
      /\ Closable(p)
      /\ ~Receiving(p)
      /\ file[store[p].fd] # Nil
      /\ Take(w, [worker[w] EXCEPT !.pc = "reading", !.size = Available(p)])
      /\ UNCHANGED <<netvars, owners, pool, polling, scheduler, application, store, pc,
                     newStore, process>>

(* On a closed descriptor FIONREAD fails; the size -1 makes the buffer's    *)
(* constructor throw std::length_error, which no frame of a worker catches. *)
ReceiveFault(w) ==
  LET p == worker[w].task.ptr
  IN  /\ worker[w].pc = "dataEvent"
      /\ Live(p) => ~Tls /\ ~Receiving(p) /\ file[store[p].fd] = Nil
      /\ Terminate

(* The loop around read(), up to the size asked for; a descriptor closed    *)
(* meanwhile gives EBADF.                                                   *)
Read(w) ==
  LET p == worker[w].task.ptr
      f == store[p].fd
  IN  /\ worker[w].pc = "reading"
      /\ unread' = IF Live(p) /\ file[f] # Nil
                   THEN [unread EXCEPT ![file[f]] = IF worker[w].size < @
                                                    THEN @ - worker[w].size ELSE 0]
                   ELSE unread
      /\ Take(w, Idle)
      /\ UNCHANGED <<listening, descriptors, owners, pool, polling, scheduler, application,
                     peer, sent, store, pc, newStore, process>>

WorkerThread(w) ==
  \/ TakeTask(w) \/ HandleCallBackEvent(w) \/ Return(w)
  \/ GetAvailable(w) \/ ReceiveFault(w) \/ Read(w)

-------------------------------------------------------------------------------
Clientele == \E c \in Clients : Client(c) /\ UNCHANGED servervars

Next ==
  /\ process = "up"
  /\ \/ Clientele
     \/ MainThread
     \/ AcceptorThread
     \/ \E i \in Loops : EventLoop(i)
     \/ \E w \in Workers : WorkerThread(w)

Spec == Init /\ [][Next]_vars

Step(A) == process = "up" /\ A

(* Threads run.  A handshake waits for its client and may never return; a   *)
(* client owes nothing, and main() stops the server when it likes but does  *)
(* not stop half-way.                                                       *)
FairSpec ==
  /\ Spec
  /\ WF_vars(Step(AcceptorEvent \/ HandleNewConnection \/ ExitPolling(Acceptor)))
  /\ ~Tls => WF_vars(Step(InitConnection))
  /\ \A i \in Loops : WF_vars(Step(EventLoop(i)))
  /\ \A w \in Workers : WF_vars(Step(WorkerThread(w)))
  /\ WF_vars(Step(StopPolling /\ main # "serving"))
-------------------------------------------------------------------------------
(* The types of the variables. *)
ThreadStates == {"off", "poll", "exited", "accept", "init", "add", "insert",
                 "batch", "dispatch", "remove", "erase"}
WorkerStates == {"reading"} \cup Kinds \cup {Callback[k] : k \in Kinds}
MainStates == {"created", "loops", "listening", "serving", "stopAcceptor", "stopLoops",
               "closeClients", "clearClients", "stopped"}

HeapTypeOK ==
  /\ store \in [Ptrs -> Stores \cup {Nil}]
  /\ clientEventStores \in [Fds -> Ptrs \cup {Nil}]
  /\ clientEventStoresMutex \in Threads \cup {Main, Nil}
  /\ tasks \in Seq(Tasks)
  /\ posted \in [Clients -> SUBSET Kinds]
  /\ newStore \in Ptrs \cup {Nil}

ThreadTypeOK ==
  /\ pc \in [Threads -> ThreadStates]
  /\ batch \in [Loops -> SUBSET [ptr : Ptrs, hup : BOOLEAN]]
  /\ current \in [Loops -> Ptrs \cup {Nil}]
  /\ worker \in [Workers -> [pc : WorkerStates, task : Tasks, size : Nat] \cup {Idle}]
  /\ main \in MainStates
  /\ m_currentIndex \in Loops
  /\ m_continuePolling \in [Threads -> BOOLEAN]
  /\ m_eventReceiver \in {"null", "wild", "set"}
  /\ process \in {"up", "terminated"}

TypeOK == NetTypeOK /\ HeapTypeOK /\ ThreadTypeOK

(* Ownership: every live store is owned exactly once, by the map under its  *)
(* own descriptor number or by the acceptor that is still setting it up, so *)
(* none is leaked and none freed twice, in whatever order the acceptor, the *)
(* loops and closeAllClientSocket come to the map.                          *)
Ownership ==
  /\ \A f \in Fds : LET p == clientEventStores[f]
                    IN  p # Nil => Live(p) /\ store[p].fd = f /\ p # newStore
  /\ \A p \in Ptrs : Live(p) => p = newStore \/ p \in Owned

(* closeConnection and receiveData work on a descriptor number.  The number *)
(* in a store that may still be closed or read stands for the connection of *)
(* that store and never for a later one that was given the same number.     *)
OwnDescriptor ==
  \A p \in Ptrs :
    Live(p) /\ Closable(p) =>
      LET c == file[store[p].fd]
      IN  \/ c = store[p].conn
          \/ c = Nil /\ (store[p].type = "Closed" \/ main = "clearClients")

(* Until stopPolling frees the stores, no event loop is about to touch a    *)
(* store that is gone, although events carry raw pointers, are collected in *)
(* batches and handled after removals of other connections.                 *)
EventsNeverDangle ==
  main # "stopped" =>
    \A i \in Loops :
      /\ \A e \in batch[i] : Live(e.ptr)
      /\ current[i] # Nil => Live(current[i])

(* The tasks that wait or are being handled.                                *)
Pending == {tasks[k] : k \in 1..Len(tasks)} \cup ({worker[w].task : w \in Workers} \ {Nil})

(* As long as a connection is open and its closing has not been posted, and *)
(* stopPolling has not freed the stores and let malloc reuse their          *)
(* addresses, its tasks point at its own store: the callbacks for it may    *)
(* use the pointer they are given.                                          *)
OpenConnectionTaskIsLive ==
  main # "stopped" =>
    \A t \in Pending :
      t.conn # Nil /\ Open(t.conn) /\ "Closed" \notin posted[t.conn] =>
        Live(t.ptr) /\ Conn(t.ptr) = t.conn

(* connectionClosedEvent is never called for a connection that the client   *)
(* has not closed, although m_eventType is rewritten by the loops at any    *)
(* time and addresses are reused.  Under TLS the store of a failed          *)
(* handshake is freed, when its number comes back, with its task still      *)
(* queued; what is called for that connection may be anything.              *)
ClosedCallbackIsTrue ==
  main \notin {"clearClients", "stopped"} =>
    \A w \in Workers :
      worker[w].pc = "connectionClosedEvent" =>
        LET t == worker[w].task
        IN  t.conn # Nil /\ (peer[t.conn] = "closed" \/ (Tls /\ ~Open(t.conn)))

Appended(c) == Len(tasks') > Len(tasks) /\ tasks'[Len(tasks')].conn = c

(* The tasks posted for a connection: nothing after the closing, and no     *)
(* closing before the connection was announced, even when the peer leaves   *)
(* while the acceptor is still between epoll_ctl and the post.              *)
ClosedPostedLast ==
  [][\A c \in Clients :
       Appended(c) => /\ "Closed" \notin posted[c]
                      /\ "Closed" \in posted'[c] => "New" \in posted[c]]_vars

(* Once stopPolling has returned with the listener closed, every client     *)
(* descriptor is closed and every store freed, whatever was being accepted, *)
(* dispatched or removed when it was called.  closeConnection closes the    *)
(* listener under TCP only, so that it says nothing of a TLS server.        *)
StopIsComplete ==
  main = "stopped" /\ listener = "closed" =>
    /\ \A p \in Ptrs : ~Live(p)
    /\ \A f \in Fds : file[f] = Nil

(* The server is no longer to serve: stopPolling has begun, or the end.     *)
Ending ==
  process = "terminated" \/ main \notin {"created", "loops", "listening", "serving"}

(* What a peer has closed is closed by the server and leaves the map.       *)
PeerCloseReclaimed ==
  \A c \in Clients :
    peer[c] = "closed" /\ Open(c) ~> Ending \/ ~(Open(c) \/ \E p \in Owned : Conn(p) = c)

(* Everything a client sends on a connection it keeps open is read, though  *)
(* the events are edge-triggered, more may be sent while a worker reads,    *)
(* and the worker reads only what FIONREAD told it.                         *)
DataConsumed ==
  \A c \in Clients :
    Open(c) /\ unread[c] > 0 ~> unread[c] = 0 \/ peer[c] = "closed" \/ Ending

(* After stopPolling has told them, acceptor and loops leave their loops.   *)
LoopsExit ==
  main = "stopAcceptor" ~> process = "terminated" \/ \A t \in Threads : pc[t] = "exited"

-------------------------------------------------------------------------------
(* Statements of the source that the code does not keep. *)

(* TcpServerSocket.cpp:21, of stopPolling: "Ensure proper shutdown".        *)
ListenerClosedByStop == main = "stopped" => listener = "closed"

(* TcpServerSocket.h:39: "Handle Call back event from IOWorker Thread pool".*)
(* The callback that is called is the one for the event that was posted.    *)
CallbackMatchesEvent ==
  \A w \in Workers, k \in Kinds :
    worker[w].pc = Callback[k] => worker[w].task.kind = k

(* TcpServerSocket.h:36: "Handle new client socket".                        *)
EveryConnectionHandled ==
  \A c \in Clients : InBacklog(c) ~> ~InBacklog(c) \/ process = "terminated"
===============================================================================
