------------------------- MODULE TcpServerSocketProofs -------------------------
(* Theorems about TcpServerSocket: for any clients, descriptors, addresses, *)
(* event loops and workers, TCP or TLS, whether or not the server stops.    *)
EXTENDS TcpServerSocket, Integers, TLAPS

(* The acceptor's store lives while clientEventStoresMutex is held, and the *)
(* three critical sections exclude each other.  Threads start when main()   *)
(* starts them.                                                             *)
ControlInv ==
  /\ newStore # Nil <=> pc[Acceptor] \in {"init", "add", "insert"}
  /\ newStore # Nil => clientEventStoresMutex = Acceptor /\ Live(newStore)
  /\ pc[Acceptor] \in {"init", "add"} => store[newStore].loop = Nil
  /\ \A i \in Loops : /\ pc[i] \in {"remove", "erase"} => clientEventStoresMutex = i
                      /\ current[i] # Nil <=> pc[i] \in {"dispatch", "remove", "erase"}
                      /\ main = "created" => pc[i] = "off" /\ m_continuePolling[i]
  /\ main \in {"created", "loops"} => pc[Acceptor] = "off"
  /\ main = "clearClients" => clientEventStoresMutex = Main

(* The addresses an event loop holds in its batch or is handling, and those *)
(* its epoll may still give it.                                             *)
Held(i) == {e.ptr : e \in batch[i]} \cup ({current[i]} \ {Nil})
MayReturn(i, f) == (m_continuePolling[i] \/ pc[i] = "poll") /\ interest[i][f] # Nil

(* A store registered with an epoll is open there under its own number.     *)
InterestInv ==
  \A i \in Loops, f \in Fds :
    MayReturn(i, f) => /\ Live(interest[i][f])
                       /\ store[interest[i][f]].fd = f
                       /\ store[interest[i][f]].loop = i
                       /\ file[f] # Nil

(* A store a loop holds belongs to that loop, is held for one event only,   *)
(* and its descriptor is open until the loop itself or stopPolling closes   *)
(* it; once it is being erased its epoll does not know it any more.         *)
HeldInv ==
  \A i \in Loops :
    /\ \A p \in Held(i) :
         /\ Live(p)
         /\ store[p].loop = i
         /\ file[store[p].fd] # Nil \/ main = "clearClients" \/ (pc[i] = "erase" /\ p = current[i])
    /\ \A d, e \in batch[i] : d.ptr = e.ptr => d = e
    /\ \A e \in batch[i] : e.ptr # current[i]
    /\ pc[i] = "erase" => \A f \in Fds : MayReturn(i, f) => interest[i][f] # current[i]

(* The descriptor number the acceptor has just been given is not that of a  *)
(* store some loop still knows.                                             *)
FreshInv ==
  newStore # Nil =>
    \A i \in Loops :
      /\ \A p \in Held(i) : p # newStore => store[p].fd # store[newStore].fd
      /\ \A f \in Fds : MayReturn(i, f) /\ interest[i][f] # newStore => f # store[newStore].fd

(* What holds in every state, and, until the stores are freed, the rest.    *)
Base == TypeOK /\ ControlInv /\ Ownership

Tracked == InterestInv /\ HeldInv /\ FreshInv

IInv == Base /\ (main # "stopped" => Tracked)

-------------------------------------------------------------------------------
LEMMA Constants ==
  /\ Acceptor \in Threads /\ Acceptor \notin Loops
  /\ \A i \in Loops : i \in Threads /\ i # Acceptor /\ i # Main /\ i # Nil
  /\ Main # Acceptor /\ Main # Nil /\ Acceptor # Nil
  /\ 0 \in Loops
  /\ Nil \notin Ptrs /\ Nil \notin Fds /\ Nil \notin Clients
  /\ Nil \notin Stores /\ Nil \notin Tasks
BY NetworkAssumption, ServerAssumption DEF Acceptor, Threads, Loops, Main

(* The round robin of EventScheduler stays within the loops.                *)
LEMMA Index == ASSUME m_currentIndex \in Loops PROVE NextIndex \in Loops
BY NetworkAssumption DEF NextIndex, Loops

(* The fields of a store at a live address, and what a field may become.    *)
LEMMA LiveStore ==
  ASSUME TypeOK, NEW p \in Ptrs, Live(p)
  PROVE  /\ store[p] \in Stores
         /\ store[p].conn \in Clients /\ store[p].fd \in Fds /\ store[p].type \in Kinds
         /\ store[p].loop \in Loops \cup {Nil} /\ store[p].ssl \in BOOLEAN
<1>1. store[p] \in Stores
  BY DEF TypeOK, HeapTypeOK, Live
<1> QED
  BY <1>1 DEF Stores

LEMMA StoreUpdate ==
  ASSUME NEW r \in Stores
  PROVE  /\ \A k \in Kinds : [r EXCEPT !.type = k] \in Stores
         /\ \A i \in Loops : [r EXCEPT !.loop = i] \in Stores
         /\ \A b \in BOOLEAN : [r EXCEPT !.ssl = b] \in Stores
BY DEF Stores

LEMMA CloseFdsTypes ==
  ASSUME NetTypeOK, NEW S, CloseFds(S)
  PROVE  /\ file' \in [Fds -> Clients \cup {Nil}]
         /\ interest' \in [Loops -> [Fds -> Ptrs \cup {Nil}]]
         /\ ready' \in [Loops -> SUBSET Fds]
BY DEF CloseFds, NetTypeOK

LEMMA PostTypes ==
  ASSUME TypeOK, NEW p \in Ptrs, NEW kind \in Kinds, Post(p, kind)
  PROVE  tasks' \in Seq(Tasks) /\ posted' \in [Clients -> SUBSET Kinds]
<1>1. Conn(p) \in Clients \cup {Nil}
  BY LiveStore DEF Conn
<1>2. [ptr |-> p, conn |-> Conn(p), kind |-> kind] \in Tasks
  BY <1>1 DEF Tasks
<1> QED
  BY <1>2 DEF TypeOK, HeapTypeOK, Post

(* In its critical section the acceptor has a live store.                   *)
LEMMA AcceptorStore ==
  ASSUME Base, pc[Acceptor] \in {"init", "add", "insert"}
  PROVE  newStore \in Ptrs /\ Live(newStore)
BY DEF Base, ControlInv, TypeOK, HeapTypeOK

(* What each action leaves alone: the heap, with the map and the queue, and *)
(* the network's state.                                                     *)
heap == <<owners, pool, store, newStore>>

LEMMA HeapWriters ==
  [Next]_vars =>
    \/ UNCHANGED heap
    \/ CloseClients \/ ClearClients
    \/ \E f \in Fds, p \in Ptrs : Accept(f, p)
    \/ InitConnection \/ AddSocket \/ InsertAndPost
    \/ \E i \in Loops : \/ Dispatch(i) \/ RemoveSocket(i) \/ EraseSocket(i)
                        \/ \E e \in batch[i] : MarkClosed(i, e)
    \/ \E w \in Workers : TakeTask(w)
<1> USE DEF heap, netvars, listening, endpoints, descriptors, servervars, owners, pool, polling,
   scheduler,
           application
<1>1. Clientele \/ Terminate \/ UNCHANGED vars => UNCHANGED heap
  BY DEF Clientele, Terminate, vars
<1>2. StartReceivingConnection \/ CreateServerSocketAndStartReceiving \/ SetEventReceiver
        \/ CloseServerSocket \/ (\E t \in Threads : StopEventThread(t)) => UNCHANGED heap
  BY DEF StartReceivingConnection, CreateServerSocketAndStartReceiving, SetEventReceiver,
         CloseServerSocket, StopEventThread
<1>3. AcceptorEvent \/ AcceptError => UNCHANGED heap
  BY DEF AcceptorEvent, AcceptError
<1>4. \A t : ExitPolling(t) => UNCHANGED heap
  BY DEF ExitPolling
<1>5. \A i \in Loops : EpollWait(i) => UNCHANGED heap
  BY DEF EpollWait
<1>5a. \A i \in Loops : \A e \in batch[i] : HandleEvent(i, e) => UNCHANGED heap
  BY DEF HandleEvent
<1>6. \A w \in Workers : HandleCallBackEvent(w) \/ Return(w) \/ GetAvailable(w) \/ Read(w)
                          => UNCHANGED heap
  BY Zenon DEF HandleCallBackEvent, Return, GetAvailable, Read
<1> QED
  BY <1>1, <1>2, <1>3, <1>4, <1>5, <1>5a, <1>6
     DEF Next, MainThread, StopPolling, AcceptorThread, HandleNewConnection, EventLoop,
         CreateServerSocketError, LoopFault, WorkerThread, ReceiveFault

LEMMA NetWriters ==
  [Next]_vars =>
    \/ UNCHANGED netvars
    \/ \E c \in Clients : Client(c) /\ UNCHANGED servervars
    \/ CreateServerSocketAndStartReceiving \/ CloseServerSocket \/ CloseClients
    \/ AcceptorEvent \/ (\E f \in Fds, p \in Ptrs : Accept(f, p)) \/ InitConnection \/ AddSocket
    \/ \E i \in Loops : EpollWait(i) \/ RemoveSocket(i)
    \/ \E w \in Workers : Read(w)
<1>1. Terminate \/ UNCHANGED vars => UNCHANGED netvars
  BY DEF Terminate, vars
<1>2. StartReceivingConnection \/ SetEventReceiver \/ (\E t \in Threads : StopEventThread(t))
        \/ ClearClients => UNCHANGED netvars
  BY DEF StartReceivingConnection, SetEventReceiver, StopEventThread, ClearClients
<1>3. AcceptError \/ InsertAndPost => UNCHANGED netvars
  BY DEF AcceptError, InsertAndPost
<1>4. \A t : ExitPolling(t) => UNCHANGED netvars
  BY DEF ExitPolling
<1>5. \A i \in Loops : \/ \E e \in batch[i] : HandleEvent(i, e) \/ MarkClosed(i, e)
                      \/ Dispatch(i) \/ EraseSocket(i)
                        => UNCHANGED netvars
  BY DEF HandleEvent, MarkClosed, Dispatch, EraseSocket
<1>6. \A w \in Workers : TakeTask(w) \/ HandleCallBackEvent(w) \/ Return(w) \/ GetAvailable(w)
                          => UNCHANGED netvars
  BY DEF TakeTask, HandleCallBackEvent, Return, GetAvailable
<1> QED
  BY <1>1, <1>2, <1>3, <1>4, <1>5, <1>6
     DEF Next, Clientele, MainThread, StopPolling, AcceptorThread, HandleNewConnection, EventLoop,
         CreateServerSocketError, LoopFault, WorkerThread, ReceiveFault

LEMMA NetTyping == Base /\ [Next]_vars => NetTypeOK'
<1> SUFFICES ASSUME Base, TypeOK, NetTypeOK, HeapTypeOK, ThreadTypeOK, [Next]_vars PROVE NetTypeOK'
  BY DEF Base, TypeOK
<1> USE Constants DEF NetTypeOK, listening, endpoints, descriptors
<1>1. ASSUME NEW c \in Clients, Client(c), UNCHANGED servervars PROVE NetTypeOK'
  <2>1. CASE Connect(c)
    BY <2>1 DEF Connect
  <2>2. CASE Send(c)
    BY <2>2, SMTT(30) DEF Send, Rouse
  <2>3. CASE PeerClose(c)
    BY <2>3 DEF PeerClose, Rouse
  <2> QED
    BY <1>1, <2>1, <2>2, <2>3 DEF Client
<1>2. ASSUME CreateServerSocketAndStartReceiving PROVE NetTypeOK'
  BY <1>2 DEF CreateServerSocketAndStartReceiving
<1>3. ASSUME CloseServerSocket PROVE NetTypeOK'
  <2>1. backlog' \in Seq(Clients)
    <3>1. CASE backlog' = <<>>
      BY <3>1
    <3>2. CASE backlog' = backlog
      BY <3>2
    <3> QED
      BY <1>3, <3>1, <3>2 DEF CloseServerSocket
  <2>2. listener' \in {"none", "watched", "unwatched", "closed"} /\ listenerEdge' \in BOOLEAN
    BY <1>3 DEF CloseServerSocket
  <2> QED
    BY <1>3, <2>1, <2>2 DEF CloseServerSocket
<1>4. ASSUME CloseClients PROVE NetTypeOK'
  BY <1>4 DEF CloseClients, CloseFds, Owned
<1>5. ASSUME AcceptorEvent PROVE NetTypeOK'
  BY <1>5 DEF AcceptorEvent
<1>6. ASSUME NEW f \in Fds, NEW p \in Ptrs, Accept(f, p) PROVE NetTypeOK'
  BY <1>6 DEF Accept
<1>7. ASSUME InitConnection PROVE NetTypeOK'
  BY <1>7 DEF InitConnection, CloseFds
<1>8. ASSUME AddSocket PROVE NetTypeOK'
  <2>1. newStore \in Ptrs /\ store[newStore].fd \in Fds
    BY <1>8, AcceptorStore, LiveStore DEF AddSocket
  <2>2. NextIndex \in Loops
    BY Index DEF ThreadTypeOK
  <2>3. CASE EpollAdd(NextIndex, store[newStore].fd, newStore)
    <3>1. interest' \in [Loops -> [Fds -> Ptrs \cup {Nil}]]
      BY <2>1, <2>2, <2>3 DEF EpollAdd
    <3>2. ready' \in [Loops -> SUBSET Fds]
      BY <2>1, <2>2, <2>3 DEF EpollAdd
    <3> QED
      BY <1>8, <3>1, <3>2 DEF AddSocket
  <2>4. CASE UNCHANGED <<interest, ready>>
    BY <1>8, <2>4 DEF AddSocket
  <2> QED
    BY <1>8, <2>3, <2>4 DEF AddSocket
<1>9. ASSUME NEW i \in Loops, EpollWait(i) PROVE NetTypeOK'
  BY <1>9 DEF EpollWait, Events
<1>10. ASSUME NEW i \in Loops, RemoveSocket(i) PROVE NetTypeOK'
  <2> DEFINE f == store[current[i]].fd
             i2 == store[current[i]].loop
  <2>1. CASE CloseFds({f})
    BY <1>10, <2>1, CloseFdsTypes DEF RemoveSocket
  <2>2. CASE UNCHANGED file /\ EpollRemove(i2, f)
    <3>1. interest' \in [Loops -> [Fds -> Ptrs \cup {Nil}]] /\ ready' \in [Loops -> SUBSET Fds]
      BY <2>2 DEF EpollRemove
    <3> QED
      BY <1>10, <2>2, <3>1, Zenon DEF RemoveSocket
  <2>3. CASE UNCHANGED descriptors
    BY <1>10, <2>3 DEF RemoveSocket
  <2> QED
    BY <1>10, <2>1, <2>2, <2>3 DEF RemoveSocket, EpollDel
<1>11. ASSUME NEW w \in Workers, Read(w) PROVE NetTypeOK'
  <2> DEFINE c == file[store[worker[w].task.ptr].fd]
             n == worker[w].size
  <2>1. n \in Nat
    <3>1. worker[w] \in [pc : WorkerStates, task : Tasks, size : Nat] \cup {Idle}
      BY Zenon DEF ThreadTypeOK
    <3> QED
      BY <3>1 DEF Idle
  <2>2. CASE unread' = unread
    BY <1>11, <2>2, Zenon DEF Read
  <2>3. CASE unread' = [unread EXCEPT ![c] = IF n < @ THEN @ - n ELSE 0]
    <3>1. ASSUME NEW d \in Clients PROVE unread'[d] \in Nat
      <4>1. unread[d] \in Nat
        OBVIOUS
      <4>2. unread'[d] = unread[d] \/ unread'[d] = IF n < unread[d] THEN unread[d] - n ELSE 0
        BY <2>3, Zenon
      <4> QED
        BY <4>1, <4>2, <2>1, SMTT(30)
    <3>2. unread' \in [Clients -> Nat]
      BY <2>3, <3>1, Zenon
    <3> QED
      BY <1>11, <3>2, Zenon DEF Read
  <2> QED
    BY <1>11, <2>2, <2>3, Zenon DEF Read
<1>12. ASSUME UNCHANGED netvars PROVE NetTypeOK'
  BY <1>12 DEF netvars
<1> QED
  BY <1>1, <1>2, <1>3, <1>4, <1>5, <1>6, <1>7, <1>8, <1>9, <1>10, <1>11, <1>12, NetWriters

LEMMA HeapTyping == Base /\ [Next]_vars => HeapTypeOK'
<1> SUFFICES ASSUME Base, TypeOK, NetTypeOK, HeapTypeOK, ThreadTypeOK, [Next]_vars PROVE HeapTypeOK'
  BY DEF Base, TypeOK
<1> USE Constants DEF HeapTypeOK, Kinds, owners, pool
<1>1. ASSUME CloseClients PROVE HeapTypeOK'
  <2>1. ASSUME NEW p \in Ptrs PROVE store'[p] \in Stores \cup {Nil}
    <3>1. CASE p \in Owned
      <4>1. store[p] \in Stores
        BY <3>1 DEF Owned, Ownership, Base, Live
      <4> QED
        BY <1>1, <3>1, <4>1, StoreUpdate DEF CloseClients
    <3>2. CASE p \notin Owned
      BY <1>1, <3>2 DEF CloseClients
    <3> QED
      BY <3>1, <3>2
  <2>2. store' \in [Ptrs -> Stores \cup {Nil}]
    BY <1>1, <2>1 DEF CloseClients
  <2> QED
    BY <1>1, <2>2 DEF LockStores, CloseClients
<1>2. ASSUME ClearClients PROVE HeapTypeOK'
  BY <1>2 DEF ClearClients
<1>3. ASSUME NEW f \in Fds, NEW p \in Ptrs, Accept(f, p) PROVE HeapTypeOK'
  <2>1. Head(backlog) \in Clients /\ backlog' \in Seq(Clients)
    BY <1>3 DEF Accept, NetTypeOK
  <2>2. [conn |-> Head(backlog), fd |-> f, type |-> "New", loop |-> Nil, ssl |-> FALSE] \in Stores
    BY <2>1 DEF Stores
  <2> QED
    BY <1>3, <2>2 DEF LockStores, Accept
<1>4. ASSUME InitConnection PROVE HeapTypeOK'
  <2>1. newStore \in Ptrs /\ store[newStore] \in Stores
    BY <1>4, AcceptorStore, LiveStore DEF InitConnection
  <2>2. store' \in [Ptrs -> Stores \cup {Nil}]
    BY <1>4, <2>1, StoreUpdate, ZenonT(30) DEF InitConnection
  <2> QED
    BY <1>4, <2>2 DEF InitConnection
<1>5. ASSUME AddSocket PROVE HeapTypeOK'
  <2>1. newStore \in Ptrs /\ store[newStore] \in Stores /\ NextIndex \in Loops
    BY <1>5, AcceptorStore, LiveStore, Index DEF AddSocket, ThreadTypeOK
  <2>2. store' \in [Ptrs -> Stores \cup {Nil}]
    <3>1. CASE store' = store
      BY <3>1
    <3>2. CASE store' = [store EXCEPT ![newStore].loop = NextIndex]
      <4>1. [store[newStore] EXCEPT !.loop = NextIndex] \in Stores
        BY <2>1, StoreUpdate
      <4> QED
        BY <2>1, <3>2, <4>1
    <3> QED
      BY <1>5, <3>1, <3>2 DEF AddSocket
  <2> QED
    BY <1>5, <2>2 DEF AddSocket
<1>6. ASSUME InsertAndPost PROVE HeapTypeOK'
  <2>1. tasks' \in Seq(Tasks) /\ posted' \in [Clients -> SUBSET Kinds]
    BY <1>6, AcceptorStore, PostTypes DEF InsertAndPost
  <2>2. store' \in [Ptrs -> Stores \cup {Nil}]
    BY <1>6 DEF InsertAndPost
  <2> QED
    BY <1>6, <2>1, <2>2 DEF InsertAndPost
<1>7. ASSUME NEW i \in Loops, Dispatch(i) PROVE HeapTypeOK'
  <2>1. current[i] \in Ptrs
    BY <1>7 DEF Dispatch, ControlInv, Base, ThreadTypeOK
  <2>2. tasks' \in Seq(Tasks) /\ posted' \in [Clients -> SUBSET Kinds]
    BY <1>7, <2>1, PostTypes DEF Dispatch
  <2>3. store' \in [Ptrs -> Stores \cup {Nil}]
    BY <1>7, LiveStore, StoreUpdate DEF Dispatch
  <2> QED
    BY <1>7, <2>2, <2>3 DEF Dispatch
<1>8a. ASSUME NEW i \in Loops, NEW e \in batch[i], MarkClosed(i, e) PROVE HeapTypeOK'
  <2>1. store' \in [Ptrs -> Stores \cup {Nil}]
    BY <1>8a, LiveStore, StoreUpdate DEF MarkClosed
  <2> QED
    BY <1>8a, <2>1 DEF LockStores, MarkClosed
<1>8. ASSUME NEW i \in Loops, RemoveSocket(i) PROVE HeapTypeOK'
  <2> DEFINE p == current[i]
  <2>1. p \in Ptrs
    BY <1>8 DEF RemoveSocket, ControlInv, Base, ThreadTypeOK
  <2>2. tasks' \in Seq(Tasks) /\ posted' \in [Clients -> SUBSET Kinds]
    BY <1>8, <2>1, PostTypes DEF RemoveSocket
  <2>3. store' \in [Ptrs -> Stores \cup {Nil}]
    <3>1. CASE store' = store
      BY <3>1
    <3>2. CASE store' = [store EXCEPT ![p].ssl = FALSE] /\ Live(p)
      <4>1. [store[p] EXCEPT !.ssl = FALSE] \in Stores
        BY <2>1, <3>2, LiveStore, StoreUpdate
      <4> QED
        BY <2>1, <3>2, <4>1
    <3> QED
      BY <1>8, <3>1, <3>2 DEF RemoveSocket
  <2> QED
    BY <1>8, <2>2, <2>3 DEF RemoveSocket
<1>9. ASSUME NEW i \in Loops, EraseSocket(i) PROVE HeapTypeOK'
  <2>1. PICK f \in Fds \cup {store[current[i]].fd} :
          /\ store' = [p \in Ptrs |-> IF p = clientEventStores[f] THEN Nil ELSE store[p]]
          /\ clientEventStores' = [clientEventStores EXCEPT ![f] = Nil]
    BY <1>9 DEF EraseSocket
  <2> QED
    BY <1>9, <2>1 DEF EraseSocket
<1>10. ASSUME NEW w \in Workers, TakeTask(w) PROVE HeapTypeOK'
  BY <1>10 DEF TakeTask, Take
<1>11. ASSUME UNCHANGED heap PROVE HeapTypeOK'
  BY <1>11 DEF heap
<1> QED
  BY <1>1, <1>2, <1>3, <1>4, <1>5, <1>6, <1>7, <1>8, <1>8a, <1>9, <1>10, <1>11, HeapWriters

LEMMA ThreadTyping == Base /\ [Next]_vars => ThreadTypeOK'
<1> SUFFICES ASSUME Base, TypeOK, NetTypeOK, HeapTypeOK, ThreadTypeOK, [Next]_vars
             PROVE  ThreadTypeOK'
  BY DEF Base, TypeOK
<1> USE Constants DEF ThreadTypeOK, ThreadStates, MainStates, listening, endpoints, descriptors,
   netvars, owners, pool, polling, scheduler, application, servervars
<1>1. ASSUME Clientele \/ Terminate \/ UNCHANGED vars PROVE ThreadTypeOK'
  BY <1>1 DEF Clientele, Terminate, vars
<1>2. ASSUME StartReceivingConnection \/ CreateServerSocketAndStartReceiving \/ SetEventReceiver
      PROVE  ThreadTypeOK'
  BY <1>2 DEF StartReceivingConnection, CreateServerSocketAndStartReceiving, SetEventReceiver
<1>3. ASSUME CloseServerSocket \/ CloseClients \/ ClearClients PROVE ThreadTypeOK'
  BY <1>3 DEF CloseServerSocket, CloseClients, ClearClients
<1>4. ASSUME NEW t \in Threads, StopEventThread(t) PROVE ThreadTypeOK'
  BY <1>4 DEF StopEventThread
<1>5. ASSUME NEW t \in Threads, ExitPolling(t) PROVE ThreadTypeOK'
  BY <1>5 DEF ExitPolling
<1>6a. ASSUME AcceptorEvent \/ AcceptError PROVE ThreadTypeOK'
  BY <1>6a DEF AcceptorEvent, AcceptError, AfterEvent
<1>6b. ASSUME NEW f \in Fds, NEW p \in Ptrs, Accept(f, p) PROVE ThreadTypeOK'
  BY <1>6b DEF Accept
<1>7. ASSUME InitConnection \/ InsertAndPost PROVE ThreadTypeOK'
  BY <1>7 DEF InitConnection, InsertAndPost, AfterEvent
<1>8. ASSUME AddSocket PROVE ThreadTypeOK'
  BY <1>8, Index DEF AddSocket
<1>9. ASSUME NEW i \in Loops, EpollWait(i) PROVE ThreadTypeOK'
  <2>1. \A f \in ready[i] : f \in Fds /\ interest[i][f] \in Ptrs \cup {Nil}
    BY DEF NetTypeOK
  <2>2. ASSUME NEW e \in Events(i) PROVE e \in [ptr : Ptrs, hup : BOOLEAN]
    <3>1. PICK f \in ready[i] :
            /\ interest[i][f] # Nil
            /\ e = [ptr |-> interest[i][f], hup |-> peer[file[f]] = "closed"]
      BY DEF Events
    <3>2. interest[i][f] \in Ptrs
      BY <2>1, <3>1
    <3>3. (peer[file[f]] = "closed") \in BOOLEAN
      OBVIOUS
    <3> QED
      BY <3>1, <3>2, <3>3
  <2> QED
    BY <1>9, <2>2 DEF EpollWait
<1>10. ASSUME NEW i \in Loops, NEW e \in batch[i], HandleEvent(i, e) PROVE ThreadTypeOK'
  <2>1. e.ptr \in Ptrs
    OBVIOUS
  <2>2. current' \in [Loops -> Ptrs \cup {Nil}]
    BY <1>10, <2>1 DEF HandleEvent
  <2>3. \A r : AfterEvent(i, r) \in ThreadStates
    BY DEF AfterEvent
  <2>4. pc' \in [Threads -> ThreadStates]
    BY <1>10, <2>3 DEF HandleEvent
  <2>5. batch' \in [Loops -> SUBSET [ptr : Ptrs, hup : BOOLEAN]]
    BY <1>10 DEF HandleEvent
  <2> QED
    BY <1>10, <2>2, <2>4, <2>5 DEF HandleEvent
<1>11. ASSUME NEW i \in Loops, Dispatch(i) \/ RemoveSocket(i) \/ EraseSocket(i) PROVE ThreadTypeOK'
  BY <1>11 DEF Dispatch, RemoveSocket, EraseSocket, AfterEvent
<1>12. ASSUME NEW i \in Loops, NEW e \in batch[i], MarkClosed(i, e) PROVE ThreadTypeOK'
  BY <1>12 DEF MarkClosed
<1>13. ASSUME NEW w \in Workers, TakeTask(w) PROVE ThreadTypeOK'
  <2>1. Head(tasks) \in Tasks
    BY <1>13 DEF TakeTask, HeapTypeOK
  <2>2. [pc |-> "Data", task |-> Head(tasks), size |-> 0] \in [pc : WorkerStates, task : Tasks, size : Nat]
    BY <2>1 DEF WorkerStates, Kinds
  <2> QED
    BY <1>13, <2>2 DEF TakeTask, Take
<1>14. ASSUME NEW w \in Workers, HandleCallBackEvent(w) PROVE ThreadTypeOK'
  <2>1. worker[w] \in [pc : WorkerStates, task : Tasks, size : Nat]
    BY <1>14 DEF HandleCallBackEvent, Idle, Kinds
  <2>2. ASSUME NEW s \in WorkerStates, Take(w, [worker[w] EXCEPT !.pc = s])
        PROVE  worker' \in [Workers -> [pc : WorkerStates, task : Tasks, size : Nat] \cup {Idle}]
    BY <2>1, <2>2 DEF Take
  <2>3. CASE Take(w, Idle) \/ UNCHANGED worker
    BY <1>14, <2>3 DEF HandleCallBackEvent, Take
  <2>4. CASE Take(w, [worker[w] EXCEPT !.pc = Callback[worker[w].pc]])
    <3>1. Callback[worker[w].pc] \in WorkerStates
      BY <1>14 DEF HandleCallBackEvent, WorkerStates
    <3> QED
      BY <1>14, <2>2, <2>4, <3>1 DEF HandleCallBackEvent
  <2>5. CASE worker[w].pc # "Closed" /\ Take(w, [worker[w] EXCEPT !.pc = NextTest[worker[w].pc]])
    <3>1. worker[w].pc \in {"New", "Data"}
      BY <1>14, <2>5 DEF HandleCallBackEvent, Kinds
    <3>2. NextTest[worker[w].pc] \in WorkerStates
      BY <3>1 DEF NextTest, WorkerStates, Kinds
    <3> QED
      BY <1>14, <2>2, <2>5, <3>2 DEF HandleCallBackEvent
  <2> QED
    BY <1>14, <2>3, <2>4, <2>5 DEF HandleCallBackEvent
<1>15. ASSUME NEW w \in Workers, GetAvailable(w) PROVE ThreadTypeOK'
  <2>1. worker[w] \in [pc : WorkerStates, task : Tasks, size : Nat]
    <3>1. worker[w] # Idle
      <4>1. Idle.pc = "idle" /\ worker[w].pc = "dataEvent"
        BY <1>15 DEF GetAvailable, Idle
      <4> QED
        BY <4>1
    <3> QED
      BY <3>1
  <2>2. worker[w].task.ptr \in Ptrs
    BY <2>1 DEF Tasks
  <2>3. Available(worker[w].task.ptr) \in Nat
    BY <1>15, <2>2, LiveStore DEF GetAvailable, Available, NetTypeOK
  <2>4. [worker[w] EXCEPT !.pc = "reading", !.size = Available(worker[w].task.ptr)]
          \in [pc : WorkerStates, task : Tasks, size : Nat]
    BY <2>1, <2>3 DEF WorkerStates
  <2> QED
    BY <1>15, <2>4, Zenon DEF GetAvailable, Take
<1>16. ASSUME NEW w \in Workers, Return(w) \/ Read(w) PROVE ThreadTypeOK'
  BY <1>16, Zenon DEF Return, Read, Take, Idle
<1> QED
  BY <1>1, <1>2, <1>3, <1>4, <1>5, <1>6a, <1>6b, <1>7, <1>8, <1>9, <1>10, <1>11, <1>12, <1>13,
     <1>14, <1>15, <1>16
     DEF Next, MainThread, StopPolling, AcceptorThread, HandleNewConnection,
         EventLoop, CreateServerSocketError, LoopFault, WorkerThread, ReceiveFault
-------------------------------------------------------------------------------
(* No step but the acceptor's and the erasures frees a store or changes its *)
(* descriptor; addSocket alone changes its loop.                            *)
LEMMA StoresKept ==
  ASSUME Base,
         \/ UNCHANGED store
         \/ CloseClients \/ InitConnection \/ AddSocket
         \/ \E i \in Loops : \/ Dispatch(i) \/ RemoveSocket(i)
                             \/ \E e \in batch[i] : MarkClosed(i, e)
  PROVE  \A p \in Ptrs :
           /\ Live(p)' <=> Live(p)
           /\ Live(p) => /\ store'[p].fd = store[p].fd
                         /\ store'[p].loop = store[p].loop \/ (AddSocket /\ p = newStore)
<1> SUFFICES ASSUME NEW p \in Ptrs
             PROVE  /\ Live(p)' <=> Live(p)
                    /\ Live(p) => /\ store'[p].fd = store[p].fd
                                  /\ store'[p].loop = store[p].loop \/ (AddSocket /\ p = newStore)
  OBVIOUS
<1> USE DEF Live
<1>1. CASE UNCHANGED store
  BY <1>1
<1>2. store[p] # Nil => store[p] \in Stores
  BY LiveStore DEF Base
<1>3. store \in [Ptrs -> Stores \cup {Nil}]
  BY DEF Base, TypeOK, HeapTypeOK
<1>4. CASE CloseClients
  <2>1. store'[p] = IF p \in Owned THEN [store[p] EXCEPT !.ssl = FALSE] ELSE store[p]
    BY <1>4 DEF CloseClients
  <2>2. p \in Owned => store[p] # Nil
    BY DEF Owned, Base, Ownership
  <2>3. store[p] # Nil => [store[p] EXCEPT !.ssl = FALSE] \in Stores
    BY <1>2, StoreUpdate
  <2> QED
    BY <1>2, <2>1, <2>2, <2>3, Constants DEF Stores
<1>5. CASE InitConnection
  <2>1. newStore \in Ptrs /\ store[newStore] # Nil
    BY <1>5, AcceptorStore DEF InitConnection
  <2>2. CASE store' = [store EXCEPT ![newStore].ssl = TRUE]
    <3>1. store'[p] = store[p] \/ (p = newStore /\ store'[p] = [store[p] EXCEPT !.ssl = TRUE])
      BY <1>3, <2>1, <2>2
    <3>2. store[p] # Nil => [store[p] EXCEPT !.ssl = TRUE] \in Stores
      BY <1>2, StoreUpdate
    <3> QED
      BY <1>2, <2>1, <3>1, <3>2, Constants DEF Stores
  <2> QED
    BY <1>1, <1>5, <2>2 DEF InitConnection
<1>6. CASE AddSocket
  <2>1. newStore \in Ptrs /\ store[newStore] # Nil
    BY <1>6, AcceptorStore DEF AddSocket
  <2>2. CASE store' = [store EXCEPT ![newStore].loop = NextIndex]
    <3>1. store'[p] = store[p] \/ (p = newStore /\ store'[p] = [store[p] EXCEPT !.loop = NextIndex])
      BY <1>3, <2>1, <2>2
    <3>2. store[p] # Nil => [store[p] EXCEPT !.loop = NextIndex] \in Stores
      BY <1>2, StoreUpdate, Index DEF Base, TypeOK, ThreadTypeOK
    <3> QED
      BY <1>2, <1>6, <2>1, <3>1, <3>2, Constants DEF Stores
  <2> QED
    BY <1>1, <1>6, <2>2 DEF AddSocket
<1>7. ASSUME NEW i \in Loops, Dispatch(i) PROVE
        /\ store'[p] # Nil <=> store[p] # Nil
        /\ store[p] # Nil => store'[p].fd = store[p].fd /\ store'[p].loop = store[p].loop
  <2>1. store'[p] = store[p] \/ (store[p] # Nil /\ store'[p] = [store[p] EXCEPT !.type = "Data"])
    BY <1>7 DEF Dispatch
  <2>2. store[p] # Nil => [store[p] EXCEPT !.type = "Data"] \in Stores
    BY <1>2, StoreUpdate DEF Kinds
  <2> QED
    BY <1>2, <2>1, <2>2, Constants DEF Stores
<1>8. ASSUME NEW i \in Loops, NEW e \in batch[i], MarkClosed(i, e) PROVE
        /\ store'[p] # Nil <=> store[p] # Nil
        /\ store[p] # Nil => store'[p].fd = store[p].fd /\ store'[p].loop = store[p].loop
  <2>1. store'[p] = store[p] \/ (store[p] # Nil /\ store'[p] = [store[p] EXCEPT !.type = "Closed"])
    BY <1>8 DEF MarkClosed
  <2>2. store[p] # Nil => [store[p] EXCEPT !.type = "Closed"] \in Stores
    BY <1>2, StoreUpdate DEF Kinds
  <2> QED
    BY <1>2, <2>1, <2>2, Constants DEF Stores
<1>9. ASSUME NEW i \in Loops, RemoveSocket(i) PROVE
        /\ store'[p] # Nil <=> store[p] # Nil
        /\ store[p] # Nil => store'[p].fd = store[p].fd /\ store'[p].loop = store[p].loop
  <2>1. store'[p] = store[p] \/ (store[p] # Nil /\ store'[p] = [store[p] EXCEPT !.ssl = FALSE])
    BY <1>3, <1>9 DEF RemoveSocket
  <2>2. store[p] # Nil => [store[p] EXCEPT !.ssl = FALSE] \in Stores
    BY <1>2, StoreUpdate
  <2> QED
    BY <1>2, <2>1, <2>2, Constants DEF Stores
<1> QED
  BY <1>1, <1>4, <1>5, <1>6, <1>7, <1>8, <1>9

LEMMA OwnershipStep == Base /\ [Next]_vars => Ownership'
<1> SUFFICES ASSUME Base, HeapTypeOK, Ownership, ControlInv, [Next]_vars PROVE Ownership'
  BY DEF Base, TypeOK
<1> USE Constants DEF Ownership, Owned, Live, HeapTypeOK
<1>1. ASSUME UNCHANGED <<clientEventStores, newStore>>,
             \A p \in Ptrs : /\ store'[p] # Nil <=> store[p] # Nil
                             /\ store[p] # Nil => store'[p].fd = store[p].fd
      PROVE  Ownership'
  BY <1>1
<1>2. CASE UNCHANGED heap
  BY <1>1, <1>2 DEF heap, owners
<1>3. CASE CloseClients \/ InitConnection \/ AddSocket
  BY <1>1, <1>3, StoresKept DEF CloseClients, InitConnection, AddSocket, owners
<1>4. ASSUME NEW i \in Loops, Dispatch(i) \/ RemoveSocket(i) \/ \E e \in batch[i] : MarkClosed(i, e)
      PROVE  Ownership'
  BY <1>1, <1>4, StoresKept DEF Dispatch, RemoveSocket, MarkClosed, owners
<1>5. CASE ClearClients
  <2>1. newStore = Nil
    BY <1>5 DEF ClearClients, ControlInv
  <2> QED
    BY <1>5, <2>1 DEF ClearClients
<1>6. ASSUME NEW f \in Fds, NEW p \in Ptrs, Accept(f, p) PROVE Ownership'
  <2>1. newStore = Nil
    BY <1>6 DEF Accept, ControlInv
  <2>2. /\ newStore' = p /\ store[p] = Nil /\ clientEventStores' = clientEventStores
        /\ \A q \in Ptrs \ {p} : store'[q] = store[q]
    BY <1>6 DEF Accept
  <2> QED
    BY <2>1, <2>2
<1>7. CASE InsertAndPost
  <2> DEFINE f == store[newStore].fd
  <2>1. newStore \in Ptrs /\ store[newStore] # Nil /\ f \in Fds
    BY <1>7, AcceptorStore, LiveStore DEF InsertAndPost, Base
  <2>2. /\ newStore' = Nil
        /\ clientEventStores' = [clientEventStores EXCEPT ![f] = newStore]
        /\ \A p \in Ptrs : store'[p] = IF p = clientEventStores[f] THEN Nil ELSE store[p]
    BY <1>7 DEF InsertAndPost
  <2> HIDE DEF f
  <2>3. /\ clientEventStores'[f] = newStore
        /\ \A g \in Fds \ {f} : clientEventStores'[g] = clientEventStores[g]
    BY <2>1, <2>2
  <2>4. \A g \in Fds : clientEventStores'[g] # Nil =>
          /\ store'[clientEventStores'[g]] # Nil
          /\ store'[clientEventStores'[g]].fd = g
    BY <2>1, <2>2, <2>3 DEF f
  <2>5. \A p \in Ptrs : store'[p] # Nil => \E g \in Fds : p = clientEventStores'[g]
    BY <2>1, <2>2, <2>3
  <2> QED
    BY <2>2, <2>4, <2>5
<1>8. ASSUME NEW i \in Loops, EraseSocket(i) PROVE Ownership'
  <2>1. PICK f : /\ store' = [p \in Ptrs |-> IF p = clientEventStores[f] THEN Nil ELSE store[p]]
                 /\ clientEventStores' = [clientEventStores EXCEPT ![f] = Nil]
                 /\ f \in Fds
    <3>1. current[i] \in Ptrs
      BY <1>8 DEF EraseSocket, ControlInv, Base, TypeOK, ThreadTypeOK
    <3>2. store[current[i]] # Nil => store[current[i]].fd \in Fds
      BY <3>1, LiveStore DEF Base
    <3> QED
      BY <1>8, <3>2 DEF EraseSocket
  <2>2. newStore' = newStore
    BY <1>8 DEF EraseSocket
  <2>3. \A g \in Fds \ {f} : clientEventStores'[g] = clientEventStores[g]
    BY <2>1
  <2>4. clientEventStores'[f] = Nil
    BY <2>1
  <2>5. \A p \in Ptrs : store'[p] = IF p = clientEventStores[f] THEN Nil ELSE store[p]
    BY <2>1
  <2>6. newStore = Nil
    BY <1>8 DEF EraseSocket, ControlInv
  <2> QED
    BY <2>1, <2>2, <2>3, <2>4, <2>5, <2>6
<1>9. ASSUME NEW w \in Workers, TakeTask(w) PROVE Ownership'
  BY <1>1, <1>9 DEF TakeTask, owners
<1> QED
  BY <1>2, <1>3, <1>4, <1>5, <1>6, <1>7, <1>8, <1>9, HeapWriters

LEMMA ControlStep == Base /\ [Next]_vars => ControlInv'
<1> SUFFICES ASSUME Base, TypeOK, NetTypeOK, HeapTypeOK, ThreadTypeOK, ControlInv, Ownership, [Next]_vars
             PROVE  ControlInv'
  BY DEF Base, TypeOK
<1> USE Constants DEF ControlInv, Live, ThreadTypeOK
<1>1. ASSUME UNCHANGED <<newStore, clientEventStoresMutex, store, pc, current>>,
             main' = main \/ main' \notin {"created", "loops", "clearClients"},
             main = "created" => UNCHANGED m_continuePolling
      PROVE  ControlInv'
  BY <1>1
<1>2. CASE Clientele \/ Terminate \/ UNCHANGED vars \/ SetEventReceiver \/ CloseServerSocket
  BY <1>1, <1>2 DEF Clientele, Terminate, vars, SetEventReceiver, CloseServerSocket, servervars,
                    owners, scheduler, polling, application
<1>3. CASE StartReceivingConnection
  BY <1>3 DEF StartReceivingConnection, owners, polling, scheduler
<1>4. CASE CreateServerSocketAndStartReceiving
  BY <1>4 DEF CreateServerSocketAndStartReceiving, owners, polling, scheduler
<1>5. ASSUME NEW t \in Threads, StopEventThread(t) PROVE ControlInv'
  BY <1>1, <1>5 DEF StopEventThread, owners, polling
<1>6. CASE CloseClients
  <2>1. newStore = Nil /\ \A i \in Loops : pc[i] \notin {"remove", "erase"}
    BY <1>6 DEF LockStores, CloseClients
  <2> QED
    BY <1>6, <2>1 DEF LockStores, CloseClients, polling, scheduler
<1>7. CASE ClearClients
  <2>1. newStore = Nil /\ \A i \in Loops : pc[i] \notin {"remove", "erase"}
    BY <1>7 DEF ClearClients
  <2> QED
    BY <1>7, <2>1 DEF ClearClients, polling, scheduler
<1>8. ASSUME NEW t \in Threads, ExitPolling(t) PROVE ControlInv'
  BY <1>8 DEF ExitPolling, owners, polling, scheduler, application
<1>9. CASE AcceptorEvent \/ AcceptError
  BY <1>9 DEF AcceptorEvent, AcceptError, AfterEvent, owners, polling, scheduler, application
<1>10. ASSUME NEW f \in Fds, NEW p \in Ptrs, Accept(f, p) PROVE ControlInv'
  <2>1. newStore = Nil /\ \A i \in Loops : pc[i] \notin {"remove", "erase"}
    BY <1>10 DEF LockStores, Accept
  <2>2. /\ newStore' = p /\ clientEventStoresMutex' = Acceptor /\ p \in Ptrs
        /\ store'[p] = [conn |-> Head(backlog), fd |-> f, type |-> "New", loop |-> Nil, ssl |-> FALSE]
    BY <1>10 DEF LockStores, Accept, HeapTypeOK
  <2>3. store'[p] # Nil
    <3>1. store'[p] \in Stores
      <4>1. Head(backlog) \in Clients
        BY <1>10 DEF Accept, NetTypeOK
      <4> QED
        BY <2>2, <4>1 DEF Stores, Kinds
    <3> QED
      BY <3>1
  <2>4. store'[p].loop = Nil
    BY <2>2
  <2> QED
    BY <1>10, <2>1, <2>2, <2>3, <2>4 DEF LockStores, Accept, polling, scheduler, application
<1>11. CASE InitConnection
  <2>1. newStore \in Ptrs /\ store[newStore] # Nil /\ store[newStore].loop = Nil
    BY <1>11, AcceptorStore DEF InitConnection
  <2>2. store'[newStore] # Nil /\ store'[newStore].loop = Nil
    <3>1. ~AddSocket
      BY <1>11 DEF InitConnection, AddSocket
    <3> QED
      BY <1>11, <2>1, <3>1, StoresKept
  <2> QED
    BY <1>11, <2>1, <2>2 DEF InitConnection, owners, polling, scheduler, application
<1>12. CASE AddSocket
  BY <1>12, StoresKept, AcceptorStore DEF AddSocket, owners, polling, application
<1>13. CASE InsertAndPost
  BY <1>13 DEF InsertAndPost, AfterEvent, polling, scheduler, application
<1>14. ASSUME NEW i \in Loops, EpollWait(i) PROVE ControlInv'
  BY <1>14 DEF EpollWait, owners, scheduler, application
<1>15. ASSUME NEW i \in Loops, NEW e \in batch[i], HandleEvent(i, e) PROVE ControlInv'
  BY <1>15 DEF HandleEvent, AfterEvent, owners, scheduler, application
<1>16. ASSUME NEW i \in Loops, Dispatch(i) PROVE ControlInv'
  <2>1. newStore # Nil => /\ store'[newStore] # Nil
                          /\ pc[Acceptor] \in {"init", "add"} => store'[newStore].loop = Nil
    <3>1. ~AddSocket
      BY <1>16 DEF Dispatch, AddSocket, Post
    <3> QED
      BY <1>16, <3>1, StoresKept, AcceptorStore
  <2> QED
    BY <1>16, <2>1 DEF Dispatch, AfterEvent, owners, scheduler, application
<1>17a. ASSUME NEW i \in Loops, NEW e \in batch[i], MarkClosed(i, e) PROVE ControlInv'
  BY <1>17a DEF LockStores, MarkClosed, scheduler, application
<1>17. ASSUME NEW i \in Loops, RemoveSocket(i) PROVE ControlInv'
  <2>1. newStore = Nil
    BY <1>17 DEF RemoveSocket
  <2> QED
    BY <1>17, <2>1 DEF RemoveSocket, owners, polling, scheduler, application
<1>18. ASSUME NEW i \in Loops, EraseSocket(i) PROVE ControlInv'
  <2>1. newStore = Nil /\ \A j \in Loops : pc[j] \in {"remove", "erase"} => j = i
    BY <1>18 DEF EraseSocket
  <2>2. /\ UNCHANGED <<newStore, main, m_continuePolling>>
        /\ clientEventStoresMutex' = Nil /\ current' = [current EXCEPT ![i] = Nil]
        /\ pc' = [pc EXCEPT ![i] = AfterEvent(i, batch[i])]
    BY <1>18 DEF EraseSocket, scheduler, application
  <2>3. AfterEvent(i, batch[i]) \in {"batch", "poll", "exited"}
    BY DEF AfterEvent
  <2>4. main # "clearClients" /\ main # "created"
    BY <1>18 DEF EraseSocket
  <2> QED
    BY <2>1, <2>2, <2>3, <2>4
<1>19. ASSUME NEW w \in Workers, WorkerThread(w) PROVE ControlInv'
  BY <1>1, <1>2, <1>19, Zenon DEF WorkerThread, TakeTask, HandleCallBackEvent, Return, GetAvailable,
     ReceiveFault, Read, owners, polling, scheduler, application
<1> QED
  BY <1>2, <1>3, <1>4, <1>5, <1>6, <1>7, <1>8, <1>9, <1>10, <1>11, <1>12, <1>13, <1>14, <1>15,
     <1>16, <1>17, <1>17a, <1>18, <1>19
     DEF Next, MainThread, StopPolling, AcceptorThread, HandleNewConnection, EventLoop,
         CreateServerSocketError, LoopFault

LEMMA BaseInit == Init => Base
<1> SUFFICES ASSUME Init PROVE Base
  OBVIOUS
<1> USE Constants DEF Init
<1>1. NetTypeOK
  <2> USE DEF NetInit
  <2>1. backlog \in Seq(Clients)
    OBVIOUS
  <2>2. interest \in [Loops -> [Fds -> Ptrs \cup {Nil}]] /\ ready \in [Loops -> SUBSET Fds]
    OBVIOUS
  <2>3. /\ listener \in {"none", "watched", "unwatched", "closed"} /\ listenerEdge \in BOOLEAN
        /\ peer \in [Clients -> {"away", "connected", "closed"}]
        /\ sent \in [Clients -> Nat] /\ unread \in [Clients -> Nat]
        /\ file \in [Fds -> Clients \cup {Nil}]
    OBVIOUS
  <2> QED
    BY <2>1, <2>2, <2>3 DEF NetTypeOK
<1>2. HeapTypeOK
  BY DEF HeapTypeOK
<1>3. ThreadTypeOK
  BY ServerAssumption DEF ThreadTypeOK, ThreadStates, MainStates
<1>4. ControlInv /\ Ownership
  BY DEF ControlInv, Ownership, Live
<1> QED
  BY <1>1, <1>2, <1>3, <1>4 DEF Base, TypeOK

(* Base is inductive.                                                       *)
LEMMA BaseAlways == Spec => []Base
<1>1. Base /\ [Next]_vars => Base'
  BY NetTyping, HeapTyping, ThreadTyping, ControlStep, OwnershipStep DEF Base, TypeOK
<1> QED
  BY <1>1, BaseInit, PTL DEF Spec

(* Every variable keeps its type.                                           *)
THEOREM Typing == Spec => []TypeOK
<1>1. Base => TypeOK
  BY DEF Base
<1> QED
  BY <1>1, BaseAlways, PTL

(* Every live EventStorePointer has one owner, whatever the interleaving of *)
(* acceptor, event loops and closeAllClientSocket.                          *)
THEOREM OwnedOnce == Spec => []Ownership
<1>1. Base => Ownership
  BY DEF Base
<1> QED
  BY <1>1, BaseAlways, PTL
-------------------------------------------------------------------------------
(* Two live stores other than the acceptor's have different descriptors.    *)
LEMMA OneStorePerFd ==
  ASSUME Base, NEW p \in Ptrs, NEW q \in Ptrs, Live(p), Live(q), p # newStore, q # newStore,
         store[p].fd = store[q].fd
  PROVE  p = q
BY DEF Base, Ownership, Owned

LEMMA HeldTypes ==
  ASSUME Base, NEW i \in Loops
  PROVE  /\ \A e \in batch[i] : e.ptr \in Ptrs /\ e.ptr \in Held(i)
         /\ current[i] # Nil => current[i] \in Ptrs /\ current[i] \in Held(i)
         /\ Held(i) \subseteq Ptrs
         /\ \A f \in Fds : interest[i][f] \in Ptrs \cup {Nil}
BY DEF Base, TypeOK, ThreadTypeOK, NetTypeOK, Held

(* Steps that touch neither stores, descriptors nor batches.                *)
LEMMA QuietStep ==
  ASSUME Base, Tracked, UNCHANGED <<store, file, interest, batch, current, newStore>>,
         \A i \in Loops : /\ (m_continuePolling[i] \/ pc[i] = "poll")' =>
                               m_continuePolling[i] \/ pc[i] = "poll"
                          /\ (pc[i] = "erase")' <=> pc[i] = "erase",
         main = "clearClients" => main' = "clearClients"
  PROVE  Tracked'
<1>1. \A i \in Loops, f \in Fds : MayReturn(i, f)' => MayReturn(i, f)
  BY DEF MayReturn
<1>2. \A i \in Loops : Held(i)' = Held(i)
  BY DEF Held
<1>3. InterestInv'
  BY <1>1 DEF Tracked, InterestInv, Live
<1>4. HeldInv'
  BY <1>1, <1>2 DEF Tracked, HeldInv, Live
<1>5. FreshInv'
  BY <1>1, <1>2 DEF Tracked, FreshInv
<1> QED
  BY <1>3, <1>4, <1>5 DEF Tracked

LEMMA ClosingStep ==
  ASSUME Base, Tracked, main # "stopped", CloseClients
  PROVE  Tracked'
<1> DEFINE closed == {store[p].fd : p \in {q \in Owned : Closable(q)}}
<1>1. /\ main' = "clearClients"
      /\ UNCHANGED <<pc, m_continuePolling, batch, current, newStore>>
      /\ CloseFds(closed)
  BY DEF CloseClients, polling, scheduler
<1> HIDE DEF closed
<1>2. \A i \in Loops, f \in Fds : MayReturn(i, f)' =>
         MayReturn(i, f) /\ interest'[i][f] = interest[i][f] /\ file'[f] = file[f]
  BY <1>1 DEF MayReturn, CloseFds
<1>3. \A p \in Ptrs : Live(p) => Live(p)' /\ store'[p].fd = store[p].fd /\ store'[p].loop = store[p].loop
  <2>1. ~AddSocket
    BY Constants DEF LockStores, CloseClients, AddSocket, Base, ControlInv
  <2> QED
    BY <2>1, StoresKept
<1>4. \A i \in Loops : Held(i)' = Held(i)
  BY <1>1 DEF Held
<1>5. InterestInv'
  BY <1>2, <1>3, HeldTypes DEF Tracked, InterestInv, MayReturn
<1>6. HeldInv'
  BY <1>1, <1>2, <1>3, <1>4, HeldTypes DEF Tracked, HeldInv
<1>7. FreshInv'
  <2>1. newStore = Nil
    BY Constants DEF LockStores, CloseClients, Base, ControlInv
  <2> QED
    BY <1>1, <2>1 DEF FreshInv
<1> QED
  BY <1>5, <1>6, <1>7 DEF Tracked

LEMMA AcceptStep ==
  ASSUME Base, Tracked, main # "stopped", NEW f \in Fds, NEW p \in Ptrs, Accept(f, p)
  PROVE  Tracked'
<1>1. /\ ~Live(p) /\ file[f] = Nil /\ newStore = Nil /\ newStore' = p
      /\ main # "clearClients" /\ \A i \in Loops : pc[i] # "erase"
  BY Constants DEF LockStores, Accept, Base, ControlInv
<1>2. /\ UNCHANGED <<interest, batch, current, m_continuePolling, main>>
      /\ \A i \in Loops : pc'[i] = pc[i]
      /\ \A g \in Fds \ {f} : file'[g] = file[g]
      /\ \A q \in Ptrs \ {p} : store'[q] = store[q]
  BY Constants DEF Accept, polling, scheduler, application, Base, TypeOK, HeapTypeOK, ThreadTypeOK,
                   NetTypeOK
<1>3. store'[p].fd = f
  BY DEF Accept, Base, TypeOK, HeapTypeOK
<1>4. \A i \in Loops, g \in Fds : MayReturn(i, g)' <=> MayReturn(i, g)
  BY <1>2 DEF MayReturn
<1>5. \A i \in Loops : Held(i)' = Held(i)
  BY <1>2 DEF Held
<1>6. \A i \in Loops, g \in Fds : MayReturn(i, g) => interest[i][g] \in Ptrs \ {p} /\ g # f
  BY <1>1, HeldTypes DEF Tracked, InterestInv, MayReturn
<1>7. \A i \in Loops : \A q \in Held(i) : q \in Ptrs \ {p} /\ store[q].fd # f
  BY <1>1, HeldTypes DEF Tracked, HeldInv
<1>8. \A q \in Ptrs : Live(q) => store[q].fd \in Fds
  BY LiveStore DEF Base
<1>9. InterestInv'
  BY <1>2, <1>4, <1>6 DEF Tracked, InterestInv, Live
<1>10. HeldInv'
  BY <1>1, <1>2, <1>4, <1>5, <1>7, <1>8, HeldTypes DEF Tracked, HeldInv, Live
<1>11. FreshInv'
  BY <1>1, <1>2, <1>3, <1>4, <1>5, <1>6, <1>7 DEF FreshInv
<1> QED
  BY <1>9, <1>10, <1>11 DEF Tracked

LEMMA InitStep ==
  ASSUME Base, Tracked, main # "stopped", InitConnection
  PROVE  Tracked'
<1> DEFINE f == store[newStore].fd
<1>1. newStore \in Ptrs /\ Live(newStore) /\ store[newStore].loop = Nil /\ newStore # Nil
  BY AcceptorStore, Constants DEF InitConnection, Base, ControlInv
<1>2. /\ UNCHANGED <<batch, current, m_continuePolling, main, newStore>>
      /\ \A i \in Loops : pc'[i] = pc[i]
  BY Constants DEF InitConnection, polling, scheduler, application, Base, TypeOK, ThreadTypeOK
<1>3. UNCHANGED <<file, interest>> \/ CloseFds({f})
  BY DEF InitConnection, descriptors
<1> HIDE DEF f
<1>4. \A i \in Loops, g \in Fds : MayReturn(i, g)' =>
         MayReturn(i, g) /\ interest'[i][g] = interest[i][g] /\ file'[g] = file[g]
  BY <1>2, <1>3 DEF MayReturn, CloseFds
<1>5. \A g \in Fds : g # f => file'[g] = file[g]
  BY <1>3 DEF CloseFds
<1>6. \A p \in Ptrs : Live(p) =>
         Live(p)' /\ store'[p].fd = store[p].fd /\ store'[p].loop = store[p].loop
  <2>1. ~AddSocket
    BY DEF InitConnection, AddSocket
  <2> QED
    BY <2>1, StoresKept
<1>7. \A i \in Loops : Held(i)' = Held(i)
  BY <1>2 DEF Held
<1>8. \A i \in Loops : \A p \in Held(i) : p \in Ptrs /\ store[p].fd \in Fds /\ store[p].fd # f
  <2> SUFFICES ASSUME NEW i \in Loops, NEW p \in Held(i)
               PROVE  p \in Ptrs /\ store[p].fd \in Fds /\ store[p].fd # f
    OBVIOUS
  <2>1. p \in Ptrs /\ Live(p) /\ p # newStore
    BY <1>1, HeldTypes, Constants DEF Tracked, HeldInv
  <2> QED
    BY <1>1, <2>1, LiveStore DEF Tracked, FreshInv, Base, f
<1>9. InterestInv'
  BY <1>4, <1>6, HeldTypes DEF Tracked, InterestInv, MayReturn
<1>10. HeldInv'
  BY <1>2, <1>4, <1>5, <1>6, <1>7, <1>8 DEF Tracked, HeldInv
<1>11. FreshInv'
  <2>1. newStore' = newStore /\ store'[newStore'].fd = f
    BY <1>1, <1>2, <1>6 DEF f
  <2>2. \A i \in Loops : \A p \in Held(i)' : store'[p].fd # f
    BY <1>6, <1>7, <1>8 DEF Tracked, HeldInv
  <2>3. \A i \in Loops, g \in Fds : (MayReturn(i, g) /\ interest[i][g] # newStore)' => g # f
    BY <1>1, <1>2, <1>4 DEF Tracked, FreshInv, f
  <2> QED
    BY <2>1, <2>2, <2>3 DEF FreshInv
<1> QED
  BY <1>9, <1>10, <1>11 DEF Tracked

LEMMA AddStep ==
  ASSUME Base, Tracked, main # "stopped", AddSocket
  PROVE  Tracked'
<1> DEFINE f == store[newStore].fd
<1>1. newStore \in Ptrs /\ Live(newStore) /\ store[newStore].loop = Nil /\ newStore # Nil
  BY AcceptorStore, Constants DEF AddSocket, Base, ControlInv
<1>2. f \in Fds /\ NextIndex \in Loops
  BY <1>1, LiveStore, Index DEF Base, TypeOK, ThreadTypeOK
<1>3. /\ UNCHANGED <<file, batch, current, m_continuePolling, main, newStore>>
      /\ \A i \in Loops : pc'[i] = pc[i]
  BY Constants DEF AddSocket, polling, application, Base, TypeOK, ThreadTypeOK
<1>4. \/ UNCHANGED <<interest, store>>
      \/ /\ interest' = [interest EXCEPT ![NextIndex][f] = newStore]
         /\ store'[newStore].loop = NextIndex
         /\ file[f] # Nil
  <2>1. CASE store' = [store EXCEPT ![newStore].loop = NextIndex]
    <3>1. store[newStore] \in Stores
      BY <1>1, LiveStore DEF Base
    <3>2. store'[newStore] = [store[newStore] EXCEPT !.loop = NextIndex]
      BY <1>1, <2>1 DEF Base, TypeOK, HeapTypeOK
    <3>3. store'[newStore].loop = NextIndex
      BY <3>1, <3>2 DEF Stores
    <3> QED
      BY <3>3 DEF AddSocket, EpollAdd
  <2>2. CASE UNCHANGED <<interest, store>>
    BY <2>2
  <2> QED
    BY <2>1, <2>2 DEF AddSocket
<1> HIDE DEF f
<1>5. \A p \in Ptrs : Live(p) =>
         /\ Live(p)' /\ store'[p].fd = store[p].fd
         /\ p # newStore => store'[p].loop = store[p].loop
  BY StoresKept
<1>6. \A i \in Loops, g \in Fds :
         MayReturn(i, g)' => \/ MayReturn(i, g) /\ interest'[i][g] = interest[i][g]
                             \/ /\ i = NextIndex /\ g = f /\ interest'[i][g] = newStore
                                /\ store'[newStore].loop = NextIndex /\ file[f] # Nil
  BY <1>2, <1>3, <1>4 DEF MayReturn, Base, TypeOK, NetTypeOK
<1>7. \A i \in Loops : Held(i)' = Held(i)
  BY <1>3 DEF Held
<1>8. \A i \in Loops, g \in Fds : MayReturn(i, g) => interest[i][g] \in Ptrs \ {newStore}
  BY <1>1, HeldTypes, Constants DEF Tracked, InterestInv, MayReturn
<1>9. \A i \in Loops : \A p \in Held(i) : p \in Ptrs \ {newStore} /\ Live(p)
  BY <1>1, HeldTypes, Constants DEF Tracked, HeldInv
<1>10. InterestInv'
  <2> SUFFICES ASSUME NEW i \in Loops, NEW g \in Fds, MayReturn(i, g)'
               PROVE  (/\ Live(interest[i][g])
                       /\ store[interest[i][g]].fd = g
                       /\ store[interest[i][g]].loop = i
                       /\ file[g] # Nil)'
    BY DEF InterestInv
  <2>1. CASE MayReturn(i, g) /\ interest'[i][g] = interest[i][g]
    BY <1>3, <1>5, <1>8, <2>1 DEF Tracked, InterestInv
  <2>2. CASE ~(MayReturn(i, g) /\ interest'[i][g] = interest[i][g])
    BY <1>1, <1>3, <1>5, <1>6, <2>2 DEF f
  <2> QED
    BY <2>1, <2>2
<1>11. HeldInv'
  <2>1. \A i \in Loops : pc[i] # "erase"
    BY <1>1, Constants DEF Base, ControlInv
  <2> QED
    BY <1>3, <1>5, <1>7, <1>9, <2>1 DEF Tracked, HeldInv
<1>12. FreshInv'
  <2>1. newStore' = newStore /\ store'[newStore'].fd = f
    BY <1>1, <1>3, <1>5 DEF f
  <2>2. \A i \in Loops : \A p \in Held(i)' : store'[p].fd # f
    BY <1>1, <1>5, <1>7, <1>9 DEF Tracked, FreshInv, f
  <2>3. \A i \in Loops, g \in Fds : (MayReturn(i, g) /\ interest[i][g] # newStore)' => g # f
    BY <1>1, <1>3, <1>6 DEF Tracked, FreshInv, f
  <2> QED
    BY <2>1, <2>2, <2>3 DEF FreshInv
<1> QED
  BY <1>10, <1>11, <1>12 DEF Tracked

(* The insertion frees a store that no loop knows: it has the descriptor of *)
(* the new one.                                                             *)
LEMMA InsertStep ==
  ASSUME Base, Tracked, main # "stopped", InsertAndPost
  PROVE  Tracked'
<1> DEFINE f == store[newStore].fd
<1>1. newStore \in Ptrs /\ Live(newStore) /\ newStore # Nil /\ newStore' = Nil
  BY AcceptorStore, Constants DEF InsertAndPost
<1>2. f \in Fds
  BY <1>1, LiveStore DEF Base
<1>3. /\ UNCHANGED <<file, interest, batch, current, m_continuePolling, main>>
      /\ \A i \in Loops : pc'[i] = pc[i]
  BY Constants DEF InsertAndPost, netvars, descriptors, polling, scheduler, application, Base,
     TypeOK,
                   ThreadTypeOK
<1>4. \A p \in Ptrs : p # clientEventStores[f] => store'[p] = store[p]
  BY DEF InsertAndPost
<1>5. \A p \in Ptrs : p = clientEventStores[f] => Live(p) /\ store[p].fd = f /\ p # newStore
  BY <1>2, Constants DEF Base, Ownership
<1>6. \A i \in Loops : pc[i] # "erase"
  BY <1>1, Constants DEF Base, ControlInv
<1> HIDE DEF f
<1>7. \A i \in Loops, g \in Fds : MayReturn(i, g)' <=> MayReturn(i, g)
  BY <1>3 DEF MayReturn
<1>8. \A i \in Loops : Held(i)' = Held(i)
  BY <1>3 DEF Held
<1>9. \A i \in Loops, g \in Fds : MayReturn(i, g) =>
         interest[i][g] \in Ptrs /\ interest[i][g] # clientEventStores[f]
  BY <1>1, <1>5, HeldTypes DEF Tracked, InterestInv, FreshInv, MayReturn, f
<1>10. \A i \in Loops : \A p \in Held(i) : p \in Ptrs /\ p # clientEventStores[f]
  BY <1>1, <1>5, HeldTypes DEF Tracked, FreshInv, f
<1>11. InterestInv'
  BY <1>3, <1>4, <1>7, <1>9 DEF Tracked, InterestInv, Live
<1>12. HeldInv'
  BY <1>3, <1>4, <1>6, <1>8, <1>10 DEF Tracked, HeldInv, Live
<1>13. FreshInv'
  BY <1>1 DEF FreshInv
<1> QED
  BY <1>11, <1>12, <1>13 DEF Tracked

LEMMA WaitStep ==
  ASSUME Base, Tracked, main # "stopped", NEW i \in Loops, EpollWait(i)
  PROVE  Tracked'
<1>1. /\ UNCHANGED <<store, file, interest, current, m_continuePolling, main, newStore>>
      /\ batch' = [batch EXCEPT ![i] = Events(i)] /\ pc[i] = "poll" /\ pc'[i] = "batch"
      /\ \A j \in Loops \ {i} : pc'[j] = pc[j]
  BY Constants DEF EpollWait, owners, scheduler, application, Base, TypeOK, ThreadTypeOK
<1>2. /\ current[i] = Nil /\ batch'[i] = Events(i)
      /\ \A j \in Loops \ {i} : batch'[j] = batch[j]
  BY <1>1 DEF Base, ControlInv, TypeOK, ThreadTypeOK
<1>3. \A j \in Loops, f \in Fds : MayReturn(j, f)' => MayReturn(j, f)
  BY <1>1 DEF MayReturn
<1>4. \A j \in Loops \ {i} : Held(j)' = Held(j)
  BY <1>1, <1>2 DEF Held
<1>5. \A e \in Events(i) : \E f \in Fds :
         /\ MayReturn(i, f)
         /\ e = [ptr |-> interest[i][f], hup |-> peer[file[f]] = "closed"]
  BY <1>1 DEF Events, MayReturn, Base, TypeOK, NetTypeOK
<1>6. \A p \in Held(i)' : \E f \in Fds : MayReturn(i, f) /\ p = interest[i][f]
  BY <1>1, <1>2, <1>5 DEF Held
<1>7. InterestInv'
  BY <1>1, <1>3 DEF Tracked, InterestInv, Live
<1>8. HeldInv'
  <2>1. \A p \in Held(i)' : Live(p) /\ store[p].loop = i /\ file[store[p].fd] # Nil
    BY <1>6 DEF Tracked, InterestInv
  <2>2. \A d, e \in Events(i) : d.ptr = e.ptr => d = e
    <3> SUFFICES ASSUME NEW d \in Events(i), NEW e \in Events(i), d.ptr = e.ptr PROVE d = e
      OBVIOUS
    <3>1. PICK f \in Fds : /\ MayReturn(i, f)
                           /\ d = [ptr |-> interest[i][f], hup |-> peer[file[f]] = "closed"]
      BY <1>5
    <3>2. PICK g \in Fds : /\ MayReturn(i, g)
                           /\ e = [ptr |-> interest[i][g], hup |-> peer[file[g]] = "closed"]
      BY <1>5
    <3>3. interest[i][f] = interest[i][g]
      BY <3>1, <3>2
    <3>4. f = g
      BY <3>1, <3>2, <3>3 DEF Tracked, InterestInv
    <3> QED
      BY <3>1, <3>2, <3>4
  <2>3. \A e \in Events(i) : e.ptr # Nil
    BY <1>5 DEF MayReturn
  <2> QED
    BY <1>1, <1>2, <1>3, <1>4, <2>1, <2>2, <2>3 DEF Tracked, HeldInv, Live
<1>9. FreshInv'
  BY <1>1, <1>3, <1>4, <1>6 DEF Tracked, FreshInv, InterestInv
<1> QED
  BY <1>7, <1>8, <1>9 DEF Tracked

LEMMA HandleStep ==
  ASSUME Base, Tracked, main # "stopped", NEW i \in Loops, NEW e \in batch[i], HandleEvent(i, e)
  PROVE  Tracked'
<1>1. /\ UNCHANGED <<store, file, interest, m_continuePolling, main, newStore>>
      /\ batch' = [batch EXCEPT ![i] = @ \ {e}] /\ pc[i] = "batch"
      /\ current' = current \/ current' = [current EXCEPT ![i] = e.ptr]
  BY DEF HandleEvent, netvars, descriptors, owners, scheduler, application
<1>2. /\ pc'[i] # "erase"
      /\ pc'[i] = "poll" => m_continuePolling[i]
      /\ \A j \in Loops \ {i} : pc'[j] = pc[j]
  BY Constants DEF HandleEvent, AfterEvent, Base, TypeOK, ThreadTypeOK
<1>3. /\ current[i] = Nil /\ current'[i] \in {Nil, e.ptr}
      /\ batch'[i] = batch[i] \ {e}
      /\ \A j \in Loops \ {i} : batch'[j] = batch[j] /\ current'[j] = current[j]
  BY <1>1 DEF Base, ControlInv, TypeOK, ThreadTypeOK
<1>4. \A j \in Loops, f \in Fds : MayReturn(j, f)' => MayReturn(j, f)
  BY <1>1, <1>2 DEF MayReturn
<1>5. \A j \in Loops : Held(j)' \subseteq Held(j)
  BY <1>3 DEF Held
<1>6. InterestInv'
  BY <1>1, <1>4 DEF Tracked, InterestInv, Live
<1>7. HeldInv'
  <2>1. \A d \in batch'[i] : d.ptr # current'[i]
    BY <1>3, HeldTypes, Constants DEF Tracked, HeldInv
  <2>2. \A j \in Loops : pc[j] = "erase" => pc'[j] = "erase" /\ current'[j] = current[j]
    BY <1>1, <1>2, <1>3
  <2>3. \A j \in Loops : pc'[j] = "erase" => pc[j] = "erase" /\ j # i
    BY <1>2
  <2>4. \A j \in Loops : batch'[j] \subseteq batch[j]
    BY <1>3
  <2>5. \A j \in Loops : \A d \in batch'[j] : d.ptr # current'[j]
    BY <1>3, <2>1 DEF Tracked, HeldInv
  <2> QED
    BY <1>1, <1>4, <1>5, <2>2, <2>3, <2>4, <2>5 DEF Tracked, HeldInv, Live
<1>8. FreshInv'
  BY <1>1, <1>4, <1>5 DEF Tracked, FreshInv
<1> QED
  BY <1>6, <1>7, <1>8 DEF Tracked

LEMMA DispatchStep ==
  ASSUME Base, Tracked, main # "stopped", NEW i \in Loops, Dispatch(i)
  PROVE  Tracked'
<1>1. /\ UNCHANGED <<file, interest, batch, m_continuePolling, main, newStore>>
      /\ current' = [current EXCEPT ![i] = Nil] /\ pc[i] = "dispatch"
  BY DEF Dispatch, netvars, descriptors, owners, scheduler, application
<1>2. /\ pc'[i] # "erase"
      /\ pc'[i] = "poll" => m_continuePolling[i]
      /\ \A j \in Loops \ {i} : pc'[j] = pc[j]
  BY Constants DEF Dispatch, AfterEvent, Base, TypeOK, ThreadTypeOK
<1>3. current'[i] = Nil /\ \A j \in Loops \ {i} : current'[j] = current[j]
  BY <1>1 DEF Base, TypeOK, ThreadTypeOK
<1>4. \A p \in Ptrs : Live(p) =>
         Live(p)' /\ store'[p].fd = store[p].fd /\ store'[p].loop = store[p].loop
  <2>1. ~AddSocket
    BY Constants DEF Dispatch, AddSocket, Base, TypeOK, ThreadTypeOK
  <2> QED
    BY <2>1, StoresKept
<1>5. \A j \in Loops, f \in Fds : MayReturn(j, f)' => MayReturn(j, f)
  BY <1>1, <1>2 DEF MayReturn
<1>6. \A j \in Loops : Held(j)' \subseteq Held(j)
  BY <1>1, <1>3 DEF Held
<1>7. InterestInv'
  BY <1>1, <1>4, <1>5, HeldTypes DEF Tracked, InterestInv, MayReturn
<1>8. HeldInv'
  <2>1. \A j \in Loops : \A d \in batch[j] : d.ptr # current'[j]
    BY <1>3, HeldTypes, Constants DEF Tracked, HeldInv
  <2>2. \A j \in Loops : /\ pc'[j] = "erase" <=> pc[j] = "erase"
                         /\ pc'[j] = "erase" => current'[j] = current[j]
    BY <1>1, <1>2, <1>3
  <2> QED
    BY <1>1, <1>4, <1>5, <1>6, <2>1, <2>2, HeldTypes DEF Tracked, HeldInv
<1>9. FreshInv'
  <2>1. newStore # Nil => newStore \in Ptrs /\ Live(newStore)
    BY DEF Base, ControlInv, TypeOK, HeapTypeOK
  <2> QED
    BY <1>1, <1>4, <1>5, <1>6, <2>1, HeldTypes DEF Tracked, FreshInv, HeldInv
<1> QED
  BY <1>7, <1>8, <1>9 DEF Tracked

LEMMA MarkStep ==
  ASSUME Base, Tracked, main # "stopped", NEW i \in Loops, NEW e \in batch[i], MarkClosed(i, e)
  PROVE  Tracked'
<1>1. /\ UNCHANGED <<file, interest, m_continuePolling, main>> /\ newStore' = Nil /\ newStore = Nil
      /\ batch' = [batch EXCEPT ![i] = @ \ {e}] /\ pc[i] = "batch"
      /\ current' = [current EXCEPT ![i] = e.ptr] /\ pc' = [pc EXCEPT ![i] = "remove"]
      /\ \A j \in Loops : pc[j] # "erase"
  BY Constants DEF LockStores, MarkClosed, netvars, descriptors, scheduler, application, Base,
     ControlInv
<1>2. /\ current[i] = Nil /\ current'[i] = e.ptr /\ batch'[i] = batch[i] \ {e} /\ pc'[i] = "remove"
      /\ \A j \in Loops \ {i} :
           batch'[j] = batch[j] /\ current'[j] = current[j] /\ pc'[j] = pc[j]
  BY <1>1, Constants DEF Base, ControlInv, TypeOK, ThreadTypeOK
<1>3. \A p \in Ptrs : Live(p) =>
         Live(p)' /\ store'[p].fd = store[p].fd /\ store'[p].loop = store[p].loop
  <2>1. ~AddSocket
    BY <1>1, Constants DEF AddSocket, Base, ControlInv
  <2> QED
    BY <2>1, StoresKept
<1>4. \A j \in Loops, f \in Fds : MayReturn(j, f)' => MayReturn(j, f)
  BY <1>1, <1>2 DEF MayReturn
<1>5. \A j \in Loops : Held(j)' \subseteq Held(j)
  BY <1>2 DEF Held
<1>6. InterestInv'
  BY <1>1, <1>3, <1>4, HeldTypes DEF Tracked, InterestInv, MayReturn
<1>7. HeldInv'
  <2>1. \A d \in batch'[i] : d.ptr # current'[i]
    BY <1>2 DEF Tracked, HeldInv
  <2>2. \A j \in Loops : pc'[j] # "erase"
    BY <1>1, <1>2
  <2>3. \A j \in Loops : batch'[j] \subseteq batch[j]
    BY <1>2
  <2>4. \A j \in Loops : \A d \in batch'[j] : d.ptr # current'[j]
    BY <1>2, <2>1 DEF Tracked, HeldInv
  <2> QED
    BY <1>1, <1>3, <1>5, <2>2, <2>3, <2>4, HeldTypes DEF Tracked, HeldInv
<1>8. FreshInv'
  BY <1>1 DEF FreshInv
<1> QED
  BY <1>6, <1>7, <1>8 DEF Tracked

(* The removal closes the descriptor of one store.  No other store that a   *)
(* loop knows has it.                                                       *)
LEMMA RemoveStep ==
  ASSUME Base, Tracked, main # "stopped", NEW i \in Loops, RemoveSocket(i)
  PROVE  Tracked'
<1> DEFINE p == current[i]
           f == store[p].fd
<1>1. /\ p \in Ptrs /\ p \in Held(i) /\ Live(p) /\ store[p].loop = i /\ p # Nil
  BY HeldTypes DEF RemoveSocket, Tracked, HeldInv, Base, ControlInv
<1>2. f \in Fds
  BY <1>1, LiveStore DEF Base
<1>3. newStore = Nil /\ main # "clearClients" /\ \A j \in Loops : pc[j] # "erase"
  BY Constants DEF RemoveSocket, Base, ControlInv
<1>4. /\ UNCHANGED <<m_continuePolling, main, newStore, batch, current>> /\ pc[i] = "remove"
      /\ pc' = [pc EXCEPT ![i] = "erase"]
  BY DEF RemoveSocket, polling, scheduler, application
<1>5. pc'[i] = "erase" /\ \A j \in Loops \ {i} : pc'[j] = pc[j]
  BY <1>4, Constants DEF Base, TypeOK, ThreadTypeOK
<1>6. CloseFds({f}) \/ (EpollDel(i, f) /\ UNCHANGED file)
  BY <1>1, Constants DEF RemoveSocket
<1> HIDE DEF p, f
<1>7. \A g \in Fds \ {f} : file'[g] = file[g]
  BY <1>6 DEF CloseFds
<1>8. \A j \in Loops, g \in Fds : MayReturn(j, g)' =>
         MayReturn(j, g) /\ interest'[j][g] = interest[j][g] /\ (j = i => g # f)
  <2> SUFFICES ASSUME NEW j \in Loops, NEW g \in Fds, MayReturn(j, g)'
               PROVE  MayReturn(j, g) /\ interest'[j][g] = interest[j][g] /\ (j = i => g # f)
    OBVIOUS
  <2>1. (m_continuePolling[j] \/ (pc[j] = "poll" /\ j # i)) /\ interest'[j][g] # Nil
    BY <1>4, <1>5 DEF MayReturn
  <2>2. CASE CloseFds({f})
    BY <2>1, <2>2 DEF CloseFds, MayReturn
  <2>3. CASE EpollDel(i, f) /\ m_continuePolling[i]
    <3>1. interest' = [interest EXCEPT ![i][f] = Nil]
      BY <2>3 DEF EpollDel, EpollRemove
    <3> QED
      BY <1>2, <2>1, <3>1 DEF MayReturn, Base, TypeOK, NetTypeOK
  <2>4. CASE EpollDel(i, f) /\ ~m_continuePolling[i]
    BY <2>1, <2>4 DEF EpollDel, MayReturn
  <2> QED
    BY <1>6, <2>2, <2>3, <2>4
<1>9. \A q \in Ptrs : Live(q) =>
         Live(q)' /\ store'[q].fd = store[q].fd /\ store'[q].loop = store[q].loop
  <2>1. ~AddSocket
    BY <1>3, Constants DEF AddSocket, Base, ControlInv
  <2> QED
    BY <2>1, StoresKept
<1>10. \A j \in Loops : Held(j)' = Held(j)
  BY <1>4 DEF Held
<1>11. \A j \in Loops : \A q \in Held(j) :
         q \in Ptrs /\ Live(q) /\ store[q].fd \in Fds /\ (q # p => store[q].fd # f)
  <2> SUFFICES ASSUME NEW j \in Loops, NEW q \in Held(j)
               PROVE  q \in Ptrs /\ Live(q) /\ store[q].fd \in Fds /\ (q # p => store[q].fd # f)
    OBVIOUS
  <2>1. q \in Ptrs /\ Live(q)
    BY HeldTypes DEF Tracked, HeldInv
  <2>2. q # newStore /\ p # newStore
    BY <1>1, <1>3, <2>1, Constants
  <2> QED
    BY <1>1, <2>1, <2>2, LiveStore, OneStorePerFd DEF Base, f
<1>12. \A j \in Loops, g \in Fds : MayReturn(j, g)' => g # f
  <2> SUFFICES ASSUME NEW j \in Loops, NEW g \in Fds, MayReturn(j, g)', g = f PROVE FALSE
    OBVIOUS
  <2>1. /\ MayReturn(j, g) /\ j # i
        /\ Live(interest[j][g]) /\ store[interest[j][g]].fd = f /\ store[interest[j][g]].loop = j
    BY <1>8 DEF Tracked, InterestInv
  <2>2. interest[j][g] \in Ptrs /\ interest[j][g] # Nil
    BY <2>1, HeldTypes DEF MayReturn
  <2>3. interest[j][g] = p
    BY <1>1, <1>3, <2>1, <2>2, OneStorePerFd DEF f
  <2> QED
    BY <1>1, <2>1, <2>3
<1>13. InterestInv'
  BY <1>7, <1>8, <1>9, <1>12, HeldTypes DEF Tracked, InterestInv, MayReturn
<1>14. HeldInv'
  <2>1. \A q \in Held(i)' : q # p => file'[store'[q].fd] # Nil
    BY <1>3, <1>4, <1>7, <1>9, <1>10, <1>11 DEF Tracked, HeldInv
  <2>2. \A j \in Loops \ {i} : \A q \in Held(j)' : q # p /\ file'[store'[q].fd] # Nil
    BY <1>1, <1>3, <1>7, <1>9, <1>10, <1>11 DEF Tracked, HeldInv
  <2>3. \A g \in Fds : MayReturn(i, g)' => interest'[i][g] # p
    BY <1>8, <1>12 DEF Tracked, InterestInv, f
  <2>4. \A j \in Loops : pc'[j] = "erase" => j = i
    BY <1>3, <1>5
  <2>5. \A j \in Loops : \A q \in Held(j)' : Live(q)' /\ store'[q].loop = j
    BY <1>9, <1>10, <1>11 DEF Tracked, HeldInv
  <2>6. current'[i] = p
    BY <1>4 DEF p
  <2> QED
    BY <1>4, <1>5, <2>1, <2>2, <2>3, <2>4, <2>5, <2>6 DEF Tracked, HeldInv
<1>15. FreshInv'
  BY <1>3, <1>4 DEF FreshInv
<1> QED
  BY <1>13, <1>14, <1>15 DEF Tracked

(* The erasure frees the store the loop is done with, and no other loop or  *)
(* epoll knows it.                                                          *)
LEMMA EraseStep ==
  ASSUME Base, Tracked, main # "stopped", NEW i \in Loops, EraseSocket(i)
  PROVE  Tracked'
<1> DEFINE p == current[i]
<1>1. p \in Ptrs /\ p \in Held(i) /\ Live(p) /\ store[p].loop = i /\ p # Nil /\ pc[i] = "erase"
  BY HeldTypes DEF EraseSocket, Tracked, HeldInv, Base, ControlInv
<1>2. newStore = Nil /\ main # "clearClients" /\ \A j \in Loops : pc[j] = "erase" => j = i
  BY <1>1, Constants DEF Base, ControlInv
<1>3. /\ UNCHANGED <<file, interest, batch, m_continuePolling, main, newStore>>
      /\ current' = [current EXCEPT ![i] = Nil]
  BY DEF EraseSocket, netvars, descriptors, scheduler, application
<1>4. /\ pc'[i] # "erase"
      /\ pc'[i] = "poll" => m_continuePolling[i]
      /\ \A j \in Loops \ {i} : pc'[j] = pc[j]
  BY Constants DEF EraseSocket, AfterEvent, Base, TypeOK, ThreadTypeOK
<1>5. current'[i] = Nil /\ \A j \in Loops \ {i} : current'[j] = current[j]
  BY <1>3 DEF Base, TypeOK, ThreadTypeOK
<1>6. \A q \in Ptrs : q # p => store'[q] = store[q]
  <2>1. store[p].fd \in Fds /\ clientEventStores[store[p].fd] = p
    BY <1>1, <1>2, LiveStore, Constants DEF Base, Ownership, Owned
  <2>2. store' = [q \in Ptrs |-> IF q = clientEventStores[store[p].fd] THEN Nil ELSE store[q]]
    BY <1>1 DEF EraseSocket
  <2> QED
    BY <2>1, <2>2
<1> HIDE DEF p
<1>7. \A j \in Loops, g \in Fds : MayReturn(j, g)' =>
         MayReturn(j, g) /\ interest[j][g] # p /\ interest[j][g] \in Ptrs
  <2> SUFFICES ASSUME NEW j \in Loops, NEW g \in Fds, MayReturn(j, g)'
               PROVE  MayReturn(j, g) /\ interest[j][g] # p /\ interest[j][g] \in Ptrs
    OBVIOUS
  <2>1. MayReturn(j, g)
    BY <1>3, <1>4 DEF MayReturn
  <2>2. interest[j][g] \in Ptrs
    BY <2>1, HeldTypes DEF MayReturn
  <2>3. interest[j][g] # p
    BY <1>1, <2>1 DEF Tracked, InterestInv, HeldInv, p
  <2> QED
    BY <2>1, <2>2, <2>3
<1>8. \A j \in Loops : \A q \in Held(j)' : q \in Held(j) /\ q # p /\ q \in Ptrs
  <2> SUFFICES ASSUME NEW j \in Loops, NEW q \in Held(j)'
               PROVE  q \in Held(j) /\ q # p /\ q \in Ptrs
    OBVIOUS
  <2>1. CASE j # i
    <3>1. q \in Held(j)
      BY <1>3, <1>5, <2>1 DEF Held
    <3> QED
      BY <1>1, <2>1, <3>1, HeldTypes DEF Tracked, HeldInv
  <2>2. CASE j = i
    <3>1. PICK d \in batch[i] : q = d.ptr
      BY <1>3, <1>5, <2>2 DEF Held
    <3> QED
      BY <2>2, <3>1, HeldTypes DEF Tracked, HeldInv, p
  <2> QED
    BY <2>1, <2>2
<1>9. InterestInv'
  BY <1>3, <1>6, <1>7 DEF Tracked, InterestInv, Live
<1>10. HeldInv'
  <2>1. \A j \in Loops : pc'[j] # "erase" /\ (j # i => pc[j] # "erase")
    BY <1>2, <1>4
  <2>2. \A j \in Loops : \A q \in Held(j)' :
          Live(q)' /\ store'[q].loop = j /\ file'[store'[q].fd] # Nil
    BY <1>2, <1>3, <1>6, <1>8 DEF Tracked, HeldInv, Live, p
  <2>3. \A j \in Loops : \A d \in batch[j] : d.ptr # current'[j]
    BY <1>5, HeldTypes, Constants DEF Tracked, HeldInv
  <2> QED
    BY <1>3, <2>1, <2>2, <2>3 DEF Tracked, HeldInv
<1>11. FreshInv'
  BY <1>2, <1>3 DEF FreshInv
<1> QED
  BY <1>9, <1>10, <1>11 DEF Tracked

LEMMA TrackedStep ==
  ASSUME Base, Tracked, main # "stopped", main' # "stopped", [Next]_vars
  PROVE  Tracked'
<1> USE Constants
<1>1. CASE Clientele \/ Terminate \/ UNCHANGED vars
  BY <1>1, QuietStep DEF Clientele, Client, Connect, Send, PeerClose, Terminate, vars, netvars,
     servervars,
     descriptors, owners, polling, scheduler, application
<1>2. CASE StartReceivingConnection
  <2>1. \A i \in Loops : m_continuePolling[i] /\ pc[i] # "erase"
    BY <1>2 DEF StartReceivingConnection, Base, ControlInv
  <2>2. \A i \in Loops : pc'[i] = "poll"
    BY <1>2 DEF StartReceivingConnection
  <2> QED
    BY <1>2, <2>1, <2>2, QuietStep DEF StartReceivingConnection, netvars, descriptors, polling
<1>3. CASE CreateServerSocketAndStartReceiving \/ SetEventReceiver \/ CloseServerSocket
  <2>1. \A i \in Loops : pc'[i] = pc[i]
    BY <1>3 DEF CreateServerSocketAndStartReceiving, SetEventReceiver, CloseServerSocket, Base,
                TypeOK, ThreadTypeOK
  <2> QED
    BY <1>3, <2>1, QuietStep DEF CreateServerSocketAndStartReceiving, SetEventReceiver,
       CloseServerSocket, netvars, descriptors, polling, scheduler
<1>4. ASSUME NEW t \in Threads, StopEventThread(t) PROVE Tracked'
  BY <1>4, QuietStep DEF StopEventThread, netvars, descriptors, polling
<1>5. ASSUME NEW t \in Threads, ExitPolling(t) PROVE Tracked'
  BY <1>5, QuietStep DEF ExitPolling, netvars, descriptors, polling, scheduler, application
<1>6. CASE AcceptorEvent \/ AcceptError
  <2>1. \A i \in Loops : pc'[i] = pc[i]
    <3>1. \E s : pc' = [pc EXCEPT ![Acceptor] = s]
      BY <1>6 DEF AcceptorEvent, AcceptError
    <3> QED
      BY <3>1 DEF Base, TypeOK, ThreadTypeOK
  <2> QED
    BY <1>6, <2>1, QuietStep DEF AcceptorEvent, AcceptError, netvars, descriptors, polling,
       scheduler,
       application
<1>7. ASSUME NEW w \in Workers, WorkerThread(w) PROVE Tracked'
  BY <1>1, <1>7, QuietStep, Zenon DEF WorkerThread, TakeTask, HandleCallBackEvent, Return,
     GetAvailable,
     ReceiveFault, Read, netvars, descriptors, polling, scheduler, application
<1>8. CASE CloseClients
  BY <1>8, ClosingStep
<1>9. ASSUME NEW f \in Fds, NEW p \in Ptrs, Accept(f, p) PROVE Tracked'
  BY <1>9, AcceptStep
<1>10. CASE InitConnection
  BY <1>10, InitStep
<1>11. CASE AddSocket
  BY <1>11, AddStep
<1>12. CASE InsertAndPost
  BY <1>12, InsertStep
<1>13. ASSUME NEW i \in Loops, EpollWait(i) PROVE Tracked'
  BY <1>13, WaitStep
<1>14. ASSUME NEW i \in Loops, NEW e \in batch[i], HandleEvent(i, e) PROVE Tracked'
  BY <1>14, HandleStep
<1>15. ASSUME NEW i \in Loops, Dispatch(i) PROVE Tracked'
  BY <1>15, DispatchStep
<1>16a. ASSUME NEW i \in Loops, NEW e \in batch[i], MarkClosed(i, e) PROVE Tracked'
  BY <1>16a, MarkStep
<1>16. ASSUME NEW i \in Loops, RemoveSocket(i) PROVE Tracked'
  BY <1>16, RemoveStep
<1>17. ASSUME NEW i \in Loops, EraseSocket(i) PROVE Tracked'
  BY <1>17, EraseStep
<1>18. CASE ClearClients
  BY <1>18 DEF ClearClients
<1> QED
  BY <1>1, <1>2, <1>3, <1>4, <1>5, <1>6, <1>7, <1>8, <1>9, <1>10, <1>11, <1>12, <1>13, <1>14, <1>15,
     <1>16, <1>16a, <1>17, <1>18
     DEF Next, MainThread, StopPolling, AcceptorThread, HandleNewConnection, EventLoop,
         CreateServerSocketError, LoopFault

LEMMA TrackedInit == Init => Tracked
<1> SUFFICES ASSUME Init PROVE Tracked
  OBVIOUS
<1>1. InterestInv
  BY DEF Init, NetInit, InterestInv, MayReturn
<1>2. HeldInv
  <2>1. \A i \in Loops : Held(i) = {} /\ batch[i] = {} /\ pc[i] = "off"
    BY Constants DEF Init, Held
  <2> QED
    BY <2>1 DEF HeldInv
<1>3. FreshInv
  <2>1. newStore = Nil
    BY DEF Init
  <2> QED
    BY <2>1 DEF FreshInv
<1> QED
  BY <1>1, <1>2, <1>3 DEF Tracked

(* Nothing follows stopPolling.                                             *)
LEMMA Stopped == [Next]_vars /\ main = "stopped" => main' = "stopped"
<1> SUFFICES ASSUME [Next]_vars, main = "stopped" PROVE main' = "stopped"
  OBVIOUS
<1>1. CASE Clientele \/ Terminate \/ UNCHANGED vars
  BY <1>1 DEF Clientele, Terminate, vars, servervars, application
<1>2. CASE MainThread
  BY <1>2 DEF MainThread, StartReceivingConnection, CreateServerSocketAndStartReceiving,
     CreateServerSocketError, SetEventReceiver, StopPolling, CloseServerSocket, StopEventThread,
     CloseClients, ClearClients
<1>3. CASE AcceptorThread
  BY <1>3, Zenon DEF AcceptorThread, AcceptorEvent, HandleNewConnection, Accept, AcceptError,
     InitConnection, AddSocket, InsertAndPost, ExitPolling, application
<1>4. ASSUME NEW i \in Loops, EventLoop(i) PROVE main' = "stopped"
  BY <1>1, <1>4, Zenon DEF EventLoop, EpollWait, HandleEvent, Dispatch, MarkClosed, RemoveSocket,
     EraseSocket, LoopFault, ExitPolling, application
<1>5. ASSUME NEW w \in Workers, WorkerThread(w) PROVE main' = "stopped"
  BY <1>1, <1>5, Zenon DEF WorkerThread, TakeTask, HandleCallBackEvent, Return, GetAvailable,
     ReceiveFault, Read, application
<1> QED
  BY <1>1, <1>2, <1>3, <1>4, <1>5 DEF Next

LEMMA TrackedAlways == Spec => []IInv
<1>1. Init => IInv
  BY BaseInit, TrackedInit DEF IInv
<1>2. IInv /\ Base' /\ [Next]_vars => IInv'
  BY TrackedStep, Stopped DEF IInv
<1> QED
  BY <1>1, <1>2, BaseAlways, PTL DEF Spec

(* No event loop ever holds a store that has been freed, as long as         *)
(* stopPolling has not freed them all.                                      *)
THEOREM NothingDangles == Spec => []EventsNeverDangle
<1>1. IInv => EventsNeverDangle
  BY HeldTypes DEF IInv, Tracked, HeldInv, EventsNeverDangle
<1> QED
  BY <1>1, TrackedAlways, PTL
===============================================================================
