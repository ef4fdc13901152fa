----------------------- MODULE TcpServerSocketTaskProofs -----------------------
(* Theorems about what the tasks of TcpServerSocket stand for, on top of    *)
(* those about its heap and its event loops in TcpServerSocketProofs: the   *)
(* descriptor numbers, the tasks posted for each connection, the callbacks  *)
(* made for it, and what stopPolling leaves behind.                         *)
EXTENDS TcpServerSocketProofs

(* A connection nothing was made of yet.                                    *)
Untouched(c) ==
  /\ posted[c] = {}
  /\ ~Open(c)
  /\ \A p \in Ptrs : Live(p) => store[p].conn # c

(* A connection is accepted once: it has one store and one number.          *)
OnceInv ==
  /\ \A p, q \in Ptrs : Live(p) /\ Live(q) /\ store[p].conn = store[q].conn => p = q
  /\ \A f, g \in Fds : file[f] # Nil /\ file[f] = file[g] => f = g
  /\ \A p \in Ptrs, f \in Fds : Live(p) /\ file[f] = store[p].conn => f = store[p].fd
  /\ \A k, l \in 1..Len(backlog) : backlog[k] = backlog[l] => k = l
  /\ \A k \in 1..Len(backlog), c \in Clients :
       backlog[k] = c => Untouched(c) /\ peer[c] # "away"
  /\ \A c \in Clients : peer[c] = "away" => Untouched(c)

(* The addresses loop i knows of or may still be given.                     *)
Known(i) == Held(i) \cup {interest[i][f] : f \in {g \in Fds : MayReturn(i, g)}}

(* stopPolling ends the loops first; no store is watched after it.          *)
StopInv ==
  /\ main \in {"stopLoops", "closeClients", "clearClients", "stopped"} =>
       ~m_continuePolling[Acceptor]
  /\ main \in {"closeClients", "clearClients", "stopped"} =>
       \A i \in Loops : ~m_continuePolling[i]
  /\ main = "stopped" => \A p \in Ptrs : Live(p) => store[p].loop = Nil
  /\ \A i, j \in Loops : i # j => Known(i) \cap Known(j) = {}

(* The store a loop removes stays marked until it is erased.                *)
Erased(p) == main # "stopped" /\ \E i \in Loops : pc[i] = "erase" /\ current[i] = p

MarkedInv ==
  main # "stopped" =>
    \A i \in Loops : pc[i] \in {"remove", "erase"} => store[current[i]].type = "Closed"

(* The number in a store that can be closed is that of its connection until *)
(* removeSocket or closeAllClientSocket closes it; no later store can have  *)
(* been given the number before.                                            *)
NumberInv ==
  /\ \A p \in Ptrs :
       Live(p) /\ Closable(p) =>
         \/ file[store[p].fd] = store[p].conn
         \/ file[store[p].fd] = Nil /\ (main = "clearClients" \/ Erased(p))
  /\ newStore # Nil =>
       /\ file[store[newStore].fd] \in {Nil, store[newStore].conn}
       /\ \A p \in Ptrs : Live(p) /\ Closable(p) /\ p # newStore => store[p].fd # store[newStore].fd
  /\ pc[Acceptor] = "init" =>
       file[store[newStore].fd] = store[newStore].conn /\ ~store[newStore].ssl

(* Under TCP every open descriptor has a store that will close it; after a  *)
(* stop that closed the listener no connection is accepted.                 *)
LeakInv ==
  /\ ~Tls /\ main # "stopped" =>
       /\ \A f \in Fds : file[f] # Nil => \E p \in Ptrs : Live(p) /\ store[p].fd = f
       /\ \A i \in Loops : pc[i] = "erase" => file[store[current[i]].fd] = Nil
       /\ main = "clearClients" => \A f \in Fds : file[f] = Nil
  /\ listener = "closed" => ~Tls /\ backlog = <<>>
  /\ StopIsComplete

(* A store in the map was announced; one whose closing was posted is on its *)
(* way out of the map, in the loop that posted it.                          *)
PostInv ==
  /\ \A p \in Ptrs : Live(p) /\ p # newStore => "New" \in posted[store[p].conn]
  /\ \A p \in Ptrs :
       Live(p) /\ "Closed" \in posted[store[p].conn] =>
         \E i \in Loops : pc[i] = "erase" /\ current[i] = p
  /\ main # "stopped" =>
       \A i \in Loops : pc[i] = "erase" => "Closed" \in posted[store[current[i]].conn]

TaskInv ==
  /\ OpenConnectionTaskIsLive
  /\ main # "stopped" => \A t \in Pending : t.conn # Nil /\ posted[t.conn] # {}

(* What is registered, marked, or posted as closed, was closed by its peer; *)
(* under TCP a connection is closed in no other way.                        *)
ClosedInv ==
  /\ main # "stopped" =>
       /\ \A i \in Loops, f \in Fds :
            MayReturn(i, f) => file[f] = store[interest[i][f]].conn
       /\ \A i \in Loops : \A e \in batch[i] : e.hup => peer[store[e.ptr].conn] = "closed"
       /\ \A p \in Ptrs : Live(p) /\ store[p].type = "Closed" => peer[store[p].conn] = "closed"
       /\ \A c \in Clients : "Closed" \in posted[c] => peer[c] = "closed"
  /\ ~Tls /\ main \notin {"clearClients", "stopped"} =>
       \A c \in Clients : posted[c] # {} /\ ~Open(c) => "Closed" \in posted[c]
  /\ ClosedCallbackIsTrue

TInv == OnceInv /\ StopInv /\ MarkedInv /\ NumberInv /\ LeakInv /\ PostInv /\ TaskInv /\ ClosedInv

-------------------------------------------------------------------------------
(* What a step may do to one store: the fields of a store in the heap, by   *)
(* the action that writes them.                                             *)
LEMMA OneField ==
  ASSUME NEW r \in Stores
  PROVE  /\ \A k \in Kinds : LET s == [r EXCEPT !.type = k]
                             IN  /\ s # Nil /\ s.conn = r.conn /\ s.fd = r.fd /\ s.loop = r.loop
                                 /\ s.ssl = r.ssl /\ s.type = k
         /\ \A b \in BOOLEAN : LET s == [r EXCEPT !.ssl = b]
                               IN  /\ s # Nil /\ s.conn = r.conn /\ s.fd = r.fd /\ s.loop = r.loop
                                   /\ s.ssl = b /\ s.type = r.type
         /\ \A i \in Loops : LET s == [r EXCEPT !.loop = i]
                             IN  /\ s # Nil /\ s.conn = r.conn /\ s.fd = r.fd /\ s.loop = i
                                 /\ s.ssl = r.ssl /\ s.type = r.type
BY StoreUpdate, Constants DEF Stores

SameStore(p) ==
  /\ Live(p) /\ store'[p].conn = store[p].conn /\ store'[p].fd = store[p].fd
  /\ store'[p].loop = store[p].loop \/ (AddSocket /\ p = newStore)
  /\ \/ store'[p].type = store[p].type
     \/ store'[p].type = "Data" /\ \E i \in Loops : Dispatch(i) /\ p = current[i]
     \/ /\ store'[p].type = "Closed"
        /\ \E i \in Loops : \E e \in batch[i] : MarkClosed(i, e) /\ p = e.ptr
  /\ store'[p].ssl => store[p].ssl \/ (InitConnection /\ Tls /\ p = newStore)

LEMMA StoreStep ==
  ASSUME Base, [Next]_vars, NEW p \in Ptrs, Live(p)'
  PROVE  SameStore(p) \/ \E f \in Fds : Accept(f, p)
<1> USE DEF Live
<1>1. store \in [Ptrs -> Stores \cup {Nil}]
  BY DEF Base, TypeOK, HeapTypeOK
<1>2. ASSUME store'[p] = store[p] PROVE SameStore(p)
  BY <1>2 DEF SameStore
<1>3. CASE UNCHANGED heap
  BY <1>2, <1>3 DEF heap
<1>4. ASSUME store[p] # Nil, NEW b \in BOOLEAN, store'[p] = [store[p] EXCEPT !.ssl = b],
             b => InitConnection /\ Tls /\ p = newStore
      PROVE  SameStore(p)
  BY <1>1, <1>4, OneField DEF SameStore
<1>5. CASE CloseClients
  <2>1. store'[p] = store[p] \/ (p \in Owned /\ store'[p] = [store[p] EXCEPT !.ssl = FALSE])
    BY <1>5 DEF CloseClients
  <2>2. p \in Owned => store[p] # Nil
    BY DEF Owned, Base, Ownership
  <2> QED
    BY <1>2, <1>4, <2>1, <2>2
<1>6. ASSUME store'[p] \in {store[p], Nil} PROVE SameStore(p)
  BY <1>2, <1>6
<1>7. CASE ClearClients
  BY <1>6, <1>7 DEF ClearClients
<1>8. ASSUME NEW f \in Fds, NEW q \in Ptrs, Accept(f, q) PROVE SameStore(p) \/ Accept(f, p)
  <2>1. p # q => store'[p] = store[p]
    BY <1>8 DEF Accept
  <2> QED
    BY <1>2, <1>8, <2>1
<1>9. CASE InitConnection
  <2>1. newStore \in Ptrs /\ store[newStore] # Nil
    BY <1>9, AcceptorStore DEF InitConnection
  <2>2. \/ store'[p] = store[p]
        \/ p = newStore /\ Tls /\ store'[p] = [store[p] EXCEPT !.ssl = TRUE]
    BY <1>1, <1>9, <2>1 DEF InitConnection
  <2> QED
    BY <1>2, <1>4, <1>9, <2>1, <2>2
<1>10. CASE AddSocket
  <2>1. newStore \in Ptrs /\ store[newStore] # Nil
    BY <1>10, AcceptorStore DEF AddSocket
  <2>2. NextIndex \in Loops
    BY Index DEF Base, TypeOK, ThreadTypeOK
  <2>3. \/ store'[p] = store[p]
        \/ p = newStore /\ store'[p] = [store[p] EXCEPT !.loop = NextIndex]
    BY <1>1, <1>10, <2>1 DEF AddSocket
  <2>4. ASSUME p = newStore, store'[p] = [store[p] EXCEPT !.loop = NextIndex] PROVE SameStore(p)
    <3>1. store[p] \in Stores
      BY <1>1, <2>1, <2>4
    <3>2. /\ store'[p].conn = store[p].conn /\ store'[p].fd = store[p].fd
          /\ store'[p].type = store[p].type /\ store'[p].ssl = store[p].ssl
      BY <2>2, <2>4, <3>1, OneField
    <3> QED
      BY <1>10, <2>1, <2>4, <3>2 DEF SameStore
  <2> QED
    BY <1>2, <2>3, <2>4
<1>11. CASE InsertAndPost
  BY <1>6, <1>11 DEF InsertAndPost
<1>12. ASSUME NEW i \in Loops, Dispatch(i) PROVE SameStore(p)
  <2>1. \/ store'[p] = store[p]
        \/ p = current[i] /\ store[p] # Nil /\ store'[p] = [store[p] EXCEPT !.type = "Data"]
    BY <1>12 DEF Dispatch
  <2>2. ASSUME p = current[i], store[p] # Nil, store'[p] = [store[p] EXCEPT !.type = "Data"]
        PROVE  SameStore(p)
    <3>1. store[p] \in Stores /\ "Data" \in Kinds
      BY <1>1, <2>2 DEF Kinds
    <3>2. /\ store'[p].conn = store[p].conn /\ store'[p].fd = store[p].fd
          /\ store'[p].loop = store[p].loop /\ store'[p].ssl = store[p].ssl
          /\ store'[p].type = "Data"
      BY <2>2, <3>1, OneField
    <3> QED
      BY <1>12, <2>2, <3>2 DEF SameStore
  <2> QED
    BY <1>2, <2>1, <2>2
<1>13. ASSUME NEW i \in Loops, NEW e \in batch[i], MarkClosed(i, e) PROVE SameStore(p)
  <2>1. \/ store'[p] = store[p]
        \/ p = e.ptr /\ store[p] # Nil /\ store'[p] = [store[p] EXCEPT !.type = "Closed"]
    BY <1>13 DEF MarkClosed
  <2>2. ASSUME p = e.ptr, store[p] # Nil, store'[p] = [store[p] EXCEPT !.type = "Closed"]
        PROVE  SameStore(p)
    <3>1. store[p] \in Stores /\ "Closed" \in Kinds
      BY <1>1, <2>2 DEF Kinds
    <3>2. /\ store'[p].conn = store[p].conn /\ store'[p].fd = store[p].fd
          /\ store'[p].loop = store[p].loop /\ store'[p].ssl = store[p].ssl
          /\ store'[p].type = "Closed"
      BY <2>2, <3>1, OneField
    <3> QED
      BY <1>13, <2>2, <3>2 DEF SameStore
  <2> QED
    BY <1>2, <2>1, <2>2
<1>14. ASSUME NEW i \in Loops, RemoveSocket(i) PROVE SameStore(p)
  <2>1. store'[p] = store[p] \/ (store[p] # Nil /\ store'[p] = [store[p] EXCEPT !.ssl = FALSE])
    BY <1>1, <1>14 DEF RemoveSocket
  <2> QED
    BY <1>2, <1>4, <2>1
<1>15. ASSUME NEW i \in Loops, EraseSocket(i) PROVE SameStore(p)
  BY <1>6, <1>15 DEF EraseSocket
<1>16. ASSUME NEW w \in Workers, TakeTask(w) PROVE SameStore(p)
  BY <1>2, <1>16 DEF TakeTask
<1> QED
  BY <1>3, <1>5, <1>7, <1>8, <1>9, <1>10, <1>11, <1>12, <1>13, <1>14, <1>15, <1>16, HeapWriters

(* The closing of a descriptor number, and its only other fate.             *)
Closing(f) ==
  \/ CloseClients
  \/ InitConnection /\ Tls /\ f = store[newStore].fd
  \/ \E i \in Loops : /\ RemoveSocket(i)
                      /\ Live(current[i]) /\ store[current[i]].loop # Nil
                      /\ Closable(current[i]) /\ f = store[current[i]].fd

LEMMA FileStep ==
  ASSUME Base, [Next]_vars, NEW f \in Fds
  PROVE  \/ file'[f] = file[f]
         \/ file'[f] = Nil /\ Closing(f)
         \/ \E p \in Ptrs : Accept(f, p)
<1> USE DEF descriptors
<1>1. CASE UNCHANGED file
  BY <1>1
<1>2. ASSUME NEW c \in Clients, Client(c), UNCHANGED servervars PROVE UNCHANGED file
  BY <1>2 DEF Client, Connect, Send, PeerClose
<1>3. CASE CreateServerSocketAndStartReceiving \/ CloseServerSocket \/ AcceptorEvent \/ AddSocket
  BY <1>3 DEF CreateServerSocketAndStartReceiving, CloseServerSocket, AcceptorEvent, AddSocket
<1>4. CASE CloseClients
  BY <1>4 DEF CloseClients, CloseFds, Closing
<1>5. ASSUME NEW g \in Fds, NEW p \in Ptrs, Accept(g, p) PROVE file'[f] = file[f] \/ Accept(f, p)
  BY <1>5 DEF Accept, Base, TypeOK, NetTypeOK
<1>6. CASE InitConnection
  BY <1>6 DEF InitConnection, CloseFds, Closing
<1>7. ASSUME NEW i \in Loops, EpollWait(i) PROVE UNCHANGED file
  BY <1>7 DEF EpollWait
<1>8. ASSUME NEW i \in Loops, RemoveSocket(i)
      PROVE  file'[f] = file[f] \/ (file'[f] = Nil /\ Closing(f))
  <2> DEFINE p == current[i]
  <2>1. CASE Live(p) /\ store[p].loop # Nil /\ Closable(p)
    <3>1. CloseFds({store[p].fd})
      BY <1>8, <2>1 DEF RemoveSocket
    <3>2. file'[f] = IF f = store[p].fd THEN Nil ELSE file[f]
      BY <3>1 DEF CloseFds
    <3> QED
      BY <1>8, <2>1, <3>2 DEF Closing
  <2>2. CASE ~(Live(p) /\ store[p].loop # Nil /\ Closable(p))
    <3>1. UNCHANGED file
      BY <1>8, <2>2, ZenonT(40) DEF RemoveSocket
    <3> QED
      BY <3>1
  <2> QED
    BY <2>1, <2>2
<1>9. ASSUME NEW w \in Workers, Read(w) PROVE UNCHANGED file
  BY <1>9 DEF Read
<1> QED
  BY <1>1, <1>2, <1>3, <1>4, <1>5, <1>6, <1>7, <1>8, <1>9, NetWriters DEF netvars

(* The tasks posted in a step.                                              *)
Posting(p, kind) ==
  /\ Post(p, kind)
  /\ \/ InsertAndPost /\ p = newStore /\ kind = "New"
     \/ \E i \in Loops : \/ Dispatch(i) /\ p = current[i] /\ kind = "Data"
                         \/ RemoveSocket(i) /\ p = current[i] /\ kind = "Closed"

LEMMA PostStep ==
  ASSUME Base, [Next]_vars
  PROVE  \/ UNCHANGED <<tasks, posted>>
         \/ \E w \in Workers : TakeTask(w) /\ UNCHANGED posted
         \/ \E p \in Ptrs, kind \in Kinds : Posting(p, kind)
<1> USE DEF pool
<1>1. CASE UNCHANGED heap
  BY <1>1 DEF heap
<1>2. CASE CloseClients \/ ClearClients \/ InitConnection \/ AddSocket
  BY <1>2 DEF CloseClients, ClearClients, InitConnection, AddSocket
<1>3. ASSUME NEW f \in Fds, NEW p \in Ptrs, Accept(f, p) PROVE UNCHANGED <<tasks, posted>>
  BY <1>3 DEF Accept
<1>4. CASE InsertAndPost
  <2>1. newStore \in Ptrs
    BY <1>4, AcceptorStore DEF InsertAndPost
  <2> QED
    BY <1>4, <2>1 DEF InsertAndPost, Posting, Kinds
<1>5. ASSUME NEW i \in Loops, Dispatch(i) PROVE Posting(current[i], "Data") /\ current[i] \in Ptrs
  BY <1>5, Zenon DEF Dispatch, Posting, Base, ControlInv, TypeOK, ThreadTypeOK
<1>6. ASSUME NEW i \in Loops, RemoveSocket(i)
      PROVE  Posting(current[i], "Closed") /\ current[i] \in Ptrs
  <2>1. current[i] \in Ptrs
    BY <1>6 DEF RemoveSocket, Base, ControlInv, TypeOK, ThreadTypeOK
  <2>2. Post(current[i], "Closed")
    BY <1>6, Zenon DEF RemoveSocket
  <2> QED
    BY <1>6, <2>1, <2>2 DEF Posting
<1>7. ASSUME NEW i \in Loops, EraseSocket(i) \/ \E e \in batch[i] : MarkClosed(i, e)
      PROVE UNCHANGED <<tasks, posted>>
  BY <1>7 DEF EraseSocket, MarkClosed
<1>8. ASSUME NEW w \in Workers, TakeTask(w) PROVE UNCHANGED posted
  BY <1>8 DEF TakeTask
<1> QED
  BY <1>1, <1>2, <1>3, <1>4, <1>5, <1>6, <1>7, <1>8, HeapWriters DEF Kinds

(* Connections come into the backlog and leave it; peers come and leave.    *)
LEMMA BacklogStep ==
  ASSUME [Next]_vars
  PROVE  \/ backlog' = backlog \/ backlog' = <<>>
         \/ \E c \in Clients : Connect(c) /\ UNCHANGED servervars
         \/ \E f \in Fds, p \in Ptrs : Accept(f, p)
<1> USE DEF listening
<1>1. CASE UNCHANGED backlog
  BY <1>1
<1>2. ASSUME NEW c \in Clients, Client(c), UNCHANGED servervars
      PROVE  UNCHANGED backlog \/ Connect(c)
  BY <1>2 DEF Client, Send, PeerClose
<1>3. CASE CreateServerSocketAndStartReceiving \/ CloseClients \/ AcceptorEvent \/ InitConnection
            \/ AddSocket
  BY <1>3 DEF CreateServerSocketAndStartReceiving, CloseClients, AcceptorEvent, InitConnection,
     AddSocket
<1>4. CASE CloseServerSocket
  BY <1>4 DEF CloseServerSocket
<1>5. ASSUME NEW i \in Loops, EpollWait(i) \/ RemoveSocket(i) PROVE UNCHANGED backlog
  BY <1>5, SMTT(20) DEF EpollWait, RemoveSocket
<1>6. ASSUME NEW w \in Workers, Read(w) PROVE UNCHANGED backlog
  BY <1>6 DEF Read
<1> QED
  BY <1>1, <1>2, <1>3, <1>4, <1>5, <1>6, NetWriters DEF netvars

LEMMA PeerStep ==
  ASSUME Base, [Next]_vars, NEW c \in Clients
  PROVE  \/ peer'[c] = peer[c]
         \/ peer[c] = "connected" /\ peer'[c] = "closed"
         \/ Connect(c) /\ UNCHANGED servervars
<1> USE DEF endpoints
<1>1. CASE UNCHANGED peer
  BY <1>1
<1>2. ASSUME NEW d \in Clients, Client(d), UNCHANGED servervars
      PROVE  \/ peer'[c] = peer[c]
             \/ peer[c] = "connected" /\ peer'[c] = "closed"
             \/ Connect(c) /\ UNCHANGED servervars
  <2>1. peer \in [Clients -> {"away", "connected", "closed"}]
    BY DEF Base, TypeOK, NetTypeOK
  <2> QED
    BY <1>2, <2>1 DEF Client, Connect, Send, PeerClose
<1>3. CASE CreateServerSocketAndStartReceiving \/ CloseServerSocket \/ CloseClients \/ AcceptorEvent
            \/ InitConnection \/ AddSocket
  BY <1>3 DEF CreateServerSocketAndStartReceiving, CloseServerSocket, CloseClients, AcceptorEvent,
              InitConnection, AddSocket
<1>4. ASSUME NEW f \in Fds, NEW p \in Ptrs, Accept(f, p) PROVE UNCHANGED peer
  BY <1>4 DEF Accept
<1>5. ASSUME NEW i \in Loops, EpollWait(i) \/ RemoveSocket(i) PROVE UNCHANGED peer
  BY <1>5, SMTT(20) DEF EpollWait, RemoveSocket
<1>6. ASSUME NEW w \in Workers, Read(w) PROVE UNCHANGED peer
  BY <1>6 DEF Read
<1> QED
  BY <1>1, <1>2, <1>3, <1>4, <1>5, <1>6, NetWriters DEF netvars

-------------------------------------------------------------------------------
LEMMA BaseTypes ==
  ASSUME Base
  PROVE  /\ backlog \in Seq(Clients) /\ file \in [Fds -> Clients \cup {Nil}]
         /\ peer \in [Clients -> {"away", "connected", "closed"}]
         /\ posted \in [Clients -> SUBSET Kinds] /\ tasks \in Seq(Tasks)
         /\ store \in [Ptrs -> Stores \cup {Nil}]
         /\ \A p \in Ptrs : Live(p) => store[p].conn \in Clients /\ store[p].fd \in Fds
BY LiveStore DEF Base, TypeOK, NetTypeOK, HeapTypeOK

(* What accept() does, pointwise.                                           *)
LEMMA AcceptEffect ==
  ASSUME Base, NEW f \in Fds, NEW p \in Ptrs, Accept(f, p)
  PROVE  /\ newStore = Nil /\ clientEventStoresMutex = Nil /\ ~Live(p) /\ file[f] = Nil
         /\ Len(backlog) > 0 /\ backlog[1] \in Clients
         /\ Live(p)' /\ newStore' = p
         /\ store'[p].conn = backlog[1] /\ store'[p].fd = f /\ store'[p].type = "New"
         /\ store'[p].loop = Nil /\ ~store'[p].ssl
         /\ \A q \in Ptrs \ {p} : store'[q] = store[q]
         /\ file'[f] = backlog[1] /\ \A g \in Fds \ {f} : file'[g] = file[g]
         /\ Len(backlog') = Len(backlog) - 1
         /\ \A k \in 1..Len(backlog') : backlog'[k] = backlog[k + 1] /\ k + 1 \in 1..Len(backlog)
<1>1. /\ newStore = Nil /\ clientEventStoresMutex = Nil /\ ~Live(p) /\ file[f] = Nil
      /\ backlog # <<>> /\ backlog' = Tail(backlog)
      /\ file' = [file EXCEPT ![f] = Head(backlog)]
      /\ store' = [store EXCEPT ![p] = [conn |-> Head(backlog), fd |-> f, type |-> "New",
                                        loop |-> Nil, ssl |-> FALSE]]
      /\ newStore' = p
  BY DEF Accept, LockStores, Base, ControlInv
<1>2. /\ Len(backlog) > 0 /\ backlog[1] \in Clients /\ Head(backlog) = backlog[1]
      /\ Len(backlog') = Len(backlog) - 1
      /\ \A k \in 1..Len(backlog') : backlog'[k] = backlog[k + 1] /\ k + 1 \in 1..Len(backlog)
  BY <1>1, BaseTypes
<1>3. [conn |-> Head(backlog), fd |-> f, type |-> "New", loop |-> Nil, ssl |-> FALSE] # Nil
  <2>1. [conn |-> Head(backlog), fd |-> f, type |-> "New", loop |-> Nil, ssl |-> FALSE] \in Stores
    BY <1>2 DEF Stores, Kinds
  <2> QED
    BY <2>1, Constants
<1> QED
  BY <1>1, <1>2, <1>3, BaseTypes DEF Live

(* A step that neither connects nor accepts takes away only.                *)
LEMMA OldConnections ==
  ASSUME Base, [Next]_vars,
         ~\E c \in Clients : Connect(c) /\ UNCHANGED servervars,
         ~\E f \in Fds, p \in Ptrs : Accept(f, p)
  PROVE  /\ \A p \in Ptrs : Live(p)' => /\ Live(p) /\ store'[p].conn = store[p].conn
                                        /\ store'[p].fd = store[p].fd
         /\ \A f \in Fds : file'[f] \in {file[f], Nil}
         /\ backlog' \in {backlog, <<>>}
         /\ \A c \in Clients : /\ peer'[c] = "away" <=> peer[c] = "away"
                               /\ Untouched(c) => Untouched(c)'
<1>1. \A p \in Ptrs : Live(p)' => /\ Live(p) /\ store'[p].conn = store[p].conn
                                  /\ store'[p].fd = store[p].fd
  BY StoreStep DEF SameStore
<1>2. \A f \in Fds : file'[f] \in {file[f], Nil}
  BY FileStep
<1>3. backlog' \in {backlog, <<>>}
  BY BacklogStep
<1>4. \A c \in Clients : peer'[c] = "away" <=> peer[c] = "away"
  BY PeerStep
<1>5. ASSUME NEW c \in Clients, Untouched(c) PROVE Untouched(c)'
  <2>1. posted'[c] = {}
    <3>1. ASSUME NEW p \in Ptrs, NEW kind \in Kinds, Posting(p, kind) PROVE posted'[c] = {}
      <4>1. Conn(p) # c
        BY <1>5, Constants DEF Untouched, Conn
      <4> QED
        BY <1>5, <3>1, <4>1 DEF Untouched, Posting, Post
    <3> QED
      BY <1>5, <3>1, PostStep DEF Untouched
  <2>2. ~Open(c)'
    BY <1>2, <1>5, Constants DEF Untouched, Open
  <2> QED
    BY <1>1, <1>5, <2>1, <2>2 DEF Untouched
<1> QED
  BY <1>1, <1>2, <1>3, <1>4, <1>5

LEMMA OnceStep ==
  ASSUME Base, OnceInv, [Next]_vars
  PROVE  OnceInv'
<1> USE BaseTypes, Constants
<1>1. ASSUME NEW c \in Clients, Connect(c), UNCHANGED servervars PROVE OnceInv'
  <2>1. /\ UNCHANGED <<store, posted, file>> /\ peer[c] = "away"
        /\ backlog' = Append(backlog, c) /\ peer' = [peer EXCEPT ![c] = "connected"]
    BY <1>1 DEF Connect, servervars, pool, descriptors
  <2>2. \A d \in Clients : Untouched(d)' <=> Untouched(d)
    BY <2>1 DEF Untouched, Open, Live
  <2>3. /\ Len(backlog') = Len(backlog) + 1 /\ backlog'[Len(backlog')] = c
        /\ \A k \in 1..Len(backlog) : backlog'[k] = backlog[k] /\ backlog[k] \in Clients
    BY <2>1
  <2>4. \A k \in 1..Len(backlog) : backlog[k] # c
    BY <2>1 DEF OnceInv
  <2>5. \A k \in 1..Len(backlog') : k \in 1..Len(backlog) \/ k = Len(backlog')
    BY <2>3
  <2>6. \A k, l \in 1..Len(backlog') : backlog'[k] = backlog'[l] => k = l
    BY <2>3, <2>4, <2>5 DEF OnceInv
  <2>7. Untouched(c)' /\ peer'[c] = "connected" /\ \A d \in Clients \ {c} : peer'[d] = peer[d]
    BY <2>1, <2>2 DEF OnceInv
  <2>8. \A k \in 1..Len(backlog'), d \in Clients :
          backlog'[k] = d => Untouched(d)' /\ peer'[d] # "away"
    BY <2>2, <2>3, <2>4, <2>5, <2>7 DEF OnceInv
  <2>9. \A d \in Clients : peer'[d] = "away" => Untouched(d)'
    BY <2>2, <2>7 DEF OnceInv
  <2> QED
    BY <2>1, <2>6, <2>8, <2>9 DEF OnceInv, Live
<1>2. ASSUME NEW f \in Fds, NEW p \in Ptrs, Accept(f, p) PROVE OnceInv'
  <2> DEFINE c == backlog[1]
  <2>1. UNCHANGED <<peer, posted>>
    BY <1>2 DEF Accept, endpoints, pool
  <2>2. c \in Clients /\ 1 \in 1..Len(backlog) /\ Untouched(c) /\ peer[c] # "away"
    <3>1. c \in Clients /\ 1 \in 1..Len(backlog)
      BY <1>2, AcceptEffect, BaseTypes
    <3> QED
      BY <3>1, Zenon DEF OnceInv
  <2>3. \A q \in Ptrs \ {p} : /\ Live(q)' <=> Live(q)
                              /\ Live(q) => store'[q].conn = store[q].conn /\ store'[q].fd = store[q].fd
                                            /\ store[q].conn # c
    BY <1>2, <2>2, AcceptEffect DEF Live, Untouched
  <2>4. /\ store'[p].conn = c /\ store'[p].fd = f /\ file'[f] = c
        /\ \A g \in Fds \ {f} : file'[g] = file[g] /\ file[g] # c
    BY <1>2, <2>2, AcceptEffect DEF Untouched, Open
  <2>5. \A k \in 1..Len(backlog') : /\ backlog'[k] = backlog[k + 1] /\ k + 1 \in 1..Len(backlog)
                                    /\ backlog[k + 1] # c /\ backlog[k + 1] \in Clients
    <3>1. ASSUME NEW k \in 1..Len(backlog')
          PROVE  /\ backlog'[k] = backlog[k + 1] /\ k + 1 \in 1..Len(backlog) /\ k + 1 # 1
      BY <1>2, AcceptEffect
    <3>2. \A k \in 1..Len(backlog) : backlog[k] \in Clients
      BY BaseTypes
    <3>3. ASSUME NEW k \in 1..Len(backlog), backlog[k] = c PROVE k = 1
      BY <2>2, <3>3, Zenon DEF OnceInv
    <3> HIDE DEF c
    <3> QED
      BY <3>1, <3>2, <3>3
  <2>6. \A d \in Clients \ {c} : Untouched(d) => Untouched(d)'
    BY <2>1, <2>3, <2>4 DEF Untouched, Open
  <2> HIDE DEF c
  <2>7. \A k, l \in 1..Len(backlog') : backlog'[k] = backlog'[l] => k = l
    <3>1. ASSUME NEW k \in 1..Len(backlog'), NEW l \in 1..Len(backlog'), backlog'[k] = backlog'[l]
          PROVE  k + 1 = l + 1
      BY <2>5, <3>1 DEF OnceInv
    <3> QED
      BY <3>1
  <2>8. \A k \in 1..Len(backlog'), d \in Clients :
          backlog'[k] = d => Untouched(d)' /\ peer'[d] # "away"
    BY <2>1, <2>5, <2>6 DEF OnceInv
  <2>9. \A d \in Clients : peer'[d] = "away" => Untouched(d)'
    BY <2>1, <2>2, <2>6 DEF OnceInv
  <2>10. \A q, r \in Ptrs : Live(q)' /\ Live(r)' /\ store'[q].conn = store'[r].conn => q = r
    BY <2>3, <2>4 DEF OnceInv
  <2>11. \A g, h \in Fds : file'[g] # Nil /\ file'[g] = file'[h] => g = h
    BY <2>4 DEF OnceInv
  <2>12. \A q \in Ptrs, g \in Fds : Live(q)' /\ file'[g] = store'[q].conn => g = store'[q].fd
    BY <2>3, <2>4 DEF OnceInv
  <2> QED
    BY <2>7, <2>8, <2>9, <2>10, <2>11, <2>12 DEF OnceInv
<1>3. ASSUME ~\E c \in Clients : Connect(c) /\ UNCHANGED servervars,
             ~\E f \in Fds, p \in Ptrs : Accept(f, p)
      PROVE  OnceInv'
  <2>1. /\ \A p \in Ptrs : Live(p)' => /\ Live(p) /\ store'[p].conn = store[p].conn
                                       /\ store'[p].fd = store[p].fd
        /\ \A f \in Fds : file'[f] \in {file[f], Nil}
        /\ backlog' \in {backlog, <<>>}
        /\ \A c \in Clients : /\ peer'[c] = "away" <=> peer[c] = "away"
                              /\ Untouched(c) => Untouched(c)'
    BY <1>3, OldConnections
  <2>2. \A p, q \in Ptrs : Live(p)' /\ Live(q)' /\ store'[p].conn = store'[q].conn => p = q
    BY <2>1 DEF OnceInv
  <2>3. /\ \A f, g \in Fds : file'[f] # Nil /\ file'[f] = file'[g] => f = g
        /\ \A p \in Ptrs, f \in Fds : Live(p)' /\ file'[f] = store'[p].conn => f = store'[p].fd
    <3>1. \A f \in Fds : file'[f] = file[f] \/ file'[f] = Nil
      BY <2>1
    <3>2. \A p \in Ptrs : Live(p) => store[p].conn # Nil
      BY BaseTypes, Constants DEF Live, Stores
    <3>3. ASSUME NEW p \in Ptrs, NEW f \in Fds, Live(p)', file'[f] = store'[p].conn
          PROVE  f = store'[p].fd
      <4>1. Live(p) /\ store'[p].conn = store[p].conn /\ store'[p].fd = store[p].fd
        BY <2>1, <3>3
      <4> QED
        BY <3>1, <3>2, <3>3, <4>1 DEF OnceInv
    <3> QED
      BY <3>1, <3>3 DEF OnceInv
  <2>4. \A k \in 1..Len(backlog') : k \in 1..Len(backlog) /\ backlog'[k] = backlog[k] /\ backlog[k] \in Clients
    BY <2>1
  <2>5. \A k \in 1..Len(backlog'), d \in Clients :
          backlog'[k] = d => Untouched(d)' /\ peer'[d] # "away"
    BY <2>1, <2>4 DEF OnceInv
  <2> QED
    BY <2>1, <2>2, <2>3, <2>4, <2>5 DEF OnceInv
<1> QED
  BY <1>1, <1>2, <1>3

LEMMA OnceInit == Init => OnceInv
<1> SUFFICES ASSUME Init PROVE OnceInv
  OBVIOUS
<1>1. /\ backlog = <<>> /\ \A p \in Ptrs : ~Live(p)
      /\ \A f \in Fds : file[f] = Nil
      /\ \A c \in Clients : posted[c] = {}
  BY DEF Init, NetInit, Live
<1>2. \A c \in Clients : Untouched(c)
  BY <1>1, Constants DEF Untouched, Open
<1> QED
  BY <1>1, <1>2 DEF OnceInv

-------------------------------------------------------------------------------
(* What a step does to one event loop.                                      *)
LoopMoves(i) ==
  \/ UNCHANGED <<pc[i], batch[i], current[i]>>
  \/ pc'[i] = "poll" /\ main = "created" /\ UNCHANGED <<batch[i], current[i]>>
  \/ pc[i] = "poll" /\ pc'[i] = "exited" /\ UNCHANGED <<batch[i], current[i]>>
  \/ EpollWait(i) /\ pc'[i] = "batch" /\ batch'[i] = Events(i) /\ current'[i] = current[i]
  \/ \E e \in batch[i] :
       /\ HandleEvent(i, e) /\ batch'[i] = batch[i] \ {e}
       /\ \/ pc'[i] = "dispatch" /\ current'[i] = e.ptr
          \/ pc'[i] = AfterEvent(i, batch'[i]) /\ current'[i] = current[i]
  \/ \E e \in batch[i] :
       /\ MarkClosed(i, e) /\ batch'[i] = batch[i] \ {e}
       /\ pc'[i] = "remove" /\ current'[i] = e.ptr
  \/ RemoveSocket(i) /\ pc'[i] = "erase" /\ UNCHANGED <<batch[i], current[i]>>
  \/ /\ Dispatch(i) \/ EraseSocket(i)
     /\ pc'[i] = AfterEvent(i, batch[i]) /\ current'[i] = Nil /\ batch'[i] = batch[i]

LEMMA LoopStep ==
  ASSUME Base, [Next]_vars, NEW i \in Loops
  PROVE  LoopMoves(i)
<1> USE Constants DEF polling, LoopMoves
<1>1. /\ pc \in [Threads -> ThreadStates] /\ i \in Threads /\ i # Acceptor
      /\ batch \in [Loops -> SUBSET [ptr : Ptrs, hup : BOOLEAN]]
      /\ current \in [Loops -> Ptrs \cup {Nil}]
  BY DEF Base, TypeOK, ThreadTypeOK
<1>2. ASSUME UNCHANGED polling, UNCHANGED pc \/ \E s : pc' = [pc EXCEPT ![Acceptor] = s]
      PROVE  LoopMoves(i)
  BY <1>1, <1>2
<1>3. CASE Clientele \/ Terminate \/ UNCHANGED vars
  BY <1>2, <1>3 DEF Clientele, Terminate, vars, servervars
<1>4. CASE MainThread
  <2>1. CASE StartReceivingConnection
    BY <1>1, <2>1 DEF StartReceivingConnection
  <2>2. ASSUME NEW t \in Threads, StopEventThread(t) PROVE LoopMoves(i)
    BY <1>2, <2>2 DEF StopEventThread
  <2>3. CASE CreateServerSocketAndStartReceiving \/ CloseServerSocket \/ SetEventReceiver
              \/ CloseClients \/ ClearClients
    BY <1>2, <2>3 DEF CreateServerSocketAndStartReceiving, CloseServerSocket, SetEventReceiver,
                      CloseClients, ClearClients
  <2> QED
    BY <1>3, <1>4, <2>1, <2>2, <2>3 DEF MainThread, StopPolling, CreateServerSocketError
<1>5. CASE AcceptorThread
  BY <1>2, <1>5, Zenon DEF AcceptorThread, AcceptorEvent, HandleNewConnection, Accept, AcceptError,
     InitConnection, AddSocket, InsertAndPost, ExitPolling
<1>6. ASSUME NEW w \in Workers, WorkerThread(w) PROVE LoopMoves(i)
  BY <1>2, <1>3, <1>6, Zenon DEF WorkerThread, TakeTask, HandleCallBackEvent, Return, GetAvailable,
     ReceiveFault, Read
<1>7. ASSUME NEW j \in Loops, EventLoop(j) PROVE LoopMoves(i)
  <2>0. j \in Threads
    OBVIOUS
  <2>1. CASE EpollWait(j)
    BY <1>1, <2>0, <2>1 DEF EpollWait
  <2>2. ASSUME NEW e \in batch[j], HandleEvent(j, e) PROVE LoopMoves(i)
    <3>1. /\ batch' = [batch EXCEPT ![j] = @ \ {e}]
          /\ \/ current' = [current EXCEPT ![j] = e.ptr] /\ pc' = [pc EXCEPT ![j] = "dispatch"]
             \/ current' = current /\ pc' = [pc EXCEPT ![j] = AfterEvent(j, batch'[j])]
      BY <2>2 DEF HandleEvent
    <3> QED
      BY <1>1, <2>0, <2>2, <3>1
  <2>3. ASSUME NEW e \in batch[j], MarkClosed(j, e) PROVE LoopMoves(i)
    <3>1. /\ batch' = [batch EXCEPT ![j] = @ \ {e}] /\ current' = [current EXCEPT ![j] = e.ptr]
          /\ pc' = [pc EXCEPT ![j] = "remove"]
      BY <2>3 DEF MarkClosed
    <3> QED
      BY <1>1, <2>0, <2>3, <3>1
  <2>4. CASE RemoveSocket(j)
    <3>1. pc' = [pc EXCEPT ![j] = "erase"] /\ UNCHANGED polling
      BY <2>4, Zenon DEF RemoveSocket
    <3> QED
      BY <1>1, <2>0, <2>4, <3>1
  <2>5. CASE Dispatch(j) \/ EraseSocket(j)
    <3>1. /\ pc' = [pc EXCEPT ![j] = AfterEvent(j, batch[j])]
          /\ current' = [current EXCEPT ![j] = Nil] /\ batch' = batch
      BY <2>5 DEF Dispatch, EraseSocket
    <3> QED
      BY <1>1, <2>0, <2>5, <3>1
  <2>6. CASE ExitPolling(j)
    BY <1>1, <2>0, <2>6 DEF ExitPolling
  <2>7. CASE LoopFault(j)
    BY <1>3, <2>7 DEF LoopFault
  <2> QED
    BY <1>7, <2>1, <2>2, <2>3, <2>4, <2>5, <2>6, <2>7 DEF EventLoop
<1> QED
  BY <1>3, <1>4, <1>5, <1>6, <1>7 DEF Next

LEMMA MainStep ==
  ASSUME [Next]_vars
  PROVE  \/ UNCHANGED <<main, m_continuePolling>>
         \/ /\ main' \in {"loops", "listening", "serving", "stopAcceptor"}
            /\ main \notin {"clearClients", "stopped"} /\ UNCHANGED <<newStore, m_continuePolling>>
         \/ \E t \in Threads : StopEventThread(t)
         \/ CloseClients \/ ClearClients
<1> USE DEF scheduler, application
<1>1. Clientele \/ Terminate \/ UNCHANGED vars => UNCHANGED <<main, m_continuePolling>>
  BY DEF Clientele, Terminate, vars, servervars
<1>2. CASE MainThread
  <2>1. CASE StartReceivingConnection \/ CreateServerSocketAndStartReceiving \/ SetEventReceiver
    BY <2>1 DEF StartReceivingConnection, CreateServerSocketAndStartReceiving, SetEventReceiver
  <2>2. CASE CloseServerSocket
    BY <2>2 DEF CloseServerSocket
  <2> QED
    BY <1>1, <1>2, <2>1, <2>2 DEF MainThread, StopPolling, CreateServerSocketError
<1>3. CASE AcceptorThread
  BY <1>3, Zenon DEF AcceptorThread, AcceptorEvent, HandleNewConnection, Accept, AcceptError,
     InitConnection, AddSocket, InsertAndPost, ExitPolling
<1>4. ASSUME NEW i \in Loops, EventLoop(i) PROVE UNCHANGED <<main, m_continuePolling>>
  BY <1>1, <1>4, Zenon DEF EventLoop, EpollWait, HandleEvent, Dispatch, MarkClosed, RemoveSocket,
     EraseSocket, LoopFault, ExitPolling
<1>5. ASSUME NEW w \in Workers, WorkerThread(w) PROVE UNCHANGED <<main, m_continuePolling>>
  BY <1>1, <1>5, Zenon DEF WorkerThread, TakeTask, HandleCallBackEvent, Return, GetAvailable,
     ReceiveFault, Read
<1> QED
  BY <1>1, <1>2, <1>3, <1>4, <1>5 DEF Next

(* What a step does to the acceptor and the store it is setting up.         *)
AcceptorMoves ==
  \/ UNCHANGED <<newStore, pc[Acceptor]>>
  \/ UNCHANGED newStore /\ {pc[Acceptor], pc'[Acceptor]} \cap {"init", "add", "insert"} = {}
  \/ InitConnection /\ pc'[Acceptor] = "add" /\ UNCHANGED newStore
  \/ AddSocket /\ pc'[Acceptor] = "insert" /\ UNCHANGED newStore
  \/ InsertAndPost /\ newStore' = Nil
  \/ \E f \in Fds, p \in Ptrs : Accept(f, p) /\ pc'[Acceptor] = "init"

LEMMA AcceptorStep ==
  ASSUME Base, [Next]_vars
  PROVE  AcceptorMoves
<1> USE Constants DEF AcceptorMoves
<1>1. pc \in [Threads -> ThreadStates] /\ Acceptor \in Threads
  BY DEF Base, TypeOK, ThreadTypeOK
<1>2. ASSUME UNCHANGED <<newStore, pc>> PROVE AcceptorMoves
  BY <1>2
<1>3. CASE Clientele \/ Terminate \/ UNCHANGED vars
  BY <1>2, <1>3 DEF Clientele, Terminate, vars, servervars
<1>4. CASE MainThread
  <2>1. CASE StartReceivingConnection
    BY <1>1, <2>1 DEF StartReceivingConnection
  <2>2. CASE CreateServerSocketAndStartReceiving
    <3>1. pc[Acceptor] = "off" /\ pc'[Acceptor] = "poll" /\ newStore' = newStore
      BY <1>1, <2>2 DEF CreateServerSocketAndStartReceiving, Base, ControlInv
    <3> QED
      BY <3>1
  <2>3. CASE SetEventReceiver \/ StopPolling
    BY <1>2, <2>3 DEF SetEventReceiver, StopPolling, CloseServerSocket, StopEventThread,
       CloseClients,
                      ClearClients
  <2> QED
    BY <1>3, <1>4, <2>1, <2>2, <2>3 DEF MainThread, CreateServerSocketError
<1>5. CASE AcceptorThread
  <2>1. CASE AcceptorEvent
    <3>1. pc[Acceptor] = "poll" /\ pc'[Acceptor] \in {"accept", "exited"} /\ newStore' = newStore
      BY <1>1, <2>1 DEF AcceptorEvent
    <3> QED
      BY <3>1
  <2>2. ASSUME NEW f \in Fds, NEW p \in Ptrs, Accept(f, p) PROVE AcceptorMoves
    BY <1>1, <2>2 DEF Accept
  <2>3. CASE AcceptError
    <3>1. pc[Acceptor] = "accept" /\ pc'[Acceptor] = AfterEvent(Acceptor, {}) /\ newStore' = newStore
      BY <1>1, <2>3 DEF AcceptError
    <3> QED
      BY <3>1 DEF AfterEvent
  <2>4. CASE InitConnection \/ AddSocket \/ InsertAndPost
    BY <1>1, <2>4 DEF InitConnection, AddSocket, InsertAndPost
  <2>5. CASE ExitPolling(Acceptor)
    <3>1. pc[Acceptor] = "poll" /\ pc'[Acceptor] = "exited" /\ newStore' = newStore
      BY <1>1, <2>5 DEF ExitPolling
    <3> QED
      BY <3>1
  <2> QED
    BY <1>5, <2>1, <2>2, <2>3, <2>4, <2>5 DEF AcceptorThread, HandleNewConnection
<1>6. ASSUME NEW i \in Loops, EventLoop(i) PROVE AcceptorMoves
  <2>1. CASE LoopFault(i)
    BY <1>3, <2>1 DEF LoopFault
  <2>2. CASE ~LoopFault(i)
    <3>1. newStore' = newStore /\ \E s : pc' = [pc EXCEPT ![i] = s]
      BY <1>6, <2>2, Zenon DEF EventLoop, EpollWait, HandleEvent, Dispatch, MarkClosed,
         RemoveSocket,
         EraseSocket, ExitPolling
    <3> QED
      BY <1>1, <3>1
  <2> QED
    BY <2>1, <2>2
<1>7. ASSUME NEW w \in Workers, WorkerThread(w) PROVE AcceptorMoves
  BY <1>2, <1>3, <1>7, Zenon DEF WorkerThread, TakeTask, HandleCallBackEvent, Return, GetAvailable,
     ReceiveFault, Read
<1> QED
  BY <1>3, <1>4, <1>5, <1>6, <1>7 DEF Next

(* The registrations with the epolls: added by AddSocket, taken away by     *)
(* close and epoll_ctl.                                                     *)
LEMMA RegistrationStep ==
  ASSUME Base, [Next]_vars, NEW i \in Loops, NEW f \in Fds
  PROVE  \/ interest'[i][f] \in {interest[i][f], Nil}
         \/ /\ AddSocket /\ i = NextIndex /\ f = store[newStore].fd /\ interest'[i][f] = newStore
            /\ m_continuePolling[i] /\ file[f] # Nil
<1> DEFINE Less == interest'[i][f] \in {interest[i][f], Nil}
<1> USE DEF descriptors
<1>1. CASE UNCHANGED interest
  BY <1>1
<1>2. ASSUME NEW c \in Clients, Client(c), UNCHANGED servervars PROVE UNCHANGED interest
  BY <1>2 DEF Client, Connect, Send, PeerClose
<1>3. CASE CreateServerSocketAndStartReceiving \/ CloseServerSocket \/ AcceptorEvent
  BY <1>3 DEF CreateServerSocketAndStartReceiving, CloseServerSocket, AcceptorEvent
<1>4. ASSUME NEW S, CloseFds(S) PROVE Less
  BY <1>4 DEF CloseFds
<1>5. CASE CloseClients \/ InitConnection
  BY <1>1, <1>4, <1>5 DEF CloseClients, InitConnection
<1>6. ASSUME NEW g \in Fds, NEW p \in Ptrs, Accept(g, p) PROVE UNCHANGED interest
  BY <1>6 DEF Accept
<1>7. CASE AddSocket
  <2>1. interest \in [Loops -> [Fds -> Ptrs \cup {Nil}]]
    BY DEF Base, TypeOK, NetTypeOK
  <2>2. \/ UNCHANGED interest
        \/ /\ m_continuePolling[NextIndex] /\ file[store[newStore].fd] # Nil
           /\ interest' = [interest EXCEPT ![NextIndex][store[newStore].fd] = newStore]
    BY <1>7 DEF AddSocket, EpollAdd
  <2> QED
    BY <1>7, <2>1, <2>2
<1>8. ASSUME NEW j \in Loops, EpollWait(j) PROVE UNCHANGED interest
  BY <1>8 DEF EpollWait
<1>9. ASSUME NEW j \in Loops, RemoveSocket(j) PROVE Less
  <2>1. interest \in [Loops -> [Fds -> Ptrs \cup {Nil}]]
    BY DEF Base, TypeOK, NetTypeOK
  <2>2. \/ UNCHANGED interest \/ (\E S : CloseFds(S))
        \/ \E k, g : interest' = [interest EXCEPT ![k][g] = Nil]
    BY <1>9, Zenon DEF RemoveSocket, EpollDel, EpollRemove
  <2> QED
    BY <1>4, <2>1, <2>2
<1>10. ASSUME NEW w \in Workers, Read(w) PROVE UNCHANGED interest
  BY <1>10 DEF Read
<1> QED
  BY <1>1, <1>2, <1>3, <1>5, <1>6, <1>7, <1>8, <1>9, <1>10, NetWriters DEF netvars

-------------------------------------------------------------------------------
LEMMA HeapCleared ==
  ASSUME Base, ClearClients
  PROVE  \A p \in Ptrs : ~Live(p)'
<1>1. newStore = Nil
  BY Constants DEF ClearClients, Base, ControlInv
<1>2. \A p \in Ptrs : store'[p] = IF p \in Owned THEN Nil ELSE store[p]
  BY DEF ClearClients
<1>3. \A p \in Ptrs : store[p] # Nil => p \in Owned
  BY <1>1, Constants DEF Base, Ownership, Live
<1> QED
  BY <1>2, <1>3 DEF Live

(* The pointers in an event are what the loop's epoll had registered.       *)
LEMMA EventPtr ==
  ASSUME Base, NEW i \in Loops, NEW e \in Events(i)
  PROVE  \E f \in Fds : /\ file[f] # Nil /\ interest[i][f] # Nil /\ e.ptr = interest[i][f]
                        /\ e.hup = (peer[file[f]] = "closed")
<1>1. PICK f \in Fds : /\ file[f] # Nil /\ interest[i][f] # Nil
                       /\ e = [ptr |-> interest[i][f], hup |-> peer[file[f]] = "closed"]
  BY Constants DEF Events, Base, TypeOK, NetTypeOK
<1> QED
  BY <1>1

(* After stopPolling the loops learn of no store any more.                  *)
LEMMA KnownLess ==
  ASSUME Base, StopInv, main = "stopped", [Next]_vars, NEW i \in Loops
  PROVE  Known(i)' \subseteq Known(i)
<1>1. main' = "stopped" /\ m_continuePolling' = m_continuePolling /\ ~m_continuePolling[i]
  BY MainStep DEF StopInv, StopEventThread, CloseClients, ClearClients
<1>2. LoopMoves(i)
  BY LoopStep
<1>3. \A S : AfterEvent(i, S) # "poll" /\ (AfterEvent(i, S))' # "poll"
  BY <1>1 DEF AfterEvent
<1>4. ASSUME pc'[i] = "poll" PROVE pc[i] = "poll"
  BY <1>1, <1>2, <1>3, <1>4 DEF LoopMoves
<1>5. ASSUME NEW f \in Fds, MayReturn(i, f)'
      PROVE  MayReturn(i, f) /\ interest'[i][f] = interest[i][f]
  <2>1. pc[i] = "poll"
    BY <1>1, <1>4, <1>5 DEF MayReturn
  <2>2. interest'[i][f] \in {interest[i][f], Nil}
    BY <1>1, RegistrationStep
  <2> QED
    BY <1>5, <2>1, <2>2 DEF MayReturn
<1>6. Held(i)' \subseteq Known(i)
  <2>1. CASE EpollWait(i) /\ batch'[i] = Events(i) /\ current'[i] = current[i]
    <3>1. pc[i] = "poll"
      BY <2>1 DEF EpollWait
    <3>2. ASSUME NEW e \in batch'[i] PROVE e.ptr \in Known(i)
      BY <2>1, <3>1, EventPtr DEF Known, MayReturn
    <3> QED
      BY <2>1, <3>2 DEF Held, Known
  <2>2. CASE /\ batch'[i] \subseteq batch[i]
             /\ current'[i] \in {current[i], Nil} \cup {e.ptr : e \in batch[i]}
    BY <2>2 DEF Held, Known
  <2> QED
    BY <1>2, <2>1, <2>2 DEF LoopMoves
<1> QED
  BY <1>5, <1>6 DEF Known

LEMMA StopInit == Init => StopInv
<1> SUFFICES ASSUME Init PROVE StopInv
  OBVIOUS
<1>1. main = "created"
  BY DEF Init
<1>2. \A i \in Loops : Held(i) = {} /\ \A f \in Fds : ~MayReturn(i, f)
  BY Constants DEF Init, NetInit, Held, MayReturn
<1>3. \A i \in Loops : Known(i) = {}
  BY <1>2 DEF Known
<1> QED
  BY <1>1, <1>3 DEF StopInv

LEMMA StopStep ==
  ASSUME IInv, IInv', StopInv, [Next]_vars
  PROVE  StopInv'
<1> USE Constants
<1>0. Base /\ Base'
  BY DEF IInv
<1>1. /\ main' \in {"stopLoops", "closeClients", "clearClients", "stopped"} =>
           ~m_continuePolling'[Acceptor]
      /\ main' \in {"closeClients", "clearClients", "stopped"} =>
           \A i \in Loops : ~m_continuePolling'[i]
  <2>1. ASSUME NEW t \in Threads, StopEventThread(t)
        PROVE  /\ main' \in {"stopLoops", "closeClients", "clearClients", "stopped"} =>
                    ~m_continuePolling'[Acceptor]
               /\ main' \in {"closeClients", "clearClients", "stopped"} =>
                    \A i \in Loops : ~m_continuePolling'[i]
    <3>1. m_continuePolling \in [Threads -> BOOLEAN]
      BY <1>0 DEF Base, TypeOK, ThreadTypeOK
    <3>2. m_continuePolling' = [m_continuePolling EXCEPT ![t] = FALSE]
      BY <2>1 DEF StopEventThread
    <3>3. CASE t = Acceptor
      BY <2>1, <3>1, <3>2, <3>3 DEF StopEventThread
    <3>4. CASE t \in Loops
      <4>1. /\ main = "stopLoops" /\ main' \in {"stopLoops", "closeClients"} /\ t # Acceptor
            /\ \A i \in Loops : i < t => ~m_continuePolling[i]
            /\ main' = "closeClients" => t = NumLoops - 1
        BY <2>1, <3>4 DEF StopEventThread
      <4>2. ASSUME t = NumLoops - 1, NEW i \in Loops PROVE i < t \/ i = t
        BY <4>2, NetworkAssumption DEF Loops
      <4> QED
        BY <3>1, <3>2, <4>1, <4>2 DEF StopInv
    <3> QED
      BY <3>3, <3>4 DEF Threads
  <2>2. CASE CloseClients \/ ClearClients
    BY <2>2 DEF CloseClients, ClearClients, scheduler, StopInv
  <2> QED
    BY <2>1, <2>2, MainStep DEF StopInv
<1>2. ASSUME main' = "stopped", NEW p \in Ptrs, Live(p)' PROVE store'[p].loop = Nil
  <2>1. CASE ClearClients
    BY <1>0, <1>2, <2>1, HeapCleared
  <2>2. CASE main = "stopped"
    <3>1. CASE SameStore(p)
      <4>1. CASE AddSocket /\ p = newStore
        <5>1. UNCHANGED store
          BY <1>0, <2>2, <4>1, Index DEF AddSocket, StopInv, Base, TypeOK, ThreadTypeOK
        <5> QED
          BY <1>2, <2>2, <5>1 DEF StopInv, Live
      <4> QED
        BY <2>2, <3>1, <4>1 DEF SameStore, StopInv
    <3>2. ASSUME NEW f \in Fds, Accept(f, p) PROVE store'[p].loop = Nil
      BY <1>0, <3>2, AcceptEffect
    <3> QED
      BY <1>0, <1>2, <3>1, <3>2, StoreStep
  <2> QED
    BY <1>2, <2>1, <2>2, MainStep DEF StopEventThread, CloseClients
<1>3. \A i, j \in Loops : i # j => Known(i)' \cap Known(j)' = {}
  <2>1. CASE main' # "stopped"
    <3>1. ASSUME NEW i \in Loops, NEW p \in Known(i)' PROVE store'[p].loop = i
      BY <2>1, <3>1 DEF IInv, Tracked, Known, InterestInv, HeldInv
    <3> QED
      BY <3>1
  <2>2. CASE main = "stopped"
    BY <1>0, <2>2, KnownLess DEF StopInv
  <2>3. CASE ClearClients
    <3>1. UNCHANGED <<pc, batch, current, interest, m_continuePolling>>
      BY <2>3 DEF ClearClients, netvars, descriptors, polling, scheduler
    <3>2. \A i \in Loops : Known(i)' = Known(i)
      BY <3>1 DEF Known, Held, MayReturn
    <3> QED
      BY <3>2 DEF StopInv
  <2> QED
    BY <2>1, <2>2, <2>3, MainStep DEF StopEventThread, CloseClients
<1> QED
  BY <1>1, <1>2, <1>3 DEF StopInv

-------------------------------------------------------------------------------
(* The loops are in their critical section one at a time, and not together  *)
(* with the acceptor or closeAllClientSocket.                               *)
LEMMA Exclusion ==
  ASSUME Base, NEW i \in Loops, pc[i] \in {"remove", "erase"}
  PROVE  /\ clientEventStoresMutex = i /\ newStore = Nil /\ main # "clearClients"
         /\ current[i] \in Ptrs /\ current[i] \in Held(i)
         /\ \A j \in Loops \ {i} : pc[j] \notin {"remove", "erase"}
BY Constants, HeldTypes DEF Base, ControlInv

(* A store that some loop holds is held by one loop.                        *)
LEMMA OneHolder ==
  ASSUME StopInv, NEW i \in Loops, NEW j \in Loops, current[i] # Nil, current[i] = current[j]
  PROVE  i = j
BY DEF StopInv, Known, Held

LEMMA MarkedInit == Init => MarkedInv
BY Constants DEF Init, MarkedInv

LEMMA MarkedStep ==
  ASSUME IInv, IInv', StopInv, MarkedInv, [Next]_vars
  PROVE  MarkedInv'
<1> USE Constants
<1> SUFFICES ASSUME main' # "stopped", NEW i \in Loops, pc'[i] \in {"remove", "erase"}
             PROVE  store'[current'[i]].type = "Closed"
  BY DEF MarkedInv
<1>0. Base /\ Base' /\ main # "stopped"
  BY Stopped DEF IInv
<1>1. PICK p \in Ptrs : p = current'[i] /\ Live(p)'
  <2>1. current'[i] \in Ptrs /\ current'[i] \in Held(i)'
    BY <1>0 DEF Base, ControlInv, TypeOK, ThreadTypeOK, Held
  <2> QED
    BY <2>1 DEF IInv, Tracked, HeldInv, Live
<1>2. CASE \E e \in batch[i] : MarkClosed(i, e) /\ current'[i] = e.ptr
  <2>1. PICK e \in batch[i] : MarkClosed(i, e) /\ e.ptr = p
    BY <1>1, <1>2
  <2>2. Live(p)
    BY <1>0, <2>1, HeldTypes DEF IInv, Tracked, HeldInv
  <2>3. store'[p] = [store[p] EXCEPT !.type = "Closed"]
    BY <2>1, <2>2 DEF MarkClosed
  <2>4. store[p] \in Stores
    BY <1>0, <2>2, BaseTypes DEF Live
  <2> QED
    BY <1>1, <2>3, <2>4, OneField DEF Kinds
<1>3. CASE pc[i] \in {"remove", "erase"} /\ current'[i] = current[i]
  <2>1. store[p].type = "Closed" /\ Live(p) /\ current[i] = p /\ current[i] # Nil
    BY <1>0, <1>1, <1>3, Exclusion DEF MarkedInv, IInv, Tracked, HeldInv
  <2>2. ~\E f \in Fds : Accept(f, p)
    BY <2>1 DEF Accept
  <2>3. ASSUME NEW j \in Loops, Dispatch(j), p = current[j] PROVE FALSE
    <3>1. i = j
      BY <2>1, <2>3, OneHolder
    <3> QED
      BY <1>3, <2>3, <3>1 DEF Dispatch
  <2>4. SameStore(p)
    BY <1>0, <1>1, <2>2, StoreStep
  <2> QED
    BY <1>1, <2>1, <2>3, <2>4 DEF SameStore
<1>4. LoopMoves(i)
  BY <1>0, LoopStep
<1>5. \A S : AfterEvent(i, S) \notin {"remove", "erase"} /\ (AfterEvent(i, S))' \notin {"remove", "erase"}
  BY DEF AfterEvent
<1>6. ASSUME RemoveSocket(i) PROVE pc[i] = "remove"
  BY <1>6 DEF RemoveSocket
<1> QED
  BY <1>2, <1>3, <1>4, <1>5, <1>6 DEF LoopMoves

-------------------------------------------------------------------------------
(* The critical sections of acceptor, loops and main() exclude each other.  *)
LEMMA AcceptorAlone ==
  ASSUME Base, newStore # Nil
  PROVE  /\ newStore \in Ptrs /\ Live(newStore) /\ main # "clearClients" /\ ~CloseClients
         /\ \A i \in Loops : pc[i] \notin {"remove", "erase"}
         /\ \A f \in Fds, p \in Ptrs : ~Accept(f, p)
BY Constants DEF Base, ControlInv, TypeOK, HeapTypeOK, CloseClients, LockStores, Accept

LEMMA AcceptAlone ==
  ASSUME Base, NEW f \in Fds, NEW p \in Ptrs, Accept(f, p)
  PROVE  main # "clearClients" /\ \A i \in Loops : pc[i] \notin {"remove", "erase"}
BY Constants DEF Base, ControlInv, Accept, LockStores

(* removeSocket frees the store it was called for.                          *)
LEMMA EraseKills ==
  ASSUME Base, NEW i \in Loops, EraseSocket(i), NEW p \in Ptrs, p = current[i], Live(p)
  PROVE  ~Live(p)'
<1>1. newStore = Nil /\ p \in Owned
  BY Constants, Exclusion DEF EraseSocket, Base, Ownership
<1>2. clientEventStores[store[p].fd] = p
  BY <1>1, Constants DEF Owned, Base, Ownership
<1>3. store' = [q \in Ptrs |-> IF q = clientEventStores[store[p].fd] THEN Nil ELSE store[q]]
  BY DEF EraseSocket
<1> QED
  BY <1>2, <1>3 DEF Live

LEMMA ErasedStep ==
  ASSUME Base, [Next]_vars, NEW p \in Ptrs, Live(p), Live(p)', NEW i \in Loops,
         pc[i] = "erase", current[i] = p
  PROVE  pc'[i] = "erase" /\ current'[i] = p /\ (main # "stopped" => main' # "stopped")
<1>1. LoopMoves(i)
  BY LoopStep
<1>2. ~EraseSocket(i)
  BY EraseKills
<1>3. /\ ~EpollWait(i) /\ ~Dispatch(i) /\ ~RemoveSocket(i) /\ main # "created"
      /\ \A e \in batch[i] : ~HandleEvent(i, e) /\ ~MarkClosed(i, e)
  BY DEF EpollWait, Dispatch, RemoveSocket, HandleEvent, MarkClosed, Base, ControlInv
<1>4. main # "stopped" => main' # "stopped"
  <2>1. ~ClearClients
    BY HeapCleared
  <2> QED
    BY <2>1, MainStep DEF StopEventThread, CloseClients
<1> QED
  BY <1>1, <1>2, <1>3, <1>4 DEF LoopMoves

LEMMA NumberInit == Init => NumberInv
<1> SUFFICES ASSUME Init PROVE NumberInv
  OBVIOUS
<1>1. newStore = Nil /\ pc[Acceptor] = "off" /\ \A p \in Ptrs : ~Live(p)
  BY Constants DEF Init, Live
<1> QED
  BY <1>1 DEF NumberInv

LEMMA NumberStep ==
  ASSUME IInv, IInv', StopInv, NumberInv, [Next]_vars
  PROVE  NumberInv'
<1> USE Constants
<1>0. Base /\ Base'
  BY DEF IInv
<1>1. ASSUME NEW p \in Ptrs, Live(p)', Closable(p)'
      PROVE  \/ file'[store'[p].fd] = store'[p].conn
             \/ file'[store'[p].fd] = Nil /\ (main' = "clearClients" \/ Erased(p)')
  <2>1. ASSUME NEW f \in Fds, Accept(f, p) PROVE file'[store'[p].fd] = store'[p].conn
    BY <1>0, <2>1, AcceptEffect
  <2>2. CASE SameStore(p)
    <3>1. PICK f \in Fds, c \in Clients :
            /\ Live(p) /\ store[p].fd = f /\ store[p].conn = c
            /\ store'[p].fd = f /\ store'[p].conn = c
      BY <1>0, <2>2, BaseTypes DEF SameStore
    <3>2. CASE Closable(p)
      <4>1. CASE file[f] = c
        <5>1. CASE CloseClients
          <6>1. main' = "clearClients"
            BY <5>1 DEF CloseClients
          <6>2. file'[f] = c \/ file'[f] = Nil
            BY <4>1, <5>1 DEF CloseClients, CloseFds
          <6> QED
            BY <3>1, <6>1, <6>2
        <5>2. ~(InitConnection /\ Tls /\ f = store[newStore].fd)
          BY <1>0, <1>1, <3>1, <3>2, AcceptorStore DEF InitConnection, NumberInv, Closable
        <5>3. ASSUME NEW i \in Loops, RemoveSocket(i), Live(current[i]), store[current[i]].loop # Nil,
                     f = store[current[i]].fd
              PROVE  Erased(p)'
          <6>1. current[i] = p
            BY <1>0, <3>1, <5>3, Exclusion, OneStorePerFd DEF RemoveSocket
          <6>2. main # "stopped" /\ main' = main
            BY <3>1, <5>3, <6>1 DEF StopInv, RemoveSocket, application
          <6>3. pc' = [pc EXCEPT ![i] = "erase"] /\ current' = current
            BY <5>3, Zenon DEF RemoveSocket, polling
          <6>4. pc'[i] = "erase"
            BY <1>0, <6>3 DEF Base, TypeOK, ThreadTypeOK
          <6> QED
            BY <6>1, <6>2, <6>3, <6>4 DEF Erased
        <5>4. \A q \in Ptrs : ~Accept(f, q)
          BY <4>1 DEF Accept
        <5> QED
          BY <1>0, <3>1, <4>1, <5>1, <5>2, <5>3, <5>4, FileStep DEF Closing
      <4>2. CASE file[f] = Nil /\ (main = "clearClients" \/ Erased(p))
        <5>1. \A q \in Ptrs : ~Accept(f, q)
          BY <1>0, <4>2, AcceptAlone DEF Erased
        <5>2. file'[f] = Nil
          BY <1>0, <4>2, <5>1, FileStep
        <5>3. CASE main = "clearClients"
          <6>1. ~ClearClients
            BY <1>0, <1>1, HeapCleared
          <6> QED
            BY <3>1, <5>2, <5>3, <6>1, MainStep DEF StopEventThread, CloseClients
        <5>4. CASE Erased(p)
          <6>1. PICK i \in Loops : pc[i] = "erase" /\ current[i] = p /\ main # "stopped"
            BY <5>4 DEF Erased
          <6>2. pc'[i] = "erase" /\ current'[i] = p /\ main' # "stopped"
            BY <1>0, <1>1, <3>1, <6>1, ErasedStep
          <6> QED
            BY <3>1, <5>2, <6>2 DEF Erased
        <5> QED
          BY <4>2, <5>3, <5>4
      <4> QED
        BY <3>1, <3>2, <4>1, <4>2 DEF NumberInv
    <3>3. CASE ~Closable(p)
      <4>1. Tls /\ store'[p].ssl /\ ~store[p].ssl
        BY <1>1, <3>3 DEF Closable
      <4>2. InitConnection /\ p = newStore
        BY <2>2, <4>1 DEF SameStore
      <4>3. UNCHANGED file
        <5>1. store' # store
          BY <4>1
        <5> QED
          BY <4>2, <5>1 DEF InitConnection, descriptors
      <4>4. file[f] = c
        BY <3>1, <4>2 DEF InitConnection, NumberInv
      <4> QED
        BY <3>1, <4>3, <4>4
    <3> QED
      BY <3>2, <3>3
  <2> QED
    BY <1>0, <1>1, <2>1, <2>2, StoreStep
<1>2. ASSUME newStore' # Nil
      PROVE  /\ file'[store'[newStore'].fd] \in {Nil, store'[newStore'].conn}
             /\ \A p \in Ptrs : Live(p)' /\ Closable(p)' /\ p # newStore' =>
                                  store'[p].fd # store'[newStore'].fd
             /\ pc'[Acceptor] = "init" =>
                  file'[store'[newStore'].fd] = store'[newStore'].conn /\ ~store'[newStore'].ssl
  <2>1. CASE newStore' = newStore
    <3>1. PICK n \in Ptrs : /\ n = newStore /\ n = newStore' /\ Live(n) /\ Live(n)'
      BY <1>0, <1>2, <2>1, AcceptorAlone DEF Base, ControlInv, Live
    <3>2. SameStore(n)
      BY <1>0, <1>2, <2>1, <3>1, AcceptorAlone, StoreStep
    <3>3. PICK f \in Fds, c \in Clients :
            store[n].fd = f /\ store[n].conn = c /\ store'[n].fd = f /\ store'[n].conn = c
      BY <1>0, <3>1, <3>2, BaseTypes DEF SameStore
    <3>4. file'[f] = file[f] \/ (file'[f] = Nil /\ InitConnection)
      BY <1>0, <1>2, <2>1, AcceptorAlone, FileStep DEF Closing, RemoveSocket
    <3>5. file[f] \in {Nil, c}
      BY <1>2, <2>1, <3>1, <3>3 DEF NumberInv
    <3>6. ASSUME NEW p \in Ptrs, Live(p)', Closable(p)', p # n PROVE store'[p].fd # f
      <4>1. SameStore(p)
        BY <1>0, <1>2, <2>1, <3>6, AcceptorAlone, StoreStep
      <4>2. Live(p) /\ Closable(p)
        BY <3>1, <3>6, <4>1 DEF SameStore, Closable
      <4> QED
        BY <1>2, <2>1, <3>1, <3>3, <3>6, <4>1, <4>2 DEF NumberInv, SameStore
    <3>7. ASSUME pc'[Acceptor] = "init" PROVE file'[f] = c /\ ~store'[n].ssl
      <4>1. pc[Acceptor] = "init"
        BY <1>0, <1>2, <2>1, <3>7, AcceptorStep, AcceptorAlone DEF AcceptorMoves
      <4>2. ~InitConnection
        BY <1>0, <3>7 DEF InitConnection, Base, TypeOK, ThreadTypeOK
      <4> QED
        BY <3>1, <3>2, <3>3, <3>4, <4>1, <4>2 DEF SameStore, NumberInv
    <3> QED
      BY <3>1, <3>3, <3>4, <3>5, <3>6, <3>7
  <2>2. ASSUME NEW f \in Fds, NEW n \in Ptrs, Accept(f, n)
        PROVE  /\ newStore' = n /\ file'[f] = store'[n].conn /\ store'[n].fd = f /\ ~store'[n].ssl
               /\ \A p \in Ptrs : Live(p)' /\ Closable(p)' /\ p # n => store'[p].fd # f
    <3>1. /\ newStore' = n /\ file'[f] = store'[n].conn /\ store'[n].fd = f /\ ~store'[n].ssl
          /\ file[f] = Nil /\ \A q \in Ptrs \ {n} : store'[q] = store[q]
      BY <1>0, <2>2, AcceptEffect
    <3>2. ASSUME NEW p \in Ptrs, Live(p)', Closable(p)', p # n PROVE store'[p].fd # f
      <4>1. Live(p) /\ Closable(p) /\ store'[p].fd = store[p].fd /\ store[p].conn \in Clients
        BY <1>0, <3>1, <3>2, BaseTypes DEF Live, Closable
      <4>2. ~Erased(p) /\ main # "clearClients"
        BY <1>0, <2>2, AcceptAlone DEF Erased
      <4> QED
        BY <3>1, <4>1, <4>2 DEF NumberInv
    <3> QED
      BY <3>1, <3>2
  <2> QED
    BY <1>0, <1>2, <2>1, <2>2, AcceptorStep DEF AcceptorMoves
<1>3. pc'[Acceptor] = "init" => newStore' # Nil
  BY <1>0 DEF Base, ControlInv
<1> QED
  BY <1>1, <1>2, <1>3 DEF NumberInv

-------------------------------------------------------------------------------
(* The ways a store is freed.                                               *)
LEMMA Dying ==
  ASSUME Base, [Next]_vars, NEW p \in Ptrs, Live(p), ~Live(p)'
  PROVE  \/ ClearClients
         \/ /\ InsertAndPost /\ p # newStore /\ store[p].fd = store[newStore].fd
            /\ newStore \in Ptrs /\ Live(newStore) /\ store'[newStore] # Nil
         \/ \E i \in Loops : /\ EraseSocket(i) /\ p # newStore
                             /\ Live(current[i]) => p = current[i]
<1> USE Constants
<1>1. ASSUME \A q \in Ptrs : Live(q)' <=> Live(q) PROVE FALSE
  BY <1>1
<1>2. CASE UNCHANGED heap
  BY <1>1, <1>2 DEF heap, Live
<1>3. CASE CloseClients \/ InitConnection \/ AddSocket
            \/ \E i \in Loops : Dispatch(i) \/ RemoveSocket(i) \/ \E e \in batch[i] : MarkClosed(i, e)
  BY <1>1, <1>3, StoresKept
<1>4. ~\E f \in Fds, q \in Ptrs : Accept(f, q)
  BY AcceptEffect DEF Live
<1>5. ASSUME NEW f \in Fds, p = clientEventStores[f] PROVE p # newStore /\ store[p].fd = f
  BY <1>5 DEF Base, Ownership
<1>6. CASE InsertAndPost
  <2>1. newStore \in Ptrs /\ Live(newStore) /\ store[newStore].fd \in Fds
    BY <1>6, AcceptorStore, LiveStore DEF InsertAndPost, Base
  <2>2. store' = [q \in Ptrs |-> IF q = clientEventStores[store[newStore].fd] THEN Nil ELSE store[q]]
    BY <1>6 DEF InsertAndPost
  <2>3. p = clientEventStores[store[newStore].fd]
    BY <2>2 DEF Live
  <2>4. store'[newStore] # Nil
    BY <1>5, <2>1, <2>2, <2>3 DEF Live
  <2> QED
    BY <1>5, <1>6, <2>1, <2>3, <2>4
<1>7. ASSUME NEW i \in Loops, EraseSocket(i)
      PROVE  p # newStore /\ (Live(current[i]) => p = current[i])
  <2>1. newStore = Nil /\ current[i] \in Ptrs
    BY <1>7, Exclusion DEF EraseSocket
  <2>2. CASE Live(current[i])
    <3>1. current[i] \in Owned
      BY <2>1, <2>2 DEF Base, Ownership
    <3>2. clientEventStores[store[current[i]].fd] = current[i]
      BY <3>1 DEF Owned, Base, Ownership
    <3>3. store' = [q \in Ptrs |-> IF q = clientEventStores[store[current[i]].fd] THEN Nil ELSE store[q]]
      BY <1>7, <2>2 DEF EraseSocket
    <3> QED
      BY <2>1, <3>2, <3>3 DEF Live
  <2> QED
    BY <2>1, <2>2
<1>8. ASSUME NEW w \in Workers, TakeTask(w) PROVE UNCHANGED store
  BY <1>8 DEF TakeTask
<1> QED
  BY <1>1, <1>2, <1>3, <1>4, <1>6, <1>7, <1>8, HeapWriters DEF Live

LEMMA ListenerStep ==
  ASSUME [Next]_vars
  PROVE  \/ UNCHANGED listener
         \/ CreateServerSocketAndStartReceiving /\ listener' = "watched"
         \/ CloseServerSocket /\ (listener' = "closed" => ~Tls /\ backlog' = <<>>)
<1> USE DEF listening
<1>1. ASSUME NEW c \in Clients, Client(c) PROVE UNCHANGED listener
  BY <1>1 DEF Client, Connect, Send, PeerClose
<1>2. CASE CreateServerSocketAndStartReceiving
  BY <1>2 DEF CreateServerSocketAndStartReceiving
<1>3. CASE CloseServerSocket
  BY <1>3 DEF CloseServerSocket
<1>4. CASE CloseClients \/ AcceptorEvent \/ InitConnection \/ AddSocket
  BY <1>4 DEF CloseClients, AcceptorEvent, InitConnection, AddSocket
<1>5. ASSUME NEW f \in Fds, NEW p \in Ptrs, Accept(f, p) PROVE UNCHANGED listener
  BY <1>5 DEF Accept
<1>6. ASSUME NEW i \in Loops, EpollWait(i) \/ RemoveSocket(i) PROVE UNCHANGED listener
  BY <1>6, SMTT(20) DEF EpollWait, RemoveSocket
<1>7. ASSUME NEW w \in Workers, Read(w) PROVE UNCHANGED listener
  BY <1>7 DEF Read
<1> QED
  BY <1>1, <1>2, <1>3, <1>4, <1>5, <1>6, <1>7, NetWriters DEF netvars

LEMMA LeakInit == Init => LeakInv
<1> SUFFICES ASSUME Init PROVE LeakInv
  OBVIOUS
<1>1. /\ main = "created" /\ listener = "none" /\ \A f \in Fds : file[f] = Nil
      /\ \A i \in Loops : pc[i] = "off"
  BY Constants DEF Init, NetInit
<1> QED
  BY <1>1 DEF LeakInv, StopIsComplete

LEMMA LeakStep ==
  ASSUME IInv, IInv', StopInv, LeakInv, [Next]_vars
  PROVE  LeakInv'
<1> USE Constants
<1>0. Base /\ Base'
  BY DEF IInv
<1>1. ASSUME ~Tls, main' # "stopped", NEW f \in Fds, file'[f] # Nil
      PROVE  \E p \in Ptrs : Live(p)' /\ store'[p].fd = f
  <2>0. main # "stopped"
    BY <1>1, Stopped
  <2>1. ASSUME NEW p \in Ptrs, Accept(f, p) PROVE Live(p)' /\ store'[p].fd = f
    BY <1>0, <2>1, AcceptEffect
  <2>2. CASE file'[f] = file[f]
    <3>1. PICK p \in Ptrs : Live(p) /\ store[p].fd = f
      BY <1>1, <2>0, <2>2 DEF LeakInv
    <3>2. ASSUME NEW q \in Ptrs, Live(q), store[q].fd = f, Live(q)' PROVE store'[q].fd = f
      BY <1>0, <3>2, StoreStep DEF SameStore, Accept
    <3>3. CASE InsertAndPost /\ store[p].fd = store[newStore].fd /\ newStore \in Ptrs
               /\ Live(newStore) /\ store'[newStore] # Nil
      <4>1. PICK n \in Ptrs : n = newStore /\ Live(n) /\ Live(n)' /\ store[n].fd = f
        BY <3>1, <3>3 DEF Live
      <4> QED
        BY <3>2, <4>1
    <3>4. ASSUME NEW i \in Loops, EraseSocket(i), Live(current[i]) => p = current[i] PROVE FALSE
      <4>1. pc[i] = "erase" /\ Live(current[i])
        BY <1>0, <2>0, <3>4, Exclusion DEF EraseSocket, IInv, Tracked, HeldInv
      <4> QED
        BY <1>1, <2>0, <2>2, <3>1, <3>4, <4>1 DEF LeakInv
    <3>5. ~ClearClients
      BY <1>1 DEF ClearClients
    <3> QED
      BY <1>0, <3>1, <3>2, <3>3, <3>4, <3>5, Dying
  <2> QED
    BY <1>0, <1>1, <2>1, <2>2, FileStep
<1>2. ASSUME ~Tls, main' # "stopped", NEW i \in Loops, pc'[i] = "erase"
      PROVE  file'[store'[current'[i]].fd] = Nil
  <2>0. main # "stopped"
    BY <1>1, <1>2, Stopped
  <2>1. PICK p \in Ptrs : p = current'[i] /\ Live(p)'
    <3>1. current'[i] \in Ptrs /\ current'[i] \in Held(i)'
      BY <1>0, <1>2 DEF Base, ControlInv, TypeOK, ThreadTypeOK, Held
    <3> QED
      BY <1>2, <3>1 DEF IInv, Tracked, HeldInv, Live
  <2>2. \A S : AfterEvent(i, S) # "erase" /\ (AfterEvent(i, S))' # "erase"
    BY DEF AfterEvent
  <2>3. pc[i] \in {"remove", "erase"} /\ current[i] = p
    BY <1>0, <1>2, <2>1, <2>2, LoopStep DEF LoopMoves, RemoveSocket
  <2>4. Live(p) /\ store[p].loop = i /\ ~\E f \in Fds, q \in Ptrs : Accept(f, q)
    BY <1>0, <2>0, <2>3, Exclusion, AcceptAlone DEF IInv, Tracked, HeldInv
  <2>5. PICK f \in Fds : store[p].fd = f /\ store'[p].fd = f
    BY <1>0, <2>1, <2>4, BaseTypes, StoreStep DEF SameStore
  <2>6. CASE RemoveSocket(i)
    <3>1. CloseFds({f})
      BY <1>2, <2>3, <2>4, <2>5, <2>6 DEF RemoveSocket, Closable
    <3> QED
      BY <2>1, <2>5, <3>1 DEF CloseFds
  <2>7. CASE pc[i] = "erase"
    <3>1. file[f] = Nil
      BY <1>2, <2>0, <2>3, <2>5, <2>7 DEF LeakInv
    <3> QED
      BY <1>0, <2>1, <2>4, <2>5, <3>1, FileStep
  <2> QED
    BY <1>0, <1>2, <2>2, <2>6, <2>7, LoopStep DEF LoopMoves
<1>3. ASSUME ~Tls, main' = "clearClients", NEW f \in Fds PROVE file'[f] = Nil
  <2>1. CASE CloseClients
    <3>1. main = "closeClients" /\ newStore = Nil
      BY <1>0, <2>1 DEF CloseClients, LockStores, Base, ControlInv
    <3>2. CloseFds({store[p].fd : p \in {q \in Owned : Closable(q)}})
      BY <2>1 DEF CloseClients
    <3>3. ASSUME file[f] # Nil PROVE f \in {store[p].fd : p \in {q \in Owned : Closable(q)}}
      <4>1. PICK p \in Ptrs : Live(p) /\ store[p].fd = f
        BY <1>3, <3>1, <3>3 DEF LeakInv
      <4>2. p \in Owned /\ Closable(p)
        BY <1>0, <1>3, <3>1, <4>1 DEF Base, Ownership, Closable
      <4> QED
        BY <4>1, <4>2
    <3> QED
      BY <3>2, <3>3 DEF CloseFds
  <2>2. CASE main = "clearClients"
    <3>1. ~\E p \in Ptrs : Accept(f, p)
      BY <1>0, <2>2, AcceptAlone
    <3> QED
      BY <1>0, <1>3, <2>2, <3>1, FileStep DEF LeakInv
  <2> QED
    BY <1>3, <2>1, <2>2, MainStep DEF StopEventThread, ClearClients
<1>4. ASSUME listener' = "closed" PROVE ~Tls /\ backlog' = <<>>
  <2>1. CASE listener = "closed"
    <3>1. ~Tls /\ backlog = <<>>
      BY <2>1 DEF LeakInv
    <3> QED
      BY <2>1, <3>1, BacklogStep DEF Connect, Accept
  <2> QED
    BY <1>4, <2>1, ListenerStep
<1>5. StopIsComplete'
  <2> SUFFICES ASSUME main' = "stopped", listener' = "closed"
               PROVE  /\ \A p \in Ptrs : ~Live(p)'
                      /\ \A f \in Fds : file'[f] = Nil
    BY DEF StopIsComplete
  <2>1. CASE main = "stopped"
    <3>1. listener = "closed"
      BY <2>1, ListenerStep DEF CreateServerSocketAndStartReceiving, CloseServerSocket
    <3>2. ~\E f \in Fds, p \in Ptrs : Accept(f, p)
      BY <3>1 DEF LeakInv, Accept
    <3>3. \A p \in Ptrs : ~Live(p)'
      BY <1>0, <2>1, <3>1, <3>2, StoreStep DEF LeakInv, StopIsComplete, SameStore
    <3>4. \A f \in Fds : file'[f] = Nil
      BY <1>0, <2>1, <3>1, <3>2, FileStep DEF LeakInv, StopIsComplete
    <3> QED
      BY <3>3, <3>4
  <2>2. CASE ClearClients
    <3>1. file' = file /\ listener = "closed" /\ main = "clearClients"
      BY <2>2 DEF ClearClients, netvars, descriptors, listening
    <3>2. \A f \in Fds : file[f] = Nil
      BY <3>1 DEF LeakInv
    <3> QED
      BY <1>0, <2>2, <3>1, <3>2, HeapCleared
  <2> QED
    BY <2>1, <2>2, MainStep DEF StopEventThread, CloseClients
<1> QED
  BY <1>1, <1>2, <1>3, <1>4, <1>5 DEF LeakInv

-------------------------------------------------------------------------------
(* A step that posts, from the store it posts for.                          *)
LEMMA TasksEffect ==
  ASSUME Base, NEW p \in Ptrs, NEW kind \in Kinds, Posting(p, kind)
  PROVE  \E t \in Tasks : /\ t.ptr = p /\ t.conn = Conn(p) /\ t.kind = kind
                         /\ tasks' = Append(tasks, t)
<1>1. [ptr |-> p, conn |-> Conn(p), kind |-> kind] \in Tasks
  BY BaseTypes, Constants DEF Conn, Tasks
<1>2. tasks' = Append(tasks, [ptr |-> p, conn |-> Conn(p), kind |-> kind])
  BY DEF Posting, Post
<1> QED
  BY <1>1, <1>2

LEMMA PostedEffect ==
  ASSUME Base, NEW p \in Ptrs, NEW kind \in Kinds, Posting(p, kind), NEW c \in Clients
  PROVE  /\ c = Conn(p) => posted'[c] = posted[c] \cup {kind} /\ Live(p) /\ store[p].conn = c
         /\ c # Conn(p) => posted'[c] = posted[c]
<1>1. posted'[c] = IF c = Conn(p) THEN posted[c] \cup {kind} ELSE posted[c]
  BY DEF Posting, Post
<1>2. c = Conn(p) => Live(p) /\ store[p].conn = c
  BY Constants DEF Conn
<1> QED
  BY <1>1, <1>2

LEMMA PostedGrows ==
  ASSUME Base, [Next]_vars, NEW c \in Clients
  PROVE  posted[c] \subseteq posted'[c]
BY PostStep, PostedEffect

LEMMA PostInit == Init => PostInv
<1> SUFFICES ASSUME Init PROVE PostInv
  OBVIOUS
<1>1. /\ \A p \in Ptrs : ~Live(p)
      /\ \A i \in Loops : pc[i] = "off"
  BY Constants DEF Init, Live
<1> QED
  BY <1>1 DEF PostInv

LEMMA PostInvStep ==
  ASSUME IInv, IInv', OnceInv, PostInv, [Next]_vars
  PROVE  PostInv'
<1> USE Constants
<1>0. Base /\ Base'
  BY DEF IInv
<1>1. ASSUME NEW p \in Ptrs, Live(p)', p # newStore' PROVE "New" \in posted'[store'[p].conn]
  <2>1. SameStore(p)
    BY <1>0, <1>1, StoreStep, AcceptEffect
  <2>2. PICK c \in Clients : Live(p) /\ store[p].conn = c /\ store'[p].conn = c
    BY <1>0, <2>1, BaseTypes DEF SameStore
  <2>3. CASE p # newStore
    BY <1>0, <2>2, <2>3, PostedGrows DEF PostInv
  <2>4. CASE p = newStore
    <3>1. InsertAndPost
      BY <1>0, <1>1, <2>4, AcceptorStep, AcceptorAlone DEF AcceptorMoves
    <3>2. Posting(p, "New") /\ Conn(p) = c /\ "New" \in Kinds
      BY <2>2, <2>4, <3>1 DEF Posting, InsertAndPost, Conn, Kinds
    <3> QED
      BY <1>0, <2>2, <3>2, PostedEffect
  <2> QED
    BY <2>3, <2>4
<1>2. ASSUME NEW p \in Ptrs, Live(p)', "Closed" \in posted'[store'[p].conn]
      PROVE  \E i \in Loops : pc'[i] = "erase" /\ current'[i] = p
  <2>1. ASSUME NEW f \in Fds, Accept(f, p) PROVE FALSE
    <3>1. posted' = posted
      BY <2>1 DEF Accept, pool
    <3>2. store'[p].conn = backlog[1] /\ backlog[1] \in Clients /\ 1 \in 1..Len(backlog)
      BY <1>0, <2>1, AcceptEffect, BaseTypes
    <3> QED
      BY <1>2, <3>1, <3>2 DEF OnceInv, Untouched
  <2>2. SameStore(p)
    BY <1>0, <1>2, <2>1, StoreStep
  <2>3. PICK c \in Clients : Live(p) /\ store[p].conn = c /\ store'[p].conn = c
    BY <1>0, <2>2, BaseTypes DEF SameStore
  <2>4. CASE "Closed" \in posted[c]
    BY <1>0, <1>2, <2>3, <2>4, ErasedStep DEF PostInv
  <2>5. CASE "Closed" \notin posted[c]
    <3>1. PICK q \in Ptrs, kind \in Kinds : Posting(q, kind) /\ posted'[c] # posted[c]
      BY <1>0, <1>2, <2>3, <2>5, PostStep
    <3>2. kind = "Closed" /\ Live(q) /\ store[q].conn = c
      BY <1>0, <1>2, <2>3, <2>5, <3>1, PostedEffect
    <3>3. PICK i \in Loops : RemoveSocket(i) /\ current[i] = q
      BY <3>1, <3>2 DEF Posting
    <3>4. q = p
      BY <2>3, <3>2 DEF OnceInv
    <3>5. pc' = [pc EXCEPT ![i] = "erase"] /\ current' = current
      BY <3>3, Zenon DEF RemoveSocket, polling
    <3> QED
      BY <1>0, <3>3, <3>4, <3>5 DEF Base, TypeOK, ThreadTypeOK
  <2> QED
    BY <2>4, <2>5
<1>3. ASSUME main' # "stopped", NEW i \in Loops, pc'[i] = "erase"
      PROVE  "Closed" \in posted'[store'[current'[i]].conn]
  <2>0. main # "stopped"
    BY <1>3, Stopped
  <2>1. PICK p \in Ptrs : p = current'[i] /\ Live(p)'
    <3>1. current'[i] \in Ptrs /\ current'[i] \in Held(i)'
      BY <1>0, <1>3 DEF Base, ControlInv, TypeOK, ThreadTypeOK, Held
    <3> QED
      BY <1>3, <3>1 DEF IInv, Tracked, HeldInv, Live
  <2>2. \A S : AfterEvent(i, S) # "erase" /\ (AfterEvent(i, S))' # "erase"
    BY DEF AfterEvent
  <2>3. pc[i] \in {"remove", "erase"} /\ current[i] = p
    BY <1>0, <1>3, <2>1, <2>2, LoopStep DEF LoopMoves, RemoveSocket
  <2>4. Live(p) /\ ~\E f \in Fds, q \in Ptrs : Accept(f, q)
    BY <1>0, <2>0, <2>3, Exclusion, AcceptAlone DEF IInv, Tracked, HeldInv
  <2>5. PICK c \in Clients : store[p].conn = c /\ store'[p].conn = c
    BY <1>0, <2>1, <2>4, BaseTypes, StoreStep DEF SameStore
  <2>6. CASE RemoveSocket(i)
    <3>1. Posting(p, "Closed") /\ Conn(p) = c /\ "Closed" \in Kinds
      BY <2>3, <2>4, <2>5, <2>6, Zenon DEF Posting, RemoveSocket, Conn, Kinds
    <3> QED
      BY <1>0, <2>1, <2>5, <3>1, PostedEffect
  <2>7. CASE pc[i] = "erase"
    BY <1>0, <2>0, <2>1, <2>3, <2>5, <2>7, PostedGrows DEF PostInv
  <2> QED
    BY <1>0, <1>3, <2>2, <2>6, <2>7, LoopStep DEF LoopMoves
<1> QED
  BY <1>1, <1>2, <1>3 DEF PostInv

LEMMA PostOrder ==
  ASSUME Base, StopInv, PostInv, [Next]_vars, NEW c \in Clients, Appended(c)
  PROVE  "Closed" \notin posted[c] /\ ("Closed" \in posted'[c] => "New" \in posted[c])
<1> USE Constants
<1>1. PICK p \in Ptrs, kind \in Kinds : Posting(p, kind)
  <2>1. ASSUME NEW w \in Workers, TakeTask(w) PROVE FALSE
    <3>1. tasks' = Tail(tasks) /\ tasks # <<>>
      BY <2>1 DEF TakeTask
    <3>2. Len(tasks') = Len(tasks) - 1
      BY <3>1, BaseTypes
    <3>3. Len(tasks) \in Nat
      BY BaseTypes
    <3> QED
      BY <3>2, <3>3 DEF Appended
  <2>2. ~UNCHANGED tasks
    <3>1. Len(tasks) \in Nat
      BY BaseTypes
    <3> QED
      BY <3>1 DEF Appended
  <2> QED
    BY <2>1, <2>2, PostStep
<1>2. Conn(p) = c
  <2>1. PICK t \in Tasks : t.conn = Conn(p) /\ tasks' = Append(tasks, t)
    BY <1>1, TasksEffect
  <2>2. tasks'[Len(tasks')] = t
    BY <2>1, BaseTypes
  <2> QED
    BY <2>1, <2>2 DEF Appended
<1>3. Live(p) /\ store[p].conn = c /\ posted'[c] = posted[c] \cup {kind}
  BY <1>1, <1>2, PostedEffect
<1>4. ASSUME "Closed" \in posted[c] PROVE \E j \in Loops : pc[j] = "erase" /\ current[j] = p
  BY <1>3, <1>4 DEF PostInv
<1>5. CASE InsertAndPost /\ p = newStore /\ kind = "New"
  <2>1. newStore # Nil
    BY <1>5
  <2> QED
    BY <1>3, <1>4, <1>5, <2>1, AcceptorAlone
<1>6. ASSUME NEW i \in Loops, Dispatch(i), p = current[i], kind = "Data"
      PROVE  "Closed" \notin posted[c]
  <2>1. pc[i] = "dispatch"
    BY <1>6 DEF Dispatch
  <2> QED
    BY <1>4, <1>6, <2>1, OneHolder
<1>7. ASSUME NEW i \in Loops, RemoveSocket(i), p = current[i]
      PROVE  "Closed" \notin posted[c] /\ "New" \in posted[c]
  <2>1. pc[i] = "remove"
    BY <1>7 DEF RemoveSocket
  <2>2. newStore = Nil /\ \A j \in Loops : pc[j] # "erase"
    BY <2>1, Exclusion
  <2> QED
    BY <1>3, <1>4, <2>2 DEF PostInv
<1> QED
  BY <1>1, <1>3, <1>5, <1>6, <1>7 DEF Posting

-------------------------------------------------------------------------------
(* What a step does to one worker.                                          *)
WorkerMoves(w) ==
  \/ worker'[w] = worker[w]
  \/ worker'[w] = Idle
  \/ TakeTask(w) /\ worker'[w].pc = "Data" /\ worker'[w].task = Head(tasks)
  \/ /\ worker[w].pc # "idle" /\ worker'[w].task = worker[w].task
     /\ worker'[w].pc = "connectionClosedEvent" =>
          worker[w].pc = "Closed" /\ "Closed" \in EventTypes(worker[w].task.ptr)

LEMMA WorkerStep ==
  ASSUME Base, [Next]_vars, NEW w \in Workers
  PROVE  WorkerMoves(w)
<1> USE DEF WorkerMoves
<1>1. CASE UNCHANGED worker
  BY <1>1
<1>2. CASE Clientele \/ Terminate \/ UNCHANGED vars
  BY <1>2 DEF Clientele, Terminate, vars, servervars
<1>3. CASE MainThread
  BY <1>1, <1>2, <1>3, Zenon DEF MainThread, StartReceivingConnection,
     CreateServerSocketAndStartReceiving, CreateServerSocketError, SetEventReceiver, StopPolling,
     CloseServerSocket, StopEventThread, CloseClients, ClearClients
<1>4. CASE AcceptorThread
  BY <1>1, <1>4, Zenon DEF AcceptorThread, AcceptorEvent, HandleNewConnection, Accept, AcceptError,
     InitConnection, AddSocket, InsertAndPost, ExitPolling
<1>5. ASSUME NEW i \in Loops, EventLoop(i) PROVE WorkerMoves(w)
  BY <1>1, <1>2, <1>5, Zenon DEF EventLoop, EpollWait, HandleEvent, Dispatch, MarkClosed,
     RemoveSocket,
     EraseSocket, LoopFault, ExitPolling
<1>6. ASSUME NEW v \in Workers, WorkerThread(v) PROVE WorkerMoves(w)
  <2>0. worker \in [Workers -> [pc : WorkerStates, task : Tasks, size : Nat] \cup {Idle}]
    BY DEF Base, TypeOK, ThreadTypeOK
  <2>1. ASSUME NEW s, Take(v, s) PROVE (v = w /\ worker'[w] = s) \/ worker'[w] = worker[w]
    BY <2>0, <2>1 DEF Take
  <2>2. CASE TakeTask(v)
    <3>1. Take(v, [pc |-> "Data", task |-> Head(tasks), size |-> 0])
      BY <2>2 DEF TakeTask
    <3> QED
      BY <2>1, <2>2, <3>1
  <2>3. CASE HandleCallBackEvent(v)
    <3> DEFINE kind == worker[v].pc
    <3>1. kind \in Kinds
      BY <2>3 DEF HandleCallBackEvent
    <3>2. PICK type \in EventTypes(worker[v].task.ptr) :
            \/ UNCHANGED worker
            \/ Take(v, Idle)
            \/ type = kind /\ Take(v, [worker[v] EXCEPT !.pc = Callback[kind]])
            \/ kind # "Closed" /\ Take(v, [worker[v] EXCEPT !.pc = NextTest[kind]])
      BY <2>3, Zenon DEF HandleCallBackEvent
    <3>3. worker[v] \in [pc : WorkerStates, task : Tasks, size : Nat]
      BY <2>0, <3>1 DEF Idle, Kinds
    <3>4. \A s : [worker[v] EXCEPT !.pc = s].task = worker[v].task
                 /\ [worker[v] EXCEPT !.pc = s].pc = s
      BY <3>3
    <3>4a. kind # "idle"
      BY <3>1 DEF Kinds
    <3>5. CASE type = kind /\ Take(v, [worker[v] EXCEPT !.pc = Callback[kind]])
      <4>1. Callback[kind] = "connectionClosedEvent" => kind = "Closed"
        BY <3>1 DEF Callback, Kinds
      <4>2. \/ v = w /\ worker'[w] = [worker[v] EXCEPT !.pc = Callback[kind]]
            \/ worker'[w] = worker[w]
        BY <2>1, <3>5
      <4>3. CASE v = w /\ worker'[w] = [worker[v] EXCEPT !.pc = Callback[kind]]
        <5>1. worker'[w].task = worker[w].task /\ worker'[w].pc = Callback[kind]
          BY <3>4, <4>3
        <5> QED
          BY <3>2, <3>5, <3>4a, <4>1, <4>3, <5>1
      <4> QED
        BY <4>2, <4>3
    <3>6. CASE kind # "Closed" /\ Take(v, [worker[v] EXCEPT !.pc = NextTest[kind]])
      <4>1. NextTest[kind] # "connectionClosedEvent"
        BY <3>1, <3>6 DEF NextTest, Kinds
      <4>2. \/ v = w /\ worker'[w] = [worker[v] EXCEPT !.pc = NextTest[kind]]
            \/ worker'[w] = worker[w]
        BY <2>1, <3>6
      <4>3. CASE v = w /\ worker'[w] = [worker[v] EXCEPT !.pc = NextTest[kind]]
        <5>1. worker'[w].task = worker[w].task /\ worker'[w].pc = NextTest[kind]
          BY <3>4, <4>3
        <5> QED
          BY <3>4a, <4>1, <4>3, <5>1
      <4> QED
        BY <4>2, <4>3
    <3> QED
      BY <2>1, <3>2, <3>5, <3>6
  <2>4. CASE Return(v) \/ Read(v)
    <3>1. Take(v, Idle)
      BY <2>4, Zenon DEF Return, Read
    <3> QED
      BY <2>1, <3>1
  <2>5. CASE GetAvailable(v)
    <3>1. /\ worker[v].pc = "dataEvent"
          /\ Take(v, [worker[v] EXCEPT !.pc = "reading", !.size = Available(worker[v].task.ptr)])
      BY <2>5 DEF GetAvailable
    <3>2. worker[v] \in [pc : WorkerStates, task : Tasks, size : Nat]
      BY <2>0, <3>1 DEF Idle
    <3>3. \A n : LET s == [worker[v] EXCEPT !.pc = "reading", !.size = n]
                 IN  s.task = worker[v].task /\ s.pc = "reading"
      BY <3>2
    <3> QED
      BY <2>1, <3>1, <3>3
  <2>6. CASE ReceiveFault(v)
    BY <1>2, <2>6 DEF ReceiveFault
  <2> QED
    BY <1>6, <2>2, <2>3, <2>4, <2>5, <2>6 DEF WorkerThread
<1> QED
  BY <1>2, <1>3, <1>4, <1>5, <1>6 DEF Next

LEMMA PendingTypes ==
  ASSUME Base, NEW t \in Pending
  PROVE  t \in Tasks /\ t.ptr \in Ptrs /\ t.conn \in Clients \cup {Nil} /\ t.kind \in Kinds
<1>1. worker \in [Workers -> [pc : WorkerStates, task : Tasks, size : Nat] \cup {Idle}]
  BY DEF Base, TypeOK, ThreadTypeOK
<1>2. ASSUME NEW w \in Workers, worker[w].task # Nil PROVE worker[w].task \in Tasks
  BY <1>1, <1>2 DEF Idle
<1>3. \A k \in 1..Len(tasks) : tasks[k] \in Tasks
  BY BaseTypes
<1>4. t \in Tasks
  BY <1>2, <1>3 DEF Pending
<1> QED
  BY <1>4 DEF Tasks

(* A task that waits or is handled was so before, or is being posted.       *)
LEMMA PendingStep ==
  ASSUME Base, [Next]_vars, NEW t \in Pending'
  PROVE  t \in Pending \/ \E p \in Ptrs, kind \in Kinds :
                            Posting(p, kind) /\ t.ptr = p /\ t.conn = Conn(p)
<1>1. ASSUME NEW w \in Workers, TakeTask(w)
      PROVE  /\ Head(tasks) \in {tasks[k] : k \in 1..Len(tasks)}
             /\ \A k \in 1..Len(tasks') : tasks'[k] \in {tasks[l] : l \in 1..Len(tasks)}
  <2>1. tasks # <<>> /\ tasks' = Tail(tasks)
    BY <1>1 DEF TakeTask
  <2>2. Len(tasks) > 0 /\ Head(tasks) = tasks[1] /\ Len(tasks') = Len(tasks) - 1
    BY <2>1, BaseTypes
  <2>3. Len(tasks) \in Nat
    BY BaseTypes
  <2>4. \A k \in 1..Len(tasks') : tasks'[k] = tasks[k + 1] /\ k + 1 \in 1..Len(tasks)
    BY <2>1, <2>2, <2>3, BaseTypes
  <2>5. 1 \in 1..Len(tasks)
    BY <2>2, <2>3
  <2> QED
    BY <2>2, <2>4, <2>5
<1>2. CASE \E w \in Workers : worker'[w].task = t /\ t # Nil
  <2>1. PICK w \in Workers : worker'[w].task = t /\ t # Nil
    BY <1>2
  <2>2. WorkerMoves(w)
    BY WorkerStep
  <2> QED
    BY <1>1, <2>1, <2>2 DEF WorkerMoves, Idle, Pending
<1>3. CASE \E k \in 1..Len(tasks') : tasks'[k] = t
  <2>1. PICK k \in 1..Len(tasks') : tasks'[k] = t
    BY <1>3
  <2>2. CASE UNCHANGED tasks
    BY <2>1, <2>2 DEF Pending
  <2>3. ASSUME NEW w \in Workers, TakeTask(w) PROVE t \in Pending
    BY <1>1, <2>1, <2>3 DEF Pending
  <2>4. ASSUME NEW p \in Ptrs, NEW kind \in Kinds, Posting(p, kind)
        PROVE  t \in Pending \/ (t.ptr = p /\ t.conn = Conn(p))
    <3>1. PICK u \in Tasks : u.ptr = p /\ u.conn = Conn(p) /\ tasks' = Append(tasks, u)
      BY <2>4, TasksEffect
    <3>2. tasks'[k] = u \/ (k \in 1..Len(tasks) /\ tasks'[k] = tasks[k])
      BY <2>1, <3>1, BaseTypes
    <3> QED
      BY <2>1, <3>1, <3>2 DEF Pending
  <2> QED
    BY <2>2, <2>3, <2>4, PostStep
<1> QED
  BY <1>2, <1>3 DEF Pending

LEMMA TaskInit == Init => TaskInv
<1> SUFFICES ASSUME Init PROVE TaskInv
  OBVIOUS
<1>1. tasks = <<>> /\ \A w \in Workers : worker[w].task = Nil
  BY DEF Init, Idle
<1>2. Pending = {}
  BY <1>1 DEF Pending
<1> QED
  BY <1>2 DEF TaskInv, OpenConnectionTaskIsLive

(* What is never open again: a connection of which a task was posted.       *)
LEMMA StaysClosed ==
  ASSUME Base, OnceInv, [Next]_vars, NEW c \in Clients, posted[c] # {}, Open(c)'
  PROVE  Open(c)
<1>1. PICK f \in Fds : file'[f] = c
  BY DEF Open
<1>2. ASSUME NEW p \in Ptrs, Accept(f, p) PROVE FALSE
  <2>1. backlog[1] = c /\ 1 \in 1..Len(backlog)
    BY <1>1, <1>2, AcceptEffect, BaseTypes
  <2> QED
    BY <2>1 DEF OnceInv, Untouched
<1> QED
  BY <1>1, <1>2, Constants, FileStep DEF Open

LEMMA TaskStep ==
  ASSUME IInv, IInv', OnceInv, NumberInv, PostInv, TaskInv, [Next]_vars
  PROVE  TaskInv'
<1> USE Constants
<1>0. Base /\ Base'
  BY DEF IInv
<1> SUFFICES ASSUME main' # "stopped", NEW t \in Pending'
             PROVE  /\ t.conn # Nil /\ posted'[t.conn] # {}
                    /\ Open(t.conn)' /\ "Closed" \notin posted'[t.conn] =>
                         Live(t.ptr)' /\ Conn(t.ptr)' = t.conn
  BY DEF TaskInv, OpenConnectionTaskIsLive
<1>1. main # "stopped"
  BY Stopped
<1>2. ASSUME NEW i \in Loops, pc[i] \in {"dispatch", "remove", "erase"}
      PROVE  current[i] \in Ptrs /\ Live(current[i])
  BY <1>0, <1>1, <1>2, HeldTypes DEF Base, ControlInv, IInv, Tracked, HeldInv
<1>3. ASSUME NEW p \in Ptrs, NEW kind \in Kinds, Posting(p, kind), t.ptr = p, t.conn = Conn(p)
      PROVE  t.conn # Nil /\ posted'[t.conn] # {} /\ Live(p)' /\ Conn(p)' = t.conn
  <2>1. Live(p)
    BY <1>0, <1>2, <1>3, AcceptorStore DEF Posting, InsertAndPost, Dispatch, RemoveSocket
  <2>2. PICK c \in Clients : c = store[p].conn /\ Conn(p) = c
    BY <1>0, <2>1, BaseTypes DEF Conn
  <2>3. posted'[c] # {}
    BY <1>0, <1>3, <2>2, PostedEffect
  <2>4. Live(p)'
    <3>1. CASE InsertAndPost /\ p = newStore
      <4>1. ~ClearClients
        BY <1>0, <3>1, AcceptorAlone DEF ClearClients
      <4> QED
        BY <1>0, <2>1, <3>1, <4>1, Dying
    <3>2. CASE \E i \in Loops : Dispatch(i) \/ RemoveSocket(i)
      BY <1>0, <2>1, <3>2, StoresKept
    <3> QED
      BY <1>3, <3>1, <3>2 DEF Posting
  <2>5. store'[p].conn = c
    BY <1>0, <2>1, <2>2, <2>4, StoreStep DEF SameStore, Accept
  <2> QED
    BY <1>3, <2>2, <2>3, <2>4, <2>5 DEF Conn, Live
<1>4. ASSUME t \in Pending
      PROVE  /\ t.conn # Nil /\ posted'[t.conn] # {}
             /\ Open(t.conn)' /\ "Closed" \notin posted'[t.conn] =>
                  Live(t.ptr)' /\ Conn(t.ptr)' = t.conn
  <2>1. PICK c \in Clients, p \in Ptrs : c = t.conn /\ p = t.ptr /\ posted[c] # {}
    BY <1>0, <1>1, <1>4, PendingTypes DEF TaskInv
  <2>2. posted'[c] # {}
    BY <1>0, <2>1, PostedGrows
  <2>3. ASSUME Open(c)', "Closed" \notin posted'[c] PROVE Live(p)' /\ Conn(p)' = c
    <3>1. Open(c) /\ "Closed" \notin posted[c]
      BY <1>0, <2>1, <2>3, StaysClosed, PostedGrows
    <3>2. Live(p) /\ store[p].conn = c
      BY <1>1, <1>4, <2>1, <3>1 DEF TaskInv, OpenConnectionTaskIsLive, Conn
    <3>3. file[store[p].fd] = c
      BY <3>1, <3>2 DEF Open, OnceInv
    <3>4. ~ClearClients
      BY DEF ClearClients
    <3>5. ASSUME p # newStore, store[p].fd = store[newStore].fd, newStore \in Ptrs, Live(newStore)
          PROVE  FALSE
      <4>1. file[store[newStore].fd] = store[newStore].conn
        BY <3>3, <3>5 DEF NumberInv
      <4> QED
        BY <3>2, <3>3, <3>5, <4>1 DEF OnceInv
    <3>6. ASSUME NEW i \in Loops, EraseSocket(i), Live(current[i]) => p = current[i] PROVE FALSE
      <4>1. pc[i] = "erase" /\ Live(current[i])
        BY <1>2, <3>6 DEF EraseSocket
      <4> QED
        BY <1>1, <3>1, <3>2, <3>6, <4>1 DEF PostInv
    <3>7. Live(p)'
      BY <1>0, <3>2, <3>4, <3>5, <3>6, Dying
    <3>8. store'[p].conn = c
      BY <1>0, <3>2, <3>7, StoreStep DEF SameStore, Accept
    <3> QED
      BY <3>7, <3>8 DEF Conn, Live
  <2> QED
    BY <2>1, <2>2, <2>3
<1> QED
  BY <1>0, <1>3, <1>4, PendingStep

-------------------------------------------------------------------------------
LEMMA ClosedInit == Init => ClosedInv
<1> SUFFICES ASSUME Init PROVE ClosedInv
  OBVIOUS
<1>1. /\ \A i \in Loops, f \in Fds : ~MayReturn(i, f)
      /\ \A i \in Loops : batch[i] = {}
      /\ \A p \in Ptrs : ~Live(p)
      /\ \A c \in Clients : posted[c] = {}
      /\ \A w \in Workers : worker[w].pc = "idle"
  BY DEF Init, NetInit, MayReturn, Live, Idle
<1> QED
  BY <1>1 DEF ClosedInv, ClosedCallbackIsTrue

(* A peer that has closed does not come back.                               *)
LEMMA PeerStaysClosed ==
  ASSUME Base, [Next]_vars, NEW c \in Clients, peer[c] = "closed"
  PROVE  peer'[c] = "closed"
BY PeerStep DEF Connect

(* A loop that may still be given events might have been before.            *)
LEMMA MayReturnStep ==
  ASSUME Base, [Next]_vars, NEW i \in Loops, (m_continuePolling[i] \/ pc[i] = "poll")'
  PROVE  m_continuePolling[i] \/ pc[i] = "poll"
<1>1. m_continuePolling'[i] => m_continuePolling[i]
  <2>1. m_continuePolling \in [Threads -> BOOLEAN] /\ i \in Threads
    BY Constants DEF Base, TypeOK, ThreadTypeOK
  <2> QED
    BY <2>1, MainStep DEF StopEventThread, CloseClients, ClearClients, scheduler
<1>2. \A S : (AfterEvent(i, S) = "poll" => m_continuePolling[i])
  BY DEF AfterEvent
<1>3. pc'[i] = "poll" => m_continuePolling[i] \/ pc[i] = "poll"
  BY <1>2, LoopStep DEF LoopMoves, Base, ControlInv
<1> QED
  BY <1>1, <1>3

LEMMA ClosedStep ==
  ASSUME IInv, IInv', OnceInv, MarkedInv, NumberInv, PostInv, TaskInv, ClosedInv, [Next]_vars
  PROVE  ClosedInv'
<1> USE Constants
<1>0. Base /\ Base'
  BY DEF IInv
<1>1. ASSUME NEW p \in Ptrs, NEW c \in Clients, Live(p), Live(p)', store[p].conn = c
      PROVE  SameStore(p) /\ store'[p].conn = c
  BY <1>0, <1>1, StoreStep DEF SameStore, Accept
<1>2. ASSUME main' # "stopped", NEW i \in Loops, NEW f \in Fds, MayReturn(i, f)'
      PROVE  file'[f] = store'[interest'[i][f]].conn
  <2>0. main # "stopped"
    BY <1>2, Stopped
  <2>1. PICK q \in Ptrs : q = interest'[i][f] /\ Live(q)' /\ file'[f] # Nil
    <3>1. interest'[i][f] \in Ptrs
      BY <1>0, <1>2 DEF Base, TypeOK, NetTypeOK, MayReturn
    <3> QED
      BY <1>2, <3>1 DEF IInv, Tracked, InterestInv, Live
  <2>2. CASE interest[i][f] = q
    <3>1. MayReturn(i, f)
      BY <1>0, <1>2, <2>2, MayReturnStep DEF MayReturn
    <3>2. Live(q) /\ file[f] # Nil /\ file[f] = store[q].conn
      BY <2>0, <2>2, <3>1 DEF IInv, Tracked, InterestInv, ClosedInv
    <3>3. file'[f] = file[f]
      BY <1>0, <2>1, <3>2, FileStep DEF Accept
    <3> QED
      BY <1>0, <1>1, <2>1, <3>2, <3>3, BaseTypes
  <2>3. CASE AddSocket /\ f = store[newStore].fd /\ q = newStore /\ file[f] # Nil
    <3>1. Live(q) /\ file[f] = store[q].conn
      BY <1>0, <2>3, AcceptorStore DEF AddSocket, NumberInv
    <3>2. file' = file
      BY <2>3 DEF AddSocket
    <3> QED
      BY <1>0, <1>1, <2>1, <3>1, <3>2, BaseTypes
  <2> QED
    BY <1>0, <2>1, <2>2, <2>3, RegistrationStep
<1>3. ASSUME main' # "stopped", NEW i \in Loops, NEW e \in batch'[i], e.hup
      PROVE  peer'[store'[e.ptr].conn] = "closed"
  <2>0. main # "stopped"
    BY <1>3, Stopped
  <2>1. PICK p \in Ptrs : p = e.ptr /\ Live(p)'
    <3>1. e.ptr \in Ptrs /\ e.ptr \in Held(i)'
      BY <1>0, <1>3 DEF Base, TypeOK, ThreadTypeOK, Held
    <3> QED
      BY <1>3, <3>1 DEF IInv, Tracked, HeldInv, Live
  <2>2. CASE e \in batch[i]
    <3>1. Live(p) /\ peer[store[p].conn] = "closed"
      BY <1>0, <1>3, <2>0, <2>1, <2>2, HeldTypes DEF ClosedInv, IInv, Tracked, HeldInv
    <3> QED
      BY <1>0, <1>1, <2>1, <3>1, BaseTypes, PeerStaysClosed
  <2>3. CASE EpollWait(i) /\ e \in Events(i)
    <3>1. PICK f \in Fds : /\ file[f] # Nil /\ interest[i][f] # Nil /\ p = interest[i][f]
                           /\ peer[file[f]] = "closed"
      BY <1>0, <1>3, <2>1, <2>3, EventPtr
    <3>2. MayReturn(i, f)
      BY <2>3, <3>1 DEF EpollWait, MayReturn
    <3>3. Live(p) /\ file[f] = store[p].conn
      BY <2>0, <3>1, <3>2 DEF IInv, Tracked, InterestInv, ClosedInv
    <3> QED
      BY <1>0, <1>1, <2>1, <3>1, <3>3, BaseTypes, PeerStaysClosed
  <2> QED
    BY <1>0, <1>3, <2>2, <2>3, LoopStep DEF LoopMoves
<1>4. ASSUME main' # "stopped", NEW p \in Ptrs, Live(p)', store'[p].type = "Closed"
      PROVE  peer'[store'[p].conn] = "closed"
  <2>0. main # "stopped"
    BY <1>4, Stopped
  <2>1. SameStore(p)
    BY <1>0, <1>4, StoreStep, AcceptEffect
  <2>2. PICK c \in Clients : Live(p) /\ store[p].conn = c /\ store'[p].conn = c
    BY <1>0, <2>1, BaseTypes DEF SameStore
  <2>3. CASE store[p].type = "Closed"
    BY <1>0, <2>0, <2>2, <2>3, PeerStaysClosed DEF ClosedInv
  <2>4. ASSUME NEW i \in Loops, NEW e \in batch[i], MarkClosed(i, e), p = e.ptr
        PROVE  peer'[c] = "closed"
    <3>1. e.hup
      BY <2>4 DEF MarkClosed
    <3> QED
      BY <1>0, <2>0, <2>2, <2>4, <3>1, PeerStaysClosed DEF ClosedInv
  <2> QED
    BY <1>4, <2>1, <2>2, <2>3, <2>4 DEF SameStore
<1>5. ASSUME main # "stopped", NEW p \in Ptrs, NEW kind \in Kinds, Posting(p, kind)
      PROVE  Live(p) /\ (kind = "Closed" => peer[store[p].conn] = "closed")
  <2>1. ASSUME NEW i \in Loops, Dispatch(i) \/ RemoveSocket(i), p = current[i] PROVE Live(p)
    BY <1>0, <1>5, <2>1, HeldTypes DEF IInv, Tracked, HeldInv
  <2>2. ASSUME NEW i \in Loops, RemoveSocket(i), p = current[i] PROVE store[p].type = "Closed"
    BY <1>5, <2>2 DEF RemoveSocket, MarkedInv
  <2> QED
    BY <1>0, <1>5, <2>1, <2>2, AcceptorStore DEF Posting, InsertAndPost, ClosedInv
<1>6. ASSUME main' # "stopped", NEW c \in Clients, "Closed" \in posted'[c] PROVE peer'[c] = "closed"
  <2>0. main # "stopped"
    BY <1>6, Stopped
  <2>1. ASSUME NEW p \in Ptrs, NEW kind \in Kinds, Posting(p, kind), "Closed" \notin posted[c]
        PROVE  peer[c] = "closed"
    BY <1>0, <1>5, <1>6, <2>0, <2>1, PostedEffect
  <2> QED
    BY <1>0, <1>6, <2>0, <2>1, PostStep, PeerStaysClosed DEF ClosedInv
<1>7. main' \notin {"clearClients", "stopped"} => main \notin {"clearClients", "stopped"}
  BY Stopped, MainStep DEF StopEventThread, CloseClients, ClearClients
<1>8. ASSUME ~Tls, main' \notin {"clearClients", "stopped"}, NEW c \in Clients,
             posted'[c] # {}, ~Open(c)'
      PROVE  "Closed" \in posted'[c]
  <2>1. CASE Open(c)
    <3>1. PICK f \in Fds : file[f] = c /\ file'[f] # c
      BY <1>8, <2>1 DEF Open
    <3>2. ~CloseClients
      BY <1>8 DEF CloseClients
    <3>3. PICK i \in Loops : /\ RemoveSocket(i) /\ Live(current[i]) /\ Closable(current[i])
                             /\ f = store[current[i]].fd
      BY <1>0, <1>8, <3>1, <3>2, FileStep DEF Closing, Accept
    <3>4. PICK p \in Ptrs : p = current[i]
      BY <1>0, <3>3, Exclusion DEF RemoveSocket
    <3>5. store[p].conn = c
      BY <3>1, <3>3, <3>4 DEF NumberInv
    <3>6. Posting(p, "Closed") /\ Conn(p) = c /\ "Closed" \in Kinds
      BY <3>3, <3>4, <3>5, Zenon DEF Posting, RemoveSocket, Conn, Kinds
    <3> QED
      BY <1>0, <3>6, PostedEffect
  <2>2. CASE ~Open(c) /\ posted[c] # {}
    BY <1>0, <1>7, <1>8, <2>2, PostedGrows DEF ClosedInv
  <2>3. CASE ~Open(c) /\ posted[c] = {}
    <3>1. PICK p \in Ptrs, kind \in Kinds : Posting(p, kind) /\ c = Conn(p)
      BY <1>0, <1>8, <2>3, PostStep, PostedEffect
    <3>2. Live(p) /\ store[p].conn = c /\ store[p].fd \in Fds
      BY <1>0, <3>1, PostedEffect, BaseTypes
    <3>3. Erased(p)
      BY <1>7, <1>8, <2>3, <3>2 DEF NumberInv, Closable, Open
    <3> QED
      BY <2>3, <3>2, <3>3 DEF Erased, PostInv
  <2> QED
    BY <2>1, <2>2, <2>3
<1>9. ClosedCallbackIsTrue'
  <2> SUFFICES ASSUME main' \notin {"clearClients", "stopped"}, NEW w \in Workers,
                      worker'[w].pc = "connectionClosedEvent", NEW d, d = worker'[w].task.conn
               PROVE  d # Nil /\ (peer'[d] = "closed" \/ (Tls /\ ~Open(d)'))
    BY DEF ClosedCallbackIsTrue
  <2>0. main \notin {"clearClients", "stopped"}
    BY <1>7
  <2>1. worker'[w].task = worker[w].task /\ worker[w].pc # "idle"
    BY <1>0, WorkerStep DEF WorkerMoves, Idle
  <2>2. PICK t \in Pending : t = worker[w].task
    <3>1. worker[w] \in [pc : WorkerStates, task : Tasks, size : Nat]
      BY <1>0, <2>1 DEF Base, TypeOK, ThreadTypeOK, Idle
    <3>2. worker[w].task # Nil
      BY <3>1
    <3> QED
      BY <3>2 DEF Pending
  <2>3. PICK c \in Clients, p \in Ptrs : t.conn = c /\ t.ptr = p /\ posted[c] # {}
    BY <1>0, <2>0, PendingTypes DEF TaskInv
  <2>4. peer[c] = "closed" \/ (Tls /\ ~Open(c))
    <3>1. CASE worker[w].pc = "connectionClosedEvent"
      BY <2>0, <2>2, <2>3, <3>1 DEF ClosedInv, ClosedCallbackIsTrue
    <3>2. CASE "Closed" \in EventTypes(p)
      <4>1. "Closed" \in posted[c] => peer[c] = "closed"
        BY <2>0 DEF ClosedInv
      <4>2. CASE Live(p) /\ store[p].conn = c
        BY <2>0, <3>2, <4>2 DEF EventTypes, ClosedInv
      <4>3. CASE ~(Live(p) /\ store[p].conn = c)
        <5>1. ~Open(c) \/ "Closed" \in posted[c]
          BY <2>0, <2>3, <4>3 DEF TaskInv, OpenConnectionTaskIsLive, Conn
        <5>2. ~Tls /\ ~Open(c) => "Closed" \in posted[c]
          BY <2>0, <2>3 DEF ClosedInv
        <5> QED
          BY <4>1, <5>1, <5>2
      <4> QED
        BY <4>2, <4>3
    <3> QED
      BY <1>0, <2>2, <2>3, <3>1, <3>2, WorkerStep DEF WorkerMoves, Idle
  <2>5. d = c
    BY <2>1, <2>2, <2>3
  <2> QED
    BY <1>0, <2>3, <2>4, <2>5, PeerStaysClosed, StaysClosed
<1> QED
  BY <1>2, <1>3, <1>4, <1>6, <1>8, <1>9 DEF ClosedInv

-------------------------------------------------------------------------------
LEMMA TasksAlways == Spec => [](IInv /\ TInv)
<1>1. Init => TInv
  BY OnceInit, StopInit, MarkedInit, NumberInit, LeakInit, PostInit, TaskInit, ClosedInit DEF TInv
<1>2. TInv /\ IInv /\ IInv' /\ [Next]_vars => TInv'
  <2> SUFFICES ASSUME TInv, IInv, IInv', Base, [Next]_vars PROVE TInv'
    BY DEF IInv
  <2>1. OnceInv' /\ StopInv' /\ MarkedInv' /\ NumberInv'
    BY OnceStep, StopStep, MarkedStep, NumberStep DEF TInv
  <2>2. LeakInv' /\ PostInv' /\ TaskInv' /\ ClosedInv'
    BY LeakStep, PostInvStep, TaskStep, ClosedStep DEF TInv
  <2> QED
    BY <2>1, <2>2 DEF TInv
<1> QED
  BY <1>1, <1>2, TrackedAlways, PTL DEF Spec

(* closeConnection and receiveData never work on a descriptor number that   *)
(* has been given to another connection.                                    *)
THEOREM OwnNumber == Spec => []OwnDescriptor
<1>1. TInv => OwnDescriptor
  <2> SUFFICES ASSUME TInv, NEW p \in Ptrs, Live(p), Closable(p)
               PROVE  \/ file[store[p].fd] = store[p].conn
                      \/ /\ file[store[p].fd] = Nil
                         /\ store[p].type = "Closed" \/ main = "clearClients"
    BY DEF OwnDescriptor
  <2>1. Erased(p) => store[p].type = "Closed"
    BY DEF TInv, MarkedInv, Erased
  <2> QED
    BY <2>1 DEF TInv, NumberInv
<1> QED
  BY <1>1, TasksAlways, PTL

(* For each connection the task of its closing is posted last and never     *)
(* before that of its arrival, even by loops that outlive stopPolling.      *)
THEOREM ClosingLast == Spec => ClosedPostedLast
<1>1. IInv /\ TInv /\ [Next]_vars =>
        [\A c \in Clients :
           Appended(c) => /\ "Closed" \notin posted[c]
                          /\ "Closed" \in posted'[c] => "New" \in posted[c]]_vars
  BY PostOrder DEF IInv, TInv
<1> QED
  BY <1>1, TasksAlways, PTL DEF Spec, ClosedPostedLast

(* Once stopPolling has returned with the listener closed, no store and no  *)
(* descriptor of a client is left.  Vacuous under TLS, which never closes it.*)
THEOREM NothingLeft == Spec => []StopIsComplete
<1>1. TInv => StopIsComplete
  BY DEF TInv, LeakInv
<1> QED
  BY <1>1, TasksAlways, PTL

(* The pointer in a task of an open connection is that of its own store.    *)
THEOREM TasksPoint == Spec => []OpenConnectionTaskIsLive
<1>1. TInv => OpenConnectionTaskIsLive
  BY DEF TInv, TaskInv
<1> QED
  BY <1>1, TasksAlways, PTL

(* connectionClosedEvent tells the truth, although workers read m_eventType *)
(* without a mutex through pointers that may be stale.                      *)
THEOREM ClosingTrue == Spec => []ClosedCallbackIsTrue
<1>1. TInv => ClosedCallbackIsTrue
  BY DEF TInv, ClosedInv
<1> QED
  BY <1>1, TasksAlways, PTL
===============================================================================
