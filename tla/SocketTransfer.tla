---------------------------- MODULE SocketTransfer ----------------------------
(***************************************************************************)
(* The data of one connection: TCPServerSocketHandler and                  *)
(* TLSServerSocketHandler, called through the connection's                 *)
(* EventStorePointer by the workers that run its callbacks, while the peer *)
(* sends, reads, leaves or resets and the thread that removes the          *)
(* connection closes it.  TcpServerSocket says how long the store lives;   *)
(* here it outlives the calls.  Bytes are numbered in the order they were  *)
(* sent; EINTR, after which a call is repeated, is a stuttering step.  The *)
(* units of what goes out are bytes under TCP and records under TLS.       *)
(***************************************************************************)
EXTENDS Integers, Sequences, FiniteSets, FiniteSetsExt

CONSTANTS
  Workers,
  Handlers,     \* the handlers the server may have been given: "Tcp", "Tls"
  MaxBytes,     \* bound on what the peer sends
  MaxRecord,    \* bytes of one send() or TLS record of the peer
  BufferSize,   \* of one SSL_read
  IntRange,     \* 2^32: an int is a ssize_t modulo it
  Messages, Length,   \* what the application sends, and the units of each
  Capacity,     \* of the send buffer
  MaxCalls,     \* bound on the calls no data event asked for
  Nil

ASSUME TransferAssumption ==
  /\ Handlers \subseteq {"Tcp", "Tls"}
  /\ MaxBytes \in Nat /\ MaxRecord \in Nat /\ MaxCalls \in Nat /\ Capacity \in Nat
  /\ BufferSize \in Nat \ {0} /\ Length \in Nat \ {0}
  /\ IntRange \in Nat /\ IntRange > MaxBytes
  /\ Nil \notin Workers \cup Messages \cup {"session", "remover"}
  /\ Nil \notin [msg : Messages, sent : 0..Length] /\ "remover" \notin Workers

VARIABLES
  handler,         \* m_socketOperationHandler
  m_SSL,           \* "session", or Nil; always Nil under TCP
  m_socketMutex,   \* its holder: a worker, "remover", or Nil
  descriptor,      \* "open" or "closed"
  peer,            \* "open", "notified" (close_notify, FIN), "closed" (FIN), "reset"
  arrived,         \* bytes the peer has sent
  recordEnds,      \* the last byte of each of its records
  taken,           \* bytes that read() or SSL_read have returned
  edge, events,    \* the pending edge, and the data tasks in the pool
  wire, drained,   \* what was sent to the peer; how much of it left the buffer
  pendingWrite,    \* where SSL_write has stopped, and whose the next record is
  worker,          \* the call each worker is in
  remover,         \* where closeConnection is
  calls,
  delivered,       \* history: what receiveData appended to its callers' data
  lost,            \* history: what was read and thrown away
  cuts,            \* history: where on the wire a sendData gave up half-way
  unguarded,       \* history: TCP's receivePartialData was called directly
  process

connection == <<handler, m_SSL, descriptor>>
incoming == <<peer, arrived, recordEnds>>
epoll == <<edge, events>>
outgoing == <<wire, drained, pendingWrite, cuts>>
received == <<taken, delivered, lost>>
rest == <<remover, calls, unguarded, process>>
vars == <<connection, m_socketMutex, incoming, epoll, outgoing, received, worker, rest>>

Tls == handler = "Tls"

Idle == [pc |-> "idle", call |-> "none", size |-> 0, got |-> <<>>, msg |-> Nil, sent |-> 0]

Init ==
  /\ handler \in Handlers
  /\ m_SSL \in IF Tls THEN {"session", Nil} ELSE {Nil}
  /\ m_socketMutex = Nil
  /\ descriptor = "open"
  /\ peer = "open"
  /\ arrived = 0 /\ recordEnds = {} /\ taken = 0
  /\ edge = FALSE /\ events = 0
  /\ wire = <<>> /\ drained = 0 /\ pendingWrite = Nil
  /\ worker = [w \in Workers |-> Idle]
  /\ remover = "none"
  /\ calls = 0
  /\ delivered = <<>> /\ lost = {} /\ cuts = {}
  /\ unguarded = FALSE
  /\ process = "up"

Terminate == process' = "terminated"

-------------------------------------------------------------------------------
(* The peer, and the event loop that turns an edge into a data task         *)

PeerSend ==
  /\ peer = "open"
  /\ descriptor = "open"
  /\ \E n \in 1..MaxRecord :
       /\ arrived + n <= MaxBytes
       /\ arrived' = arrived + n
       /\ recordEnds' = recordEnds \cup {arrived'}
  /\ edge' = TRUE
  /\ UNCHANGED <<connection, m_socketMutex, peer, events, outgoing, received, worker, rest>>

PeerLeave ==
  /\ \/ /\ peer = "open"
        /\ peer' \in IF Tls THEN {"notified", "closed"} ELSE {"closed"}
     \/ /\ peer # "reset"
        /\ peer' = "reset"
  /\ UNCHANGED <<connection, m_socketMutex, arrived, recordEnds, epoll, outgoing, received,
                 worker, rest>>

PeerReceive ==
  /\ peer # "reset"
  /\ drained < Len(wire)
  /\ drained' = drained + 1
  /\ UNCHANGED <<connection, m_socketMutex, incoming, epoll, wire, pendingWrite, cuts,
                 received, worker, rest>>

(* handleEvent posts a task; with EPOLLRDHUP the loop removes instead.      *)
DataEvent ==
  /\ edge
  /\ edge' = FALSE
  /\ events' = IF peer = "open" /\ descriptor = "open" THEN events + 1 ELSE events
  /\ UNCHANGED <<connection, m_socketMutex, incoming, outgoing, received, worker, rest>>

-------------------------------------------------------------------------------
(* The calls of the workers *)

Enter(w, state) == worker' = [worker EXCEPT ![w] = state]

(* Every operation of the TLS handler returns -1 at once without a session. *)
(* All of them lock, but for receivePartialData under TCP.                  *)
Call(w, call, size, msg) ==
  /\ worker[w].pc = "idle"
  /\ Enter(w, IF Tls /\ m_SSL = Nil THEN Idle
              ELSE [Idle EXCEPT !.pc = IF ~Tls /\ call = "receivePartialData" THEN "read" ELSE "lock",
                                !.call = call, !.size = size, !.msg = msg])

(* dataEvent of the application, for a task of the pool.                    *)
CallReceiveData(w) ==
  /\ events > 0
  /\ events' = events - 1
  /\ Call(w, "receiveData", 0, Nil)
  /\ UNCHANGED <<connection, m_socketMutex, incoming, edge, outgoing, received, rest>>

(* Its dataSize is any int; -1 stands for the negative ones, of which TCP   *)
(* makes the size of a vector, which throws.                                *)
CallReceivePartialData(w) ==
  /\ calls < MaxCalls
  /\ calls' = calls + 1
  /\ \/ /\ \E size \in (-1)..MaxBytes :
             (Tls \/ size >= 0) /\ Call(w, "receivePartialData", size, Nil)
        /\ UNCHANGED process
     \/ /\ worker[w].pc = "idle"
        /\ ~Tls
        /\ Terminate
        /\ UNCHANGED worker
  /\ unguarded' = (unguarded \/ ~Tls)
  /\ UNCHANGED <<connection, m_socketMutex, incoming, epoll, outgoing, received, remover>>

CallSendData(w) ==
  /\ calls < MaxCalls
  /\ calls' = calls + 1
  /\ \E msg \in Messages : Call(w, "sendData", 0, msg)
  /\ UNCHANGED <<connection, m_socketMutex, incoming, epoll, outgoing, received, remover,
                 unguarded, process>>

(* A lock_guard that is a temporary, and unlocks at once.                   *)
MutantTakeMutex(t) == m_socketMutex = Nil /\ UNCHANGED m_socketMutex

TakeMutex(t) == m_socketMutex = Nil /\ m_socketMutex' = t

NextPc(call) ==
  CASE call = "sendData" -> "send"
    [] call = "receiveData" /\ ~Tls -> "available"
    [] OTHER -> "read"

(* Only the receiving calls lock.                                           *)
MutantLock(w) ==
  /\ worker[w].pc = "lock"
  /\ IF worker[w].call = "sendData" THEN UNCHANGED m_socketMutex ELSE TakeMutex(w)
  /\ Enter(w, [worker[w] EXCEPT !.pc = NextPc(worker[w].call)])
  /\ UNCHANGED <<connection, incoming, epoll, outgoing, received, rest>>

Lock(w) ==
  /\ worker[w].pc = "lock"
  /\ TakeMutex(w)
  /\ Enter(w, [worker[w] EXCEPT !.pc = NextPc(worker[w].call)])
  /\ UNCHANGED <<connection, incoming, epoll, outgoing, received, rest>>

(* The end of a call: its lock_guard, if it has one, unlocks.               *)
Return(w) ==
  /\ Enter(w, Idle)
  /\ m_socketMutex' = IF m_socketMutex = w THEN Nil ELSE m_socketMutex

Deliver(w, bytes) ==
  /\ Return(w)
  /\ delivered' = delivered \o bytes
  /\ UNCHANGED lost

(* return -1: receivedData, or buffer, goes with its frame.                 *)
Discard(w, bytes) ==
  /\ Return(w)
  /\ lost' = lost \cup {bytes[k] : k \in 1..Len(bytes)}
  /\ UNCHANGED delivered

-------------------------------------------------------------------------------
(* Receiving *)

(* FIONREAD writes the int at the address of an uninitialised ssize_t.      *)
BytesAvailable(garbage) == garbage * IntRange + (arrived - taken)

(* ... as the size_t it is called with.                                     *)
MutantToInt(x) == x

(* The argument of receivePartialData is an int.                            *)
ToInt(x) == x % IntRange

GetAvailable(w) ==
  /\ worker[w].pc = "available"
  /\ descriptor = "open"
  /\ \E garbage \in {0, 1} :
       LET size == ToInt(BytesAvailable(garbage))
       IN  IF size = 0 THEN Deliver(w, <<>>)
           ELSE /\ Enter(w, [worker[w] EXCEPT !.pc = "read", !.size = size])
                /\ UNCHANGED <<m_socketMutex, delivered, lost>>
  /\ UNCHANGED <<connection, incoming, epoll, outgoing, taken, rest>>

(* On a closed descriptor it is -1, and a vector of that size throws.       *)
GetAvailableFails(w) ==
  /\ worker[w].pc = "available"
  /\ descriptor = "closed"
  /\ Terminate
  /\ UNCHANGED <<connection, m_socketMutex, incoming, epoll, outgoing, received, worker,
                 remover, calls, unguarded>>

Smaller(a, b) == IF a < b THEN a ELSE b

(* The size of the buffer of the next read() or SSL_read.                   *)
Wanted(w) ==
  LET left == worker[w].size - Len(worker[w].got)
  IN  CASE ~Tls -> left
        [] Tls /\ worker[w].call = "receiveData" -> BufferSize
        [] OTHER -> Smaller(left, BufferSize)

(* read() returns what it likes of the stream; SSL_read never more than the *)
(* rest of the record it is in.                                             *)
ReadSizes(w) ==
  IF Tls THEN {Smaller(Wanted(w), Min({e \in recordEnds : e > taken}) - taken)}
         ELSE 1..Smaller(Wanted(w), arrived - taken)

(* One read() where the loop of TCP makes as many as it needs.              *)
MutantEnough(w, n, total) == total >= 1

(* The loops end when there is enough, under TLS also after a short read.   *)
Enough(w, n, total) ==
  \/ total = worker[w].size
  \/ Tls /\ n < Wanted(w)

Reading(w) ==
  worker[w].pc = "read" /\ (worker[w].call = "receiveData" \/ worker[w].size > 0)

(* When receivePartialData is asked for nothing, or less, its loop is over  *)
(* before it has begun.                                                     *)
NothingAsked(w) ==
  /\ worker[w].pc = "read"
  /\ ~Reading(w)
  /\ Deliver(w, worker[w].got)
  /\ UNCHANGED <<connection, incoming, epoll, outgoing, taken, rest>>

Read(w) ==
  /\ Reading(w)
  /\ descriptor = "open"
  /\ arrived > taken
  /\ \E n \in ReadSizes(w) :
       LET got == worker[w].got \o [k \in 1..n |-> taken + k]
       IN  /\ taken' = taken + n
           /\ IF Enough(w, n, Len(got)) THEN Deliver(w, got)
              ELSE /\ Enter(w, [worker[w] EXCEPT !.got = got])
                   /\ UNCHANGED <<m_socketMutex, delivered, lost>>
  /\ UNCHANGED <<connection, incoming, epoll, outgoing, rest>>

(* Nothing is there: EAGAIN, WANT_READ, the end of the stream or an error.  *)
(* A TLS peer that leaves without close_notify is an error, and what the    *)
(* call has read so far is dropped with it.                                 *)
ReadNothing(w) ==
  /\ Reading(w)
  /\ descriptor = "open"
  /\ arrived = taken
  /\ \/ /\ ~Tls \/ peer \in {"open", "notified"}
        /\ Deliver(w, worker[w].got)
     \/ /\ peer = "reset" \/ (Tls /\ peer = "closed")
        /\ Discard(w, worker[w].got)
  /\ UNCHANGED <<connection, incoming, epoll, outgoing, taken, rest>>

(* read() fails on a closed descriptor.  A worker that waited for the mutex *)
(* while closeConnection had it comes to SSL_read or SSL_write with null.   *)
ClosedMeanwhile(w) ==
  /\ Reading(w) \/ (Tls /\ worker[w].pc = "send")
  /\ descriptor = "closed"
  /\ \/ /\ Discard(w, worker[w].got)
        /\ UNCHANGED process
     \/ /\ Tls
        /\ Terminate
        /\ UNCHANGED <<m_socketMutex, worker, delivered, lost>>
  /\ UNCHANGED <<connection, incoming, epoll, outgoing, taken, remover, calls, unguarded>>

-------------------------------------------------------------------------------
(* Sending *)

Room == Capacity - (Len(wire) - drained)

Units(msg, first, last) == [k \in 1..(last - first + 1) |-> <<msg, first + k - 1>>]

(* The loop of TCP around send(), which takes what there is room for.       *)
Send(w) ==
  LET sent == worker[w].sent
  IN  /\ worker[w].pc = "send"
      /\ ~Tls
      /\ descriptor = "open"
      /\ peer # "reset"
      /\ \E n \in 1..Smaller(Room, Length - sent) :
           /\ wire' = wire \o Units(worker[w].msg, sent + 1, sent + n)
           /\ IF sent + n = Length THEN Return(w)
              ELSE Enter(w, [worker[w] EXCEPT !.sent = sent + n]) /\ UNCHANGED m_socketMutex
      /\ UNCHANGED <<connection, incoming, epoll, received, drained, pendingWrite, cuts, rest>>

(* EAGAIN repeated like EINTR.                                              *)
MutantSendFails(w) ==
  /\ worker[w].pc = "send"
  /\ ~Tls
  /\ peer = "reset" \/ descriptor = "closed"
  /\ Return(w)
  /\ UNCHANGED <<connection, incoming, epoll, received, outgoing, rest>>

(* EAGAIN, ECONNRESET or EBADF: -1, whatever part of the data has gone out. *)
SendFails(w) ==
  /\ worker[w].pc = "send"
  /\ ~Tls
  /\ Room = 0 \/ peer = "reset" \/ descriptor = "closed"
  /\ cuts' = IF worker[w].sent > 0 THEN cuts \cup {Len(wire)} ELSE cuts
  /\ Return(w)
  /\ UNCHANGED <<connection, incoming, epoll, received, wire, drained, pendingWrite, rest>>

(* One SSL_write.  If it cannot finish, the session keeps its place in the  *)
(* message and the record it has encrypted last, and a call refused with    *)
(* WANT_WRITE has to be repeated.  All that is compared of the repetition is*)
(* the address and the length of its data, never the contents: another      *)
(* message, or a copy of the same one, is refused, or is gone on with from  *)
(* where the one before it stopped if it lies at the same address.          *)
SslWrite(w) ==
  LET msg == worker[w].msg
      begun == IF pendingWrite = Nil THEN [msg |-> msg, sent |-> 0] ELSE pendingWrite
      n == Smaller(Room, Length - begun.sent)
  IN  /\ worker[w].pc = "send"
      /\ Tls
      /\ descriptor = "open"
      /\ peer # "reset"
      /\ \/ /\ pendingWrite # Nil
            /\ UNCHANGED <<wire, pendingWrite>>
         \/ /\ wire' = wire \o [k \in 1..n |-> <<IF k = 1 THEN begun.msg ELSE msg, begun.sent + k>>]
            /\ pendingWrite' = IF begun.sent + n = Length THEN Nil
                               ELSE [msg |-> IF n = 0 THEN begun.msg ELSE msg,
                                     sent |-> begun.sent + n]
      /\ Return(w)
      /\ UNCHANGED <<connection, incoming, epoll, received, drained, cuts, rest>>

(* A write to a connection the peer has reset fails, or raises SIGPIPE,     *)
(* which nobody handles.  closeConnection writes too: SSL_shutdown.         *)
WriteToReset(w) ==
  /\ worker[w].pc = "send"
  /\ descriptor = "open"
  /\ peer = "reset"
  /\ \/ /\ Tls
        /\ Return(w)
        /\ UNCHANGED process
     \/ /\ Terminate
        /\ UNCHANGED <<m_socketMutex, worker>>
  /\ UNCHANGED <<connection, incoming, epoll, received, outgoing, remover, calls, unguarded>>

(* What a worker does of itself, and what the application may ask of it.    *)
Proceed(w) ==
  \/ CallReceiveData(w) \/ Lock(w) \/ GetAvailable(w) \/ GetAvailableFails(w)
  \/ NothingAsked(w) \/ Read(w) \/ ReadNothing(w) \/ ClosedMeanwhile(w)
  \/ Send(w) \/ SendFails(w) \/ SslWrite(w) \/ WriteToReset(w)

Worker(w) == CallReceivePartialData(w) \/ CallSendData(w) \/ Proceed(w)

-------------------------------------------------------------------------------
(* closeConnection, by removeSocket or closeAllClientSocket                 *)

(* TCP closes at once; TLS looks for a session first and takes the mutex.   *)
CloseConnection ==
  /\ remover = "none"
  /\ remover' = IF Tls /\ m_SSL # Nil THEN "lock" ELSE "done"
  /\ descriptor' = IF Tls THEN descriptor ELSE "closed"
  /\ UNCHANGED <<handler, m_SSL, m_socketMutex, incoming, epoll, outgoing, received, worker,
                 calls, unguarded, process>>

(* closeConnection without a look at m_socketMutex.                         *)
MutantLockToClose ==
  /\ remover = "lock"
  /\ remover' = "shutdown"
  /\ UNCHANGED <<connection, m_socketMutex, incoming, epoll, outgoing, received, worker,
                 calls, unguarded, process>>

LockToClose ==
  /\ remover = "lock"
  /\ TakeMutex("remover")
  /\ remover' = "shutdown"
  /\ UNCHANGED <<connection, incoming, epoll, outgoing, received, worker, calls, unguarded,
                 process>>

(* SSL_shutdown, close, SSL_free.                                           *)
CloseSession ==
  /\ remover = "shutdown"
  /\ \/ /\ remover' = "done"
        /\ descriptor' = "closed"
        /\ m_SSL' = Nil
        /\ m_socketMutex' = Nil
        /\ UNCHANGED process
     \/ /\ peer = "reset"
        /\ Terminate
        /\ UNCHANGED <<remover, descriptor, m_SSL, m_socketMutex>>
  /\ UNCHANGED <<handler, incoming, epoll, outgoing, received, worker, calls, unguarded>>

Remover == CloseConnection \/ LockToClose \/ CloseSession

-------------------------------------------------------------------------------
Next ==
  /\ process = "up"
  /\ \/ PeerSend \/ PeerLeave \/ PeerReceive \/ DataEvent
     \/ \E w \in Workers : Worker(w)
     \/ Remover

Spec == Init /\ [][Next]_vars

(* The loop and the workers run, and a closeConnection that has begun ends; *)
(* the peer owes nothing, nobody has to close, and the application need not *)
(* call anything that no data event asked for.                              *)
FairSpec ==
  /\ Spec
  /\ WF_vars(process = "up" /\ DataEvent)
  /\ WF_vars(process = "up" /\ (LockToClose \/ CloseSession))
  /\ \A w \in Workers : WF_vars(process = "up" /\ Proceed(w))
-------------------------------------------------------------------------------
(* The types of the variables. *)
Bytes == 1..MaxBytes
Calls == {"none", "receiveData", "receivePartialData", "sendData"}

TypeOK ==
  /\ handler \in Handlers
  /\ m_SSL \in {"session", Nil}
  /\ m_socketMutex \in Workers \cup {"remover", Nil}
  /\ descriptor \in {"open", "closed"}
  /\ peer \in {"open", "notified", "closed", "reset"}
  /\ arrived \in 0..MaxBytes /\ taken \in 0..arrived /\ recordEnds \subseteq 1..arrived
  /\ edge \in BOOLEAN /\ events \in Nat
  /\ wire \in Seq(Messages \X (1..Length)) /\ drained \in 0..Len(wire)
  /\ pendingWrite \in [msg : Messages, sent : 0..Length] \cup {Nil}
  /\ worker \in [Workers -> [pc : {"idle", "lock", "available", "read", "send"}, call : Calls,
                             size : (-1)..(IntRange - 1), got : Seq(Bytes),
                             msg : Messages \cup {Nil}, sent : 0..Length]]
  /\ remover \in {"none", "lock", "shutdown", "done"}
  /\ calls \in 0..MaxCalls
  /\ delivered \in Seq(Bytes) /\ lost \subseteq Bytes /\ cuts \subseteq 1..Len(wire)
  /\ unguarded \in BOOLEAN
  /\ process \in {"up", "terminated"}

(* receiveData is the stream ByteStream describes, whichever workers call   *)
(* it: in order, each byte once, none skipped, until a call has returned -1 *)
(* with bytes in its hands.  The promise does not cover TCP's               *)
(* receivePartialData, which takes no mutex, when it is called directly.    *)
Stream == INSTANCE ByteStream WITH broken <- lost # {} \/ unguarded
StreamSpec == Stream!Spec

(* What FIONREAD announced is still there when the loop of TCP reads it, so *)
(* that the loop ends and the buffer has the right size: no other worker    *)
(* can have taken it meanwhile, and no half of the ssize_t is garbage.      *)
AvailabilityHolds ==
  \A w \in Workers :
    worker[w].pc = "read" /\ ~Tls /\ ~unguarded =>
      worker[w].size - Len(worker[w].got) <= arrived - taken

(* What two sendData put on the wire is never interleaved, whoever sends    *)
(* when: a message begins where a whole one has ended, or under TCP one     *)
(* that a failing call has cut off, and in between its units are in order.  *)
(* TLS never cuts: what SSL_write has begun is finished first.  It need not *)
(* be finished with the same message, so only TCP keeps the contents apart. *)
MessagesFramed ==
  \A k \in 1..(Len(wire) - 1) :
    LET unit == wire[k]
        next == wire[k + 1]
    IN  \/ next[2] = unit[2] + 1 /\ (Tls \/ next[1] = unit[1])
        \/ next[2] = 1 /\ (unit[2] = Length \/ (~Tls /\ k \in cuts))

(* OpenSSL allows one thread at a time in a session: among the workers that *)
(* receive and send and the thread that shuts it down and frees it, all of  *)
(* which look at m_SSL before they have the mutex, there is one inside.     *)
SessionExclusive ==
  Tls => LET inside == {w \in Workers : worker[w].pc \in {"read", "send"}} \cup
                       (IF remover = "shutdown" THEN {"remover"} ELSE {})
         IN  Cardinality(inside) <= 1

(* Every call returns, even if the peer leaves or never reads, provided the *)
(* peer does not send for ever.  receiveData under TLS reads on until a     *)
(* read is short, with m_socketMutex in its hands, so that a peer that      *)
(* keeps its buffer full would hold it, the other calls and the closing.    *)
CallsReturn ==
  <>[][FALSE]_arrived =>
    \A w \in Workers : worker[w].pc # "idle" ~> worker[w].pc = "idle" \/ process = "terminated"

(* Under TCP what the peer sends is handed over, byte for byte, though more *)
(* may arrive between FIONREAD, the reads and the next edge.                *)
TcpDelivers ==
  \A b \in Bytes :
    ~Tls /\ arrived >= b ~> \/ \E k \in 1..Len(delivered) : delivered[k] = b
                           \/ peer # "open" \/ remover # "none" \/ process = "terminated"

(* TLSSocketHandler.cpp:210, where a read shorter than its buffer ends the  *)
(* loop: "No more data available or the connection was closed".             *)
ShortReadMeansDrained ==
  [][\A w \in Workers :
       /\ Tls /\ worker[w].call = "receivePartialData" /\ worker[w].pc = "read"
       /\ worker'[w].pc = "idle"
       /\ taken' \in (taken + 1)..(taken + Wanted(w) - 1)
       => taken' = arrived \/ peer # "open"]_vars
===============================================================================
