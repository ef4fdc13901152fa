-------------------------------- MODULE Network --------------------------------
(***************************************************************************)
(* What the server runs on: the listening socket and its backlog, the      *)
(* table of descriptors, the epoll instances of the event loops, and the   *)
(* clients at the other end.  None of it is in the repository; it is       *)
(* modelled from the calls the server makes: listen, accept, close,        *)
(* FIONREAD, read, epoll_ctl and epoll_wait with the flags                 *)
(* EPOLLIN | EPOLLET | EPOLLRDHUP (SocketEventHandler.cpp:11).             *)
(***************************************************************************)
EXTENDS Naturals, Sequences, FiniteSets

CONSTANTS
  Clients,    \* each client connects at most once
  Fds,        \* descriptors the process may still open: RLIMIT_NOFILE
  Ptrs,       \* addresses malloc may return for an EventStorePointer
  NumLoops,   \* event loops, one epoll instance each
  MaxSends,   \* bound on the messages a client sends
  Nil

Loops == 0..(NumLoops - 1)

ASSUME NetworkAssumption ==
  /\ NumLoops \in Nat \ {0}
  /\ MaxSends \in Nat
  /\ Nil \notin Clients \cup Fds \cup Ptrs \cup Nat

VARIABLES
  backlog,       \* connections not accepted yet, oldest first
  listener,      \* "watched": open and in the interest list of its epoll
  listenerEdge,  \* the edge-triggered event of the listener is pending
  peer,          \* "away", "connected" or "closed", for each client
  sent,          \* messages each client has sent
  unread,        \* how many of them are in the receive buffer
  file,          \* the connection behind each descriptor, or Nil
  interest,      \* for each loop and descriptor: the registered data.ptr
  ready          \* for each loop: the descriptors with a pending edge

listening == <<backlog, listener, listenerEdge>>
endpoints == <<peer, sent, unread>>
descriptors == <<file, interest, ready>>
netvars == <<listening, endpoints, descriptors>>

NetInit ==
  /\ backlog = <<>>
  /\ listener = "none"
  /\ listenerEdge = FALSE
  /\ peer = [c \in Clients |-> "away"]
  /\ sent = [c \in Clients |-> 0]
  /\ unread = [c \in Clients |-> 0]
  /\ file = [f \in Fds |-> Nil]
  /\ interest = [i \in Loops |-> [f \in Fds |-> Nil]]
  /\ ready = [i \in Loops |-> {}]

NetTypeOK ==
  /\ backlog \in Seq(Clients)
  /\ listener \in {"none", "watched", "unwatched", "closed"}
  /\ listenerEdge \in BOOLEAN
  /\ peer \in [Clients -> {"away", "connected", "closed"}]
  /\ sent \in [Clients -> Nat]
  /\ unread \in [Clients -> Nat]
  /\ file \in [Fds -> Clients \cup {Nil}]
  /\ interest \in [Loops -> [Fds -> Ptrs \cup {Nil}]]
  /\ ready \in [Loops -> SUBSET Fds]

Open(c) == \E f \in Fds : file[f] = c
InBacklog(c) == \E k \in 1..Len(backlog) : backlog[k] = c

(* A connection has something an epoll_wait would report. *)
Reportable(c) == unread[c] > 0 \/ peer[c] = "closed"

-------------------------------------------------------------------------------
(* The clients *)

Rouse(c) ==
  ready' = [i \in Loops |-> ready[i] \cup {f \in Fds : file[f] = c /\ interest[i][f] # Nil}]

Connect(c) ==
  /\ peer[c] = "away"
  /\ listener \in {"watched", "unwatched"}
  /\ peer' = [peer EXCEPT ![c] = "connected"]
  /\ backlog' = Append(backlog, c)
  /\ listenerEdge' = (listener = "watched")
  /\ UNCHANGED <<listener, sent, unread, descriptors>>

Send(c) ==
  /\ peer[c] = "connected"
  /\ sent[c] < MaxSends
  /\ Open(c) \/ InBacklog(c)
  /\ sent' = [sent EXCEPT ![c] = @ + 1]
  /\ unread' = [unread EXCEPT ![c] = @ + 1]
  /\ Rouse(c)
  /\ UNCHANGED <<listening, peer, file, interest>>

PeerClose(c) ==
  /\ peer[c] = "connected"
  /\ peer' = [peer EXCEPT ![c] = "closed"]
  /\ Rouse(c)
  /\ UNCHANGED <<listening, sent, unread, file, interest>>

Client(c) == Connect(c) \/ Send(c) \/ PeerClose(c)

-------------------------------------------------------------------------------
(* System calls, as parts of the server's actions *)

(* A descriptor that is closed leaves every interest list.                  *)
CloseFds(fds) ==
  /\ file' = [f \in Fds |-> IF f \in fds THEN Nil ELSE file[f]]
  /\ interest' = [i \in Loops |-> [f \in Fds |-> IF f \in fds THEN Nil ELSE interest[i][f]]]
  /\ ready' = [i \in Loops |-> ready[i] \ fds]

(* EPOLL_CTL_ADD reports at once what is already there.                     *)
EpollAdd(i, f, p) ==
  /\ interest' = [interest EXCEPT ![i][f] = p]
  /\ ready' = IF Reportable(file[f]) THEN [ready EXCEPT ![i] = @ \cup {f}] ELSE ready

EpollRemove(i, f) ==
  /\ interest' = [interest EXCEPT ![i][f] = Nil]
  /\ ready' = [ready EXCEPT ![i] = @ \ {f}]

(* What epoll_wait returns: the pending edges that still have a reason, the *)
(* EPOLLRDHUP flag telling a connection closed by its peer.                 *)
Events(i) ==
  {[ptr |-> interest[i][f], hup |-> peer[file[f]] = "closed"] :
     f \in {g \in ready[i] : file[g] # Nil /\ interest[i][g] # Nil /\ Reportable(file[g])}}
===============================================================================
