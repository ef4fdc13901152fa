------------------------- MODULE SocketTransferProofs -------------------------
(* Theorems about SocketTransfer, for any number of workers, bytes and      *)
(* messages and any sizes of the buffers.                                   *)
EXTENDS SocketTransfer, FiniteSetTheorems, WellFoundedInduction, TLAPS

(* What a worker's frame holds in each place: bytes only where it reads,    *)
(* and TCP's availableData, the partial read and the message only in their  *)
(* own calls.                                                               *)
Proper(f) ==
  /\ f.pc = "available" => f.call = "receiveData" /\ ~Tls
  /\ f.pc = "read" => f.call \in {"receiveData", "receivePartialData"}
  /\ f.pc = "send" => f.call = "sendData"
  /\ f.pc = "lock" => f.call # "none" /\ (~Tls => f.call # "receivePartialData")
  /\ f.pc # "idle" /\ f.call = "sendData" => f.msg \in Messages
  /\ f.pc = "read" /\ f.call = "receivePartialData" /\ ~Tls => unguarded
  /\ f.pc # "read" => f.got = <<>>
  /\ f.pc # "idle" /\ Tls /\ f.call = "receivePartialData" /\ f.size > 0 => Len(f.got) < f.size

FrameInv == \A w \in Workers : Proper(worker[w])

(* Who is behind m_socketMutex; TCP's receivePartialData is the one call    *)
(* that is inside without it.                                               *)
MutexInv ==
  /\ \A w \in Workers :
       /\ worker[w].pc \in {"available", "send"} => m_socketMutex = w
       /\ worker[w].pc = "read" =>
            m_socketMutex = w \/ (~Tls /\ worker[w].call = "receivePartialData")
  /\ remover \in {"lock", "shutdown"} => Tls
  /\ remover = "shutdown" => m_socketMutex = "remover"

RecordInv == arrived > 0 => arrived \in recordEnds

(* While the stream is whole, what has been read is what was delivered and  *)
(* what the one worker at read() has in its hands.                          *)
Counting(from, n) == [k \in 1..n |-> from + k]

StreamInv ==
  lost = {} /\ ~unguarded =>
    /\ delivered = Counting(0, Len(delivered))
    /\ (\A w \in Workers : worker[w].pc # "read") => taken = Len(delivered)
    /\ \A w \in Workers : worker[w].pc = "read" =>
         /\ taken = Len(delivered) + Len(worker[w].got)
         /\ worker[w].got = Counting(Len(delivered), Len(worker[w].got))

(* A new message may follow what is on the wire. *)
Boundary ==
  wire = <<>> \/ wire[Len(wire)][2] = Length \/ (~Tls /\ Len(wire) \in cuts)

(* The message under way, if there is one, is the last thing on the wire:   *)
(* in TCP's loop it is in the frame of its sender, in TLS in the session,   *)
(* which knows how much of it there is and not what it was.                 *)
Under(msg, sent) ==
  /\ sent < Length
  /\ wire # <<>> /\ wire[Len(wire)][2] = sent
  /\ Tls \/ wire[Len(wire)][1] = msg

WireInv ==
  /\ Len(wire) - drained <= Capacity
  /\ MessagesFramed
  /\ \A w \in Workers : worker[w].sent > 0 =>
       worker[w].pc = "send" /\ ~Tls /\ Under(worker[w].msg, worker[w].sent)
  /\ ~Tls /\ (\A w \in Workers : worker[w].sent = 0) => Boundary
  /\ Tls => IF pendingWrite # Nil /\ pendingWrite.sent > 0
            THEN Under(pendingWrite.msg, pendingWrite.sent) ELSE Boundary

(* The invariants that tie the workers to one another and to the wire.      *)
WorkerInv == FrameInv /\ MutexInv /\ AvailabilityHolds /\ StreamInv /\ WireInv

IInv == TypeOK /\ RecordInv /\ WorkerInv

-------------------------------------------------------------------------------
(* Constants, frames and numbers *)

Frames ==
  [pc : {"idle", "lock", "available", "read", "send"}, call : Calls, size : (-1)..(IntRange - 1),
   got : Seq(Bytes), msg : Messages \cup {Nil}, sent : 0..Length]

LEMMA Names ==
  /\ \A w \in Workers : w # Nil /\ w # "remover"
  /\ Nil # "remover" /\ Nil # "session" /\ Nil \notin Messages
  /\ \A msg \in Messages, sent \in 0..Length : Nil # [msg |-> msg, sent |-> sent]
BY TransferAssumption

LEMMA Numbers ==
  /\ MaxBytes \in Nat /\ MaxRecord \in Nat /\ MaxCalls \in Nat /\ Capacity \in Nat
  /\ BufferSize \in Nat /\ BufferSize > 0 /\ Length \in Nat /\ Length > 0
  /\ IntRange \in Nat /\ IntRange > MaxBytes
BY TransferAssumption

LEMMA IdleFrame == Idle \in Frames
BY Numbers DEF Idle, Frames, Calls

LEMMA WorkerFrames == TypeOK => worker \in [Workers -> Frames]
BY DEF TypeOK, Frames

(* TypeOK in parts, for a step disturbs few of them.                        *)
ConnectionTypes ==
  /\ handler \in Handlers
  /\ m_SSL \in {"session", Nil}
  /\ m_socketMutex \in Workers \cup {"remover", Nil}
  /\ descriptor \in {"open", "closed"}

IncomingTypes ==
  /\ peer \in {"open", "notified", "closed", "reset"}
  /\ arrived \in 0..MaxBytes /\ taken \in 0..arrived /\ recordEnds \subseteq 1..arrived
  /\ edge \in BOOLEAN /\ events \in Nat

OutgoingTypes ==
  /\ wire \in Seq(Messages \X (1..Length)) /\ drained \in 0..Len(wire)
  /\ pendingWrite \in [msg : Messages, sent : 0..Length] \cup {Nil}
  /\ cuts \subseteq 1..Len(wire)

ControlTypes ==
  /\ remover \in {"none", "lock", "shutdown", "done"}
  /\ calls \in 0..MaxCalls
  /\ delivered \in Seq(Bytes) /\ lost \subseteq Bytes
  /\ unguarded \in BOOLEAN
  /\ process \in {"up", "terminated"}

LEMMA TypeParts ==
  TypeOK => /\ ConnectionTypes /\ IncomingTypes /\ OutgoingTypes /\ ControlTypes
            /\ worker \in [Workers -> Frames]
BY DEF TypeOK, ConnectionTypes, IncomingTypes, OutgoingTypes, ControlTypes, Frames

LEMMA TypesNext ==
  ASSUME ConnectionTypes', IncomingTypes', OutgoingTypes', ControlTypes',
         worker' \in [Workers -> Frames]
  PROVE  TypeOK'
BY DEF TypeOK, ConnectionTypes, IncomingTypes, OutgoingTypes, ControlTypes, Frames

(* One worker enters a frame, and the others stay where they are.           *)
LEMMA EnterFrame ==
  ASSUME TypeOK, NEW w \in Workers, NEW f \in Frames, Enter(w, f)
  PROVE  /\ worker' \in [Workers -> Frames]
         /\ worker'[w] = f
         /\ \A v \in Workers : v # w => worker'[v] = worker[v]
BY WorkerFrames DEF Enter

(* An int holds a number of bytes, whatever the upper half of the ssize_t.  *)
LEMMA ToIntOfAvailable ==
  ASSUME NEW x \in 0..MaxBytes, NEW garbage \in {0, 1}
  PROVE  ToInt(garbage * IntRange + x) = x
<1>1. IntRange \in Nat /\ x \in 0..(IntRange - 1)
  BY Numbers
<1>2. ASSUME NEW R \in Nat, NEW y \in 0..(R - 1) PROVE (0 * R + y) % R = y /\ (1 * R + y) % R = y
  BY <1>2
<1> QED
  BY <1>1, <1>2 DEF ToInt

LEMMA Precedes == IsWellFoundedOn({ss \in Nat \X Nat : ss[1] < ss[2]}, Nat)
BY NatLessThanWellFounded DEF OpToRel

(* The minimum of a set of numbers is one of them.                          *)
LEMMA MinimumIn ==
  ASSUME NEW S \in SUBSET Nat, S # {}
  PROVE  Min(S) \in S
<1> DEFINE R == {ss \in Nat \X Nat : ss[1] < ss[2]}
<1>1. \E x \in S : \A y \in S : ~(<<y, x>> \in R)
  <2>1. IsWellFoundedOn(R, Nat)
    BY Precedes
  <2> HIDE DEF R
  <2> QED
    BY <2>1, WFMin
<1>2. \A x, y \in S : x <= y \/ <<y, x>> \in R
  OBVIOUS
<1>3. PICK n \in S : \A m \in S : n <= m
  <2> HIDE DEF R
  <2> QED
    BY <1>1, <1>2
<1> QED
  BY <1>3 DEF Min

LEMMA SameSequence ==
  ASSUME NEW S, NEW a \in Seq(S), NEW b \in Seq(S), Len(a) = Len(b),
         \A k \in 1..Len(a) : a[k] = b[k]
  PROVE  a = b
OBVIOUS

LEMMA WiderSequence ==
  ASSUME NEW S, NEW T, S \subseteq T, NEW s \in Seq(S)
  PROVE  s \in Seq(T)
<1>1. s \in [1..Len(s) -> T] /\ Len(s) \in Nat
  OBVIOUS
<1> QED
  BY <1>1

LEMMA Appended ==
  ASSUME NEW S, NEW a \in Seq(S), NEW b \in Seq(S)
  PROVE  /\ a \o b \in Seq(S)
         /\ Len(a \o b) = Len(a) + Len(b)
         /\ \A k \in 1..Len(a) : (a \o b)[k] = a[k]
         /\ \A k \in 1..Len(b) : (a \o b)[Len(a) + k] = b[k]
OBVIOUS

(* The bytes one read adds to those a call has already.                     *)
LEMMA MoreBytes ==
  ASSUME NEW from \in Nat, NEW n \in Nat, from + n <= MaxBytes, NEW got \in Seq(Bytes)
  PROVE  LET all == got \o [k \in 1..n |-> from + k]
         IN  all \in Seq(Bytes) /\ Len(all) = Len(got) + n
<1> DEFINE more == [k \in 1..n |-> from + k]
<1>1. \A k \in 1..n : from + k \in Bytes
  BY Numbers DEF Bytes
<1>2. more \in Seq(Bytes) /\ Len(more) = n
  BY <1>1
<1> HIDE DEF more
<1>3. got \o more \in Seq(Bytes) /\ Len(got \o more) = Len(got) + Len(more)
  BY <1>2, Appended
<1> QED
  BY <1>2, <1>3 DEF more

LEMMA CountingOn ==
  ASSUME NEW from \in Nat, NEW n \in Nat, NEW m \in Nat
  PROVE  Counting(from, n) \o Counting(from + n, m) = Counting(from, n + m)
<1> DEFINE a == Counting(from, n)
           b == Counting(from + n, m)
           c == Counting(from, n + m)
<1>1. a \in Seq(Nat) /\ Len(a) = n /\ \A k \in 1..n : a[k] = from + k
  BY DEF Counting
<1>2. b \in Seq(Nat) /\ Len(b) = m /\ \A k \in 1..m : b[k] = from + n + k
  BY DEF Counting
<1>3. c \in Seq(Nat) /\ Len(c) = n + m /\ \A k \in 1..(n + m) : c[k] = from + k
  BY DEF Counting
<1> HIDE DEF a, b, c
<1>4. /\ a \o b \in Seq(Nat)
      /\ Len(a \o b) = Len(a) + Len(b)
      /\ \A k \in 1..Len(a) : (a \o b)[k] = a[k]
      /\ \A k \in 1..Len(b) : (a \o b)[Len(a) + k] = b[k]
  <2>1. a \in Seq(Nat) /\ b \in Seq(Nat)
    BY <1>1, <1>2
  <2> QED
    BY <2>1, Appended
<1>5. \A k \in 1..(n + m) : (a \o b)[k] = from + k
  <2> SUFFICES ASSUME NEW k \in 1..(n + m) PROVE (a \o b)[k] = from + k
    OBVIOUS
  <2>1. CASE k \in 1..n
    BY <1>1, <1>4, <2>1
  <2>2. CASE k \notin 1..n
    <3>1. PICK j \in 1..m : k = n + j
      BY <2>2
    <3>2. (a \o b)[n + j] = b[j]
      BY <1>1, <1>2, <1>4
    <3> QED
      BY <1>2, <3>1, <3>2
  <2> QED
    BY <2>1, <2>2
<1>6. a \o b = c
  <2> DEFINE d == a \o b
  <2>1. d \in Seq(Nat) /\ c \in Seq(Nat) /\ Len(d) = n + m /\ Len(c) = n + m
    BY <1>1, <1>2, <1>3, <1>4
  <2>2. \A k \in 1..(n + m) : d[k] = c[k]
    BY <1>3, <1>5
  <2> HIDE DEF d
  <2>3. d = c
    BY <2>1, <2>2, SameSequence
  <2> QED
    BY <2>3 DEF d
<1> QED
  BY <1>6 DEF a, b, c

-------------------------------------------------------------------------------
(* Steps in which no worker moves *)

LEMMA FramesKept ==
  ASSUME FrameInv, UNCHANGED <<handler, worker>>, unguarded => unguarded'
  PROVE  FrameInv'
BY DEF FrameInv, Proper, Tls

LEMMA AvailabilityKept ==
  ASSUME TypeOK, AvailabilityHolds, UNCHANGED <<handler, worker, taken>>,
         arrived' \in Nat, arrived' >= arrived, unguarded => unguarded'
  PROVE  AvailabilityHolds'
<1> SUFFICES ASSUME NEW w \in Workers, worker'[w].pc = "read", (~Tls)', ~unguarded'
             PROVE  worker'[w].size - Len(worker'[w].got) <= arrived' - taken'
  BY DEF AvailabilityHolds
<1>1. worker[w].size - Len(worker[w].got) <= arrived - taken
  BY DEF AvailabilityHolds, Tls
<1>2. worker[w].size \in Int /\ Len(worker[w].got) \in Int /\ arrived \in Int /\ taken \in Int
  BY Numbers, WorkerFrames DEF TypeOK, Frames
<1> QED
  BY <1>1, <1>2

LEMMA StreamKept ==
  ASSUME StreamInv, UNCHANGED <<worker, taken, delivered, lost>>, unguarded => unguarded'
  PROVE  StreamInv'
BY DEF StreamInv, Counting

LEMMA WireKept ==
  ASSUME TypeOK, WireInv, UNCHANGED <<handler, worker, wire, cuts, pendingWrite>>,
         drained' \in Nat, drained' >= drained
  PROVE  WireInv'
<1>1. Len(wire) \in Nat /\ drained \in Nat /\ Capacity \in Nat
  BY Numbers DEF TypeOK
<1>2. Len(wire') - drained' <= Capacity
  BY <1>1 DEF WireInv
<1>3. MessagesFramed'
  BY DEF WireInv, MessagesFramed, Tls
<1> QED
  BY <1>2, <1>3 DEF WireInv, Boundary, Under, Tls

LEMMA WorkersKept ==
  ASSUME TypeOK, WorkerInv,
         UNCHANGED <<handler, worker, m_socketMutex, remover, taken, delivered, lost, wire, cuts,
                     pendingWrite, unguarded>>,
         arrived' \in Nat, arrived' >= arrived, drained' \in Nat, drained' >= drained
  PROVE  WorkerInv'
<1>1. MutexInv'
  BY DEF WorkerInv, MutexInv, Tls
<1> QED
  BY <1>1, FramesKept, AvailabilityKept, StreamKept, WireKept DEF WorkerInv

-------------------------------------------------------------------------------
(* Steps of one worker *)

LEMMA FrameStep ==
  ASSUME TypeOK, FrameInv, NEW w \in Workers, NEW f \in Frames, Enter(w, f), Proper(f)',
         handler' = handler, unguarded => unguarded'
  PROVE  FrameInv'
<1>1. \A v \in Workers : v # w => Proper(worker[v])'
  BY EnterFrame DEF FrameInv, Proper, Tls
<1>2. Proper(worker[w])'
  BY EnterFrame DEF Proper
<1> QED
  BY <1>1, <1>2 DEF FrameInv

LEMMA MutexStep ==
  ASSUME TypeOK, MutexInv, NEW w \in Workers, NEW f \in Frames, Enter(w, f),
         UNCHANGED <<handler, remover>>,
         \/ m_socketMutex' = m_socketMutex
         \/ m_socketMutex = Nil /\ m_socketMutex' = w
         \/ m_socketMutex = w /\ m_socketMutex' = Nil,
         f.pc \in {"available", "send"} => m_socketMutex' = w,
         f.pc = "read" => m_socketMutex' = w \/ (~Tls /\ f.call = "receivePartialData")
  PROVE  MutexInv'
<1>1. \A v \in Workers : v # w => worker'[v] = worker[v] /\ (m_socketMutex = v => m_socketMutex' = v)
  BY EnterFrame, Names
<1>2. worker'[w] = f
  BY EnterFrame
<1>3. /\ remover' \in {"lock", "shutdown"} => Tls'
      /\ remover' = "shutdown" => m_socketMutex' = "remover"
  BY Names DEF MutexInv, Tls
<1> QED
  BY <1>1, <1>2, <1>3 DEF MutexInv, Tls

(* The holder of the mutex is alone, but for TCP's receivePartialData.      *)
LEMMA Alone ==
  ASSUME FrameInv, MutexInv, NEW w \in Workers, m_socketMutex \in {w, Nil}, NEW v \in Workers,
         v # w \/ m_socketMutex = Nil
  PROVE  /\ worker[v].pc \notin {"available", "send"}
         /\ Tls \/ ~unguarded => worker[v].pc # "read"
BY Names DEF FrameInv, Proper, MutexInv

LEMMA AvailabilityStep ==
  ASSUME TypeOK, AvailabilityHolds, NEW w \in Workers, NEW f \in Frames, Enter(w, f),
         UNCHANGED <<handler, arrived, taken>>, unguarded => unguarded',
         f.pc = "read" /\ ~Tls /\ ~unguarded' => f.size - Len(f.got) <= arrived - taken
  PROVE  AvailabilityHolds'
BY EnterFrame DEF AvailabilityHolds, Tls

(* A worker that neither was nor is at read().                              *)
LEMMA StreamStep ==
  ASSUME TypeOK, StreamInv, NEW w \in Workers, NEW f \in Frames, Enter(w, f),
         worker[w].pc # "read", f.pc # "read",
         UNCHANGED <<taken, delivered, lost>>, unguarded => unguarded'
  PROVE  StreamInv'
<1>1. \A v \in Workers : v # w => worker'[v] = worker[v]
  BY EnterFrame
<1>2. worker'[w].pc # "read"
  BY EnterFrame
<1>3. (\A v \in Workers : worker'[v].pc # "read") => \A v \in Workers : worker[v].pc # "read"
  BY <1>1
<1>4. \A v \in Workers : worker'[v].pc = "read" => worker'[v] = worker[v]
  BY <1>1, <1>2
<1>5. CASE lost' # {} \/ unguarded'
  BY <1>5 DEF StreamInv
<1>6. CASE lost = {} /\ ~unguarded
  <2>1. delivered' = delivered /\ taken' = taken
    OBVIOUS
  <2>2. delivered' = Counting(0, Len(delivered'))
    BY <1>6, <2>1 DEF StreamInv
  <2>3. (\A v \in Workers : worker'[v].pc # "read") => taken' = Len(delivered')
    BY <1>3, <1>6, <2>1 DEF StreamInv
  <2>4. \A v \in Workers : worker'[v].pc = "read" =>
          /\ taken' = Len(delivered') + Len(worker'[v].got)
          /\ worker'[v].got = Counting(Len(delivered'), Len(worker'[v].got))
    BY <1>4, <1>6, <2>1 DEF StreamInv
  <2> QED
    BY <2>2, <2>3, <2>4 DEF StreamInv, Counting
<1> QED
  BY <1>5, <1>6

LEMMA WireStep ==
  ASSUME TypeOK, WireInv, NEW w \in Workers, NEW f \in Frames, Enter(w, f),
         worker[w].sent = 0, f.sent = 0,
         UNCHANGED <<handler, wire, drained, cuts, pendingWrite>>
  PROVE  WireInv'
<1>1. \A v \in Workers : v # w => worker'[v] = worker[v]
  BY EnterFrame
<1>2. worker'[w].sent = 0
  BY EnterFrame
<1>3. MessagesFramed'
  BY DEF WireInv, MessagesFramed, Tls
<1>4. \A v \in Workers : worker'[v].sent > 0 =>
        worker'[v].pc = "send" /\ ~Tls /\ Under(worker[v].msg, worker[v].sent) /\ worker'[v] = worker[v]
  BY <1>1, <1>2 DEF WireInv
<1>5. (\A v \in Workers : worker'[v].sent = 0) => \A v \in Workers : worker[v].sent = 0
  BY <1>1
<1>6. /\ Boundary' <=> Boundary
      /\ Tls' <=> Tls
      /\ \A msg, n : Under(msg, n)' <=> Under(msg, n)
  BY DEF Boundary, Under, Tls
<1>7. (\A v \in Workers : worker[v].sent > 0 =>
         worker[v].pc = "send" /\ ~Tls /\ Under(worker[v].msg, worker[v].sent))'
  <2> SUFFICES ASSUME NEW v \in Workers, worker'[v].sent > 0
               PROVE  worker'[v].pc = "send" /\ ~Tls' /\ Under(worker[v].msg, worker[v].sent)'
    OBVIOUS
  <2> QED
    BY <1>4 DEF Under, Tls
<1>8. ~Tls' /\ (\A v \in Workers : worker'[v].sent = 0) => Boundary'
  BY <1>5, <1>6 DEF WireInv
<1>9. (Tls => IF pendingWrite # Nil /\ pendingWrite.sent > 0
               THEN Under(pendingWrite.msg, pendingWrite.sent) ELSE Boundary)'
  <2>1. Under(pendingWrite.msg, pendingWrite.sent)' <=> Under(pendingWrite.msg, pendingWrite.sent)
    BY DEF Under, Tls
  <2> QED
    BY <1>6, <2>1 DEF WireInv
<1>10. Len(wire') - drained' <= Capacity
  BY DEF WireInv
<1> QED
  BY <1>3, <1>7, <1>8, <1>9, <1>10 DEF WireInv

-------------------------------------------------------------------------------
(* The peer, the event loop and the thread that removes the connection      *)

LEMMA PeerSendStep == IInv /\ PeerSend => IInv'
<1> SUFFICES ASSUME IInv, PeerSend PROVE IInv'
  OBVIOUS
<1> USE DEF connection, incoming, outgoing, received, rest
<1>1. PICK n \in 1..MaxRecord : /\ arrived + n <= MaxBytes
                                /\ arrived' = arrived + n
                                /\ recordEnds' = recordEnds \cup {arrived'}
  BY DEF PeerSend
<1>2. arrived \in Nat /\ taken \in 0..arrived /\ drained \in Nat /\ n \in Nat /\ MaxBytes \in Nat
  BY Numbers DEF IInv, TypeOK
<1>3. arrived' \in 0..MaxBytes /\ taken \in 0..arrived' /\ arrived' >= arrived /\ drained >= drained
  BY <1>1, <1>2
<1>4. recordEnds' \subseteq 1..arrived'
  <2>1. recordEnds \subseteq 1..arrived
    BY DEF IInv, TypeOK
  <2> QED
    BY <1>1, <1>2, <2>1
<1>5. TypeOK'
  <2>1. IncomingTypes'
    BY <1>3, <1>4 DEF IInv, TypeOK, IncomingTypes, PeerSend
  <2>2. ConnectionTypes' /\ OutgoingTypes' /\ ControlTypes' /\ worker' \in [Workers -> Frames]
    BY TypeParts DEF IInv, ConnectionTypes, OutgoingTypes, ControlTypes, PeerSend
  <2> QED
    BY <2>1, <2>2, TypesNext
<1>6. RecordInv'
  BY <1>1 DEF IInv, RecordInv, PeerSend
<1>7. WorkerInv'
  BY <1>2, <1>3, WorkersKept DEF IInv, PeerSend
<1> QED
  BY <1>5, <1>6, <1>7 DEF IInv

LEMMA PeerLeaveStep == IInv /\ PeerLeave => IInv'
<1> SUFFICES ASSUME IInv, PeerLeave PROVE IInv'
  OBVIOUS
<1> USE DEF connection, epoll, outgoing, received, rest
<1>1. TypeOK'
  BY DEF IInv, TypeOK, PeerLeave
<1>2. RecordInv'
  BY DEF IInv, RecordInv, PeerLeave
<1>3. WorkerInv'
  <2>1. arrived \in Nat /\ drained \in Nat /\ arrived >= arrived /\ drained >= drained
    BY DEF IInv, TypeOK
  <2> QED
    BY <2>1, WorkersKept DEF IInv, PeerLeave
<1> QED
  BY <1>1, <1>2, <1>3 DEF IInv

LEMMA PeerReceiveStep == IInv /\ PeerReceive => IInv'
<1> SUFFICES ASSUME IInv, PeerReceive PROVE IInv'
  OBVIOUS
<1> USE DEF connection, incoming, epoll, received, rest
<1>1. drained' \in 0..Len(wire) /\ drained' >= drained /\ drained' \in Nat
  BY DEF IInv, TypeOK, PeerReceive
<1>2. TypeOK'
  <2>1. OutgoingTypes'
    BY <1>1, TypeParts DEF IInv, OutgoingTypes, PeerReceive
  <2>2. ConnectionTypes' /\ IncomingTypes' /\ ControlTypes' /\ worker' \in [Workers -> Frames]
    BY TypeParts DEF IInv, ConnectionTypes, IncomingTypes, ControlTypes, PeerReceive
  <2> QED
    BY <2>1, <2>2, TypesNext
<1>3. RecordInv'
  BY DEF IInv, RecordInv, PeerReceive
<1>4. WorkerInv'
  <2>1. arrived \in Nat /\ arrived >= arrived
    BY DEF IInv, TypeOK
  <2> QED
    BY <1>1, <2>1, WorkersKept DEF IInv, PeerReceive
<1> QED
  BY <1>2, <1>3, <1>4 DEF IInv

LEMMA DataEventStep == IInv /\ DataEvent => IInv'
<1> SUFFICES ASSUME IInv, DataEvent PROVE IInv'
  OBVIOUS
<1> USE DEF connection, incoming, outgoing, received, rest
<1>1. TypeOK'
  <2>1. edge' \in BOOLEAN /\ events' \in Nat
    <3>1. events \in Nat
      BY DEF IInv, TypeOK
    <3>2. edge' \in BOOLEAN
      BY DEF DataEvent
    <3>3. events' \in {events, events + 1}
      BY DEF DataEvent
    <3>4. events' \in Nat
      BY <3>1, <3>3
    <3> QED
      BY <3>2, <3>4
  <2>2. UNCHANGED <<connection, m_socketMutex, incoming, outgoing, received, worker, rest>>
    BY DEF DataEvent
  <2>3. IncomingTypes'
    BY <2>1, <2>2, TypeParts DEF IInv, IncomingTypes
  <2>4. ConnectionTypes' /\ OutgoingTypes' /\ ControlTypes' /\ worker' \in [Workers -> Frames]
    BY <2>2, TypeParts DEF IInv, ConnectionTypes, OutgoingTypes, ControlTypes
  <2> QED
    BY <2>3, <2>4, TypesNext
<1>2. RecordInv'
  BY DEF IInv, RecordInv, DataEvent
<1>3. WorkerInv'
  <2>1. arrived \in Nat /\ drained \in Nat /\ arrived >= arrived /\ drained >= drained
    BY DEF IInv, TypeOK
  <2> QED
    BY <2>1, WorkersKept DEF IInv, DataEvent
<1> QED
  BY <1>1, <1>2, <1>3 DEF IInv

LEMMA RemoverStep == IInv /\ Remover => IInv'
<1> SUFFICES ASSUME IInv, Remover PROVE IInv'
  OBVIOUS
<1> USE DEF connection, incoming, epoll, outgoing, received
<1>1. UNCHANGED <<handler, incoming, epoll, outgoing, received, worker, calls, unguarded>>
  BY DEF Remover, CloseConnection, LockToClose, CloseSession
<1>2. TypeOK'
  <2>1. m_SSL' \in {"session", Nil} /\ m_socketMutex' \in Workers \cup {"remover", Nil}
    BY DEF IInv, TypeOK, Remover, CloseConnection, LockToClose, CloseSession, TakeMutex
  <2>2. descriptor' \in {"open", "closed"} /\ remover' \in {"none", "lock", "shutdown", "done"}
    BY DEF IInv, TypeOK, Remover, CloseConnection, LockToClose, CloseSession
  <2>3. process' \in {"up", "terminated"}
    BY DEF IInv, TypeOK, Remover, CloseConnection, LockToClose, CloseSession, Terminate
  <2> QED
    BY <1>1, <2>1, <2>2, <2>3 DEF IInv, TypeOK
<1>3. RecordInv'
  BY <1>1 DEF IInv, RecordInv, Remover, CloseConnection,
              LockToClose, CloseSession, Terminate
<1>4. MutexInv'
  <2>1. CASE CloseConnection
    BY <2>1 DEF IInv, WorkerInv, MutexInv, CloseConnection, Tls
  <2>2. CASE LockToClose
    BY <2>2, Names DEF IInv, WorkerInv, MutexInv, LockToClose, TakeMutex, Tls
  <2>3. CASE CloseSession
    BY <2>3, Names DEF IInv, WorkerInv, MutexInv, CloseSession, Tls
  <2> QED
    BY <2>1, <2>2, <2>3 DEF Remover
<1>5. WorkerInv'
  <2>1. arrived \in Nat /\ drained \in Nat /\ arrived >= arrived /\ drained >= drained
    BY DEF IInv, TypeOK
  <2> QED
    BY <1>1, <1>4, <2>1, FramesKept, AvailabilityKept, StreamKept, WireKept DEF IInv, WorkerInv
<1> QED
  BY <1>2, <1>3, <1>5 DEF IInv

-------------------------------------------------------------------------------
(* A call begins, and takes the mutex                                       *)

LEMMA NotSending ==
  ASSUME TypeOK, WireInv, NEW w \in Workers, worker[w].pc # "send" \/ Tls
  PROVE  worker[w].sent = 0
BY WorkerFrames DEF WireInv, Frames

LEMMA CallStep ==
  ASSUME IInv, NEW w \in Workers, NEW call \in Calls \ {"none"}, NEW size \in (-1)..(IntRange - 1),
         NEW msg \in Messages \cup {Nil}, Call(w, call, size, msg),
         call = "sendData" => msg \in Messages,
         call = "receivePartialData" /\ ~Tls => unguarded',
         unguarded => unguarded',
         UNCHANGED <<handler, m_SSL, m_socketMutex, remover, arrived, taken, delivered, lost, wire,
                     drained, cuts, pendingWrite>>
  PROVE  worker' \in [Workers -> Frames] /\ WorkerInv'
<1>1. PICK f : f = IF Tls /\ m_SSL = Nil THEN Idle
               ELSE [Idle EXCEPT !.pc = IF ~Tls /\ call = "receivePartialData" THEN "read" ELSE "lock",
                                 !.call = call, !.size = size, !.msg = msg]
  OBVIOUS
<1>2. worker[w].pc = "idle" /\ Enter(w, f)
  BY <1>1 DEF Call
<1>3. f \in Frames /\ f.got = <<>> /\ f.sent = 0
  BY <1>1, IdleFrame DEF Idle, Frames
<1>4. /\ f.pc \in {"idle", "lock", "read"}
      /\ f.pc = "read" => ~Tls /\ f.call = "receivePartialData" /\ unguarded'
  BY <1>1 DEF Idle
<1>5. Proper(f)'
  <2>1. CASE Tls /\ m_SSL = Nil
    BY <1>1, <2>1 DEF Proper, Idle
  <2>2. CASE ~(Tls /\ m_SSL = Nil)
    <3>1. /\ f.pc = IF ~Tls /\ call = "receivePartialData" THEN "read" ELSE "lock"
          /\ f.call = call /\ f.size = size /\ f.msg = msg
      BY <1>1, <2>2 DEF Idle
    <3>2. Len(f.got) = 0
      BY <1>3
    <3> QED
      BY <1>3, <3>1, <3>2 DEF Proper, Tls
  <2> QED
    BY <2>1, <2>2
<1>6. worker' \in [Workers -> Frames]
  BY <1>2, <1>3, EnterFrame DEF IInv
<1>7. FrameInv'
  BY <1>2, <1>3, <1>5, FrameStep DEF IInv, WorkerInv
<1>8. MutexInv'
  BY <1>2, <1>3, <1>4, MutexStep DEF IInv, WorkerInv
<1>9. AvailabilityHolds'
  BY <1>2, <1>3, <1>4, AvailabilityStep DEF IInv, WorkerInv
<1>10. StreamInv'
  <2>1. CASE f.pc = "read"
    BY <1>4, <2>1 DEF StreamInv
  <2>2. CASE f.pc # "read"
    BY <1>2, <1>3, <2>2, StreamStep DEF IInv, WorkerInv
  <2> QED
    BY <2>1, <2>2
<1>11. WireInv'
  BY <1>2, <1>3, NotSending, WireStep DEF IInv, WorkerInv
<1> QED
  BY <1>6, <1>7, <1>8, <1>9, <1>10, <1>11 DEF WorkerInv

LEMMA CallTypes ==
  ASSUME TypeOK,
         UNCHANGED <<connection, incoming, edge, outgoing, received, remover, process>>,
         worker' \in [Workers -> Frames], m_socketMutex' \in Workers \cup {"remover", Nil},
         events' \in Nat, calls' \in 0..MaxCalls, unguarded' \in BOOLEAN
  PROVE  TypeOK'
<1>1. ConnectionTypes' /\ IncomingTypes'
  BY TypeParts DEF ConnectionTypes, IncomingTypes, connection, incoming, received
<1>2. OutgoingTypes' /\ ControlTypes'
  BY TypeParts DEF OutgoingTypes, ControlTypes, outgoing, received
<1> QED
  BY <1>1, <1>2, TypesNext

LEMMA CallReceiveDataStep ==
  ASSUME IInv, NEW w \in Workers, CallReceiveData(w)
  PROVE  IInv'
<1> USE DEF connection, incoming, outgoing, received, rest
<1>1. worker' \in [Workers -> Frames] /\ WorkerInv'
  <2>1. "receiveData" \in Calls \ {"none"} /\ 0 \in (-1)..(IntRange - 1)
    BY Numbers DEF Calls
  <2> QED
    BY <2>1, CallStep DEF CallReceiveData
<1>2. TypeOK'
  <2>1. events' \in Nat
    BY DEF IInv, TypeOK, CallReceiveData
  <2>2. m_socketMutex' = m_socketMutex /\ calls' = calls /\ unguarded' = unguarded
    BY DEF CallReceiveData
  <2>3. UNCHANGED <<connection, incoming, edge, outgoing, received, remover, process>>
    BY DEF CallReceiveData
  <2>4. /\ m_socketMutex' \in Workers \cup {"remover", Nil}
        /\ calls' \in 0..MaxCalls /\ unguarded' \in BOOLEAN
    BY <2>2 DEF IInv, TypeOK
  <2> QED
    BY <1>1, <2>1, <2>3, <2>4, CallTypes DEF IInv
<1>3. RecordInv'
  BY DEF IInv, RecordInv, CallReceiveData
<1> QED
  BY <1>1, <1>2, <1>3 DEF IInv

LEMMA CallReceivePartialDataStep ==
  ASSUME IInv, NEW w \in Workers, CallReceivePartialData(w)
  PROVE  IInv'
<1> USE DEF connection, incoming, epoll, outgoing, received
<1>1. /\ unguarded' = (unguarded \/ ~Tls)
      /\ UNCHANGED <<connection, m_socketMutex, incoming, epoll, outgoing, received, remover>>
  BY DEF CallReceivePartialData
<1>2. calls' \in 0..MaxCalls
  <2>1. calls \in 0..MaxCalls /\ MaxCalls \in Nat /\ calls < MaxCalls /\ calls' = calls + 1
    BY Numbers DEF IInv, TypeOK, CallReceivePartialData
  <2> QED
    BY <2>1
<1>3. RecordInv'
  BY <1>1 DEF IInv, RecordInv
<1>4. CASE \E size \in (-1)..MaxBytes : Call(w, "receivePartialData", size, Nil) /\ UNCHANGED process
  <2>1. PICK size \in (-1)..MaxBytes : Call(w, "receivePartialData", size, Nil) /\ UNCHANGED process
    BY <1>4
  <2>2. "receivePartialData" \in Calls \ {"none"} /\ size \in (-1)..(IntRange - 1)
    BY Numbers DEF Calls
  <2>3. worker' \in [Workers -> Frames] /\ WorkerInv'
    BY <1>1, <2>1, <2>2, CallStep
  <2>4. unguarded' \in BOOLEAN /\ events' \in Nat /\ m_socketMutex' \in Workers \cup {"remover", Nil}
    BY <1>1 DEF IInv, TypeOK
  <2>5. UNCHANGED <<connection, incoming, edge, outgoing, received, remover, process>>
    BY <1>1, <2>1
  <2>6. TypeOK'
    BY <1>2, <2>3, <2>4, <2>5, CallTypes DEF IInv
  <2> QED
    BY <1>3, <2>3, <2>6 DEF IInv
<1>5. CASE Terminate /\ UNCHANGED worker
  <2>1. TypeOK'
    BY <1>1, <1>2, <1>5, SMTT(20) DEF IInv, TypeOK, Terminate
  <2>2. arrived \in Nat /\ drained \in Nat /\ arrived >= arrived /\ drained >= drained
    BY DEF IInv, TypeOK
  <2>3. /\ FrameInv' /\ AvailabilityHolds' /\ StreamInv' /\ WireInv'
    BY <1>1, <1>5, <2>2, FramesKept, AvailabilityKept, StreamKept, WireKept DEF IInv, WorkerInv
  <2>4. MutexInv'
    BY <1>1, <1>5 DEF IInv, WorkerInv, MutexInv, Tls
  <2> QED
    BY <1>3, <2>1, <2>3, <2>4 DEF IInv, WorkerInv
<1> QED
  BY <1>4, <1>5 DEF CallReceivePartialData

LEMMA CallSendDataStep ==
  ASSUME IInv, NEW w \in Workers, CallSendData(w)
  PROVE  IInv'
<1> USE DEF connection, incoming, epoll, outgoing, received
<1>1. PICK msg \in Messages : Call(w, "sendData", 0, msg)
  BY DEF CallSendData
<1>2. "sendData" \in Calls \ {"none"} /\ 0 \in (-1)..(IntRange - 1)
  BY Numbers DEF Calls
<1>3. worker' \in [Workers -> Frames] /\ WorkerInv'
  BY <1>1, <1>2, CallStep DEF CallSendData
<1>4. TypeOK'
  <2>1. calls' \in 0..MaxCalls
    <3>1. calls \in 0..MaxCalls /\ MaxCalls \in Nat /\ calls < MaxCalls /\ calls' = calls + 1
      BY Numbers DEF IInv, TypeOK, CallSendData
    <3> QED
      BY <3>1
  <2>2. /\ events' \in Nat /\ m_socketMutex' \in Workers \cup {"remover", Nil}
        /\ unguarded' \in BOOLEAN
    BY DEF IInv, TypeOK, CallSendData
  <2>3. UNCHANGED <<connection, incoming, edge, outgoing, received, remover, process>>
    BY DEF CallSendData
  <2> QED
    BY <1>3, <2>1, <2>2, <2>3, CallTypes DEF IInv
<1>5. RecordInv'
  BY DEF IInv, RecordInv, CallSendData
<1> QED
  BY <1>3, <1>4, <1>5 DEF IInv

(* A worker comes to read() or SSL_read with nothing in its hands.          *)
LEMMA StreamEnter ==
  ASSUME TypeOK, StreamInv, NEW w \in Workers, NEW f \in Frames, Enter(w, f),
         f.pc = "read" => f.got = <<>>, worker[w].pc # "read",
         f.pc = "read" /\ ~unguarded => \A v \in Workers : worker[v].pc # "read",
         UNCHANGED <<taken, delivered, lost, unguarded>>
  PROVE  StreamInv'
<1>1. CASE f.pc # "read"
  BY <1>1, StreamStep
<1>2. CASE f.pc = "read"
  <2> SUFFICES ASSUME lost = {}, ~unguarded PROVE StreamInv'
    BY DEF StreamInv
  <2>1. taken = Len(delivered) /\ delivered = Counting(0, Len(delivered))
    BY <1>2 DEF StreamInv
  <2>2. \A v \in Workers : worker'[v].pc = "read" => v = w
    BY <1>2, EnterFrame
  <2>3. worker'[w].pc = "read" /\ worker'[w].got = <<>>
    BY <1>2, EnterFrame
  <2>4. Len(delivered) \in Nat
    BY DEF TypeOK
  <2>5. Counting(Len(delivered), 0) = <<>> /\ Len(<<>>) = 0
    BY DEF Counting
  <2>6. taken = Len(delivered) + 0
    BY <2>1, <2>4
  <2>7. \A v \in Workers : worker'[v].pc = "read" =>
          /\ taken = Len(delivered) + Len(worker'[v].got)
          /\ worker'[v].got = Counting(Len(delivered), Len(worker'[v].got))
    BY <2>2, <2>3, <2>5, <2>6
  <2>8. ~ \A v \in Workers : worker'[v].pc # "read"
    BY <2>3
  <2> QED
    BY <2>1, <2>7, <2>8 DEF StreamInv
<1> QED
  BY <1>1, <1>2

LEMMA LockStep ==
  ASSUME IInv, NEW w \in Workers, Lock(w)
  PROVE  IInv'
<1> USE DEF connection, incoming, epoll, outgoing, received, rest
<1>1. PICK f : f = [worker[w] EXCEPT !.pc = NextPc(worker[w].call)]
  OBVIOUS
<1>2. worker[w].pc = "lock" /\ m_socketMutex = Nil /\ m_socketMutex' = w /\ Enter(w, f)
  BY <1>1 DEF Lock, TakeMutex
<1>3. worker[w] \in Frames /\ Proper(worker[w])
  BY WorkerFrames DEF IInv, WorkerInv, FrameInv
<1>4. worker[w].got = <<>> /\ worker[w].sent = 0
  BY <1>2, <1>3, NotSending DEF IInv, WorkerInv, Proper
<1>5. NextPc(worker[w].call) \in {"available", "read", "send"}
  BY DEF NextPc
<1>6. /\ f \in Frames /\ f.pc = NextPc(worker[w].call) /\ f.call = worker[w].call
      /\ f.size = worker[w].size /\ f.got = worker[w].got /\ f.msg = worker[w].msg
      /\ f.sent = worker[w].sent
  BY <1>1, <1>3, <1>5 DEF Frames
<1>7. f.call \in {"receiveData", "receivePartialData", "sendData"}
  BY <1>2, <1>3, <1>6 DEF Proper, Frames, Calls
<1>8. f.pc = "read" => Tls
  BY <1>2, <1>3, <1>6, <1>7 DEF Proper, NextPc
<1>9. Proper(f)'
  BY <1>2, <1>3, <1>4, <1>6, <1>7, <1>8 DEF Proper, NextPc, Tls, Lock
<1>10. worker' \in [Workers -> Frames]
  BY <1>2, <1>6, EnterFrame DEF IInv
<1>11. TypeOK'
  <2>1. m_socketMutex' \in Workers \cup {"remover", Nil}
    BY <1>2
  <2>2. events' \in Nat /\ calls' \in 0..MaxCalls /\ unguarded' \in BOOLEAN
    BY DEF IInv, TypeOK, Lock
  <2>3. UNCHANGED <<connection, incoming, edge, outgoing, received, remover, process>>
    BY DEF Lock
  <2> QED
    BY <1>10, <2>1, <2>2, <2>3, CallTypes DEF IInv
<1>12. RecordInv'
  BY DEF IInv, RecordInv, Lock
<1>13. FrameInv'
  BY <1>2, <1>6, <1>9, FrameStep DEF IInv, WorkerInv, Lock
<1>14. MutexInv'
  BY <1>2, <1>6, MutexStep DEF IInv, WorkerInv, Lock
<1>15. AvailabilityHolds'
  BY <1>2, <1>6, <1>8, AvailabilityStep DEF IInv, WorkerInv, Lock
<1>16. StreamInv'
  <2>1. f.pc = "read" => \A v \in Workers : worker[v].pc # "read"
    BY <1>2, <1>8, Alone DEF IInv, WorkerInv
  <2> QED
    BY <1>2, <1>4, <1>6, <2>1, StreamEnter DEF IInv, WorkerInv, Lock
<1>17. WireInv'
  BY <1>2, <1>4, <1>6, WireStep DEF IInv, WorkerInv, Lock
<1> QED
  BY <1>11, <1>12, <1>13, <1>14, <1>15, <1>16, <1>17 DEF IInv, WorkerInv

-------------------------------------------------------------------------------
(* A call returns *)

LEMMA ReturnTypes ==
  ASSUME TypeOK, NEW w \in Workers, Return(w)
  PROVE  /\ Enter(w, Idle) /\ worker' \in [Workers -> Frames]
         /\ m_socketMutex' \in Workers \cup {"remover", Nil}
BY IdleFrame, EnterFrame DEF Return, TypeOK

LEMMA ReturnStep ==
  ASSUME TypeOK, FrameInv, MutexInv, AvailabilityHolds, NEW w \in Workers, Return(w),
         UNCHANGED <<handler, remover, arrived, unguarded>>,
         taken' = taken \/ \A v \in Workers : v # w /\ ~Tls /\ ~unguarded => worker[v].pc # "read"
  PROVE  FrameInv' /\ MutexInv' /\ AvailabilityHolds'
<1>1. Enter(w, Idle) /\ Idle.pc = "idle" /\ Idle.got = <<>>
  BY DEF Return, Idle
<1>2. Proper(Idle)'
  BY DEF Proper, Idle
<1>3. FrameInv'
  BY <1>1, <1>2, IdleFrame, FrameStep
<1>4. MutexInv'
  <2>1. \/ m_socketMutex' = m_socketMutex
        \/ m_socketMutex = w /\ m_socketMutex' = Nil
    BY DEF Return
  <2> QED
    BY <1>1, <2>1, IdleFrame, MutexStep
<1>5. AvailabilityHolds'
  <2>1. CASE taken' = taken
    BY <1>1, <2>1, IdleFrame, AvailabilityStep
  <2>2. CASE \A v \in Workers : v # w /\ ~Tls /\ ~unguarded => worker[v].pc # "read"
    BY <1>1, <2>2, IdleFrame, EnterFrame DEF AvailabilityHolds, Tls
  <2> QED
    BY <2>1, <2>2
<1> QED
  BY <1>3, <1>4, <1>5

(* A call that is not at read() returns, and has touched nothing.           *)
LEMMA ReturnQuietly ==
  ASSUME IInv, NEW w \in Workers, Return(w), worker[w].pc # "read", worker[w].sent = 0,
         UNCHANGED <<handler, remover, arrived, unguarded, taken, delivered, lost, wire, drained,
                     cuts, pendingWrite>>
  PROVE  WorkerInv'
<1>1. Enter(w, Idle) /\ Idle.pc = "idle" /\ Idle.sent = 0
  BY DEF Return, Idle
<1>2. FrameInv' /\ MutexInv' /\ AvailabilityHolds'
  BY ReturnStep DEF IInv, WorkerInv
<1>3. StreamInv'
  BY <1>1, IdleFrame, StreamStep DEF IInv, WorkerInv
<1>4. WireInv'
  BY <1>1, IdleFrame, WireStep DEF IInv, WorkerInv
<1> QED
  BY <1>2, <1>3, <1>4 DEF WorkerInv

(* The process ends in the middle of a call. *)
LEMMA TerminateStep ==
  ASSUME IInv, Terminate,
         UNCHANGED <<connection, m_socketMutex, incoming, epoll, outgoing, received, worker, remover,
                     calls, unguarded>>
  PROVE  IInv'
<1> USE DEF connection, incoming, epoll, outgoing, received
<1>1. TypeOK'
  BY DEF IInv, TypeOK, Terminate
<1>2. RecordInv'
  BY DEF IInv, RecordInv
<1>3. arrived \in Nat /\ drained \in Nat /\ arrived >= arrived /\ drained >= drained
  BY DEF IInv, TypeOK
<1>4. WorkerInv'
  BY <1>3, WorkersKept DEF IInv
<1> QED
  BY <1>1, <1>2, <1>4 DEF IInv

-------------------------------------------------------------------------------
(* Receiving *)

LEMMA ReceiveTypes ==
  ASSUME TypeOK, UNCHANGED <<connection, incoming, epoll, outgoing, rest>>,
         worker' \in [Workers -> Frames], m_socketMutex' \in Workers \cup {"remover", Nil},
         taken' \in 0..arrived, delivered' \in Seq(Bytes), lost' \subseteq Bytes
  PROVE  TypeOK'
<1>1. /\ UNCHANGED <<handler, m_SSL, descriptor, peer, arrived, recordEnds, edge, events>>
      /\ UNCHANGED <<wire, drained, pendingWrite, cuts, remover, calls, unguarded, process>>
  BY DEF connection, incoming, epoll, outgoing, rest
<1>2. ConnectionTypes' /\ IncomingTypes'
  BY <1>1, TypeParts DEF ConnectionTypes, IncomingTypes
<1>3. OutgoingTypes' /\ ControlTypes'
  BY <1>1, TypeParts DEF OutgoingTypes, ControlTypes
<1> QED
  BY <1>2, <1>3, TypesNext

LEMMA GetAvailableStep ==
  ASSUME IInv, NEW w \in Workers, GetAvailable(w)
  PROVE  IInv'
<1> USE DEF connection, incoming, epoll, outgoing, rest
<1>1. worker[w].pc = "available" /\ worker[w] \in Frames /\ Proper(worker[w])
  BY WorkerFrames DEF IInv, WorkerInv, FrameInv, GetAvailable
<1>2. /\ worker[w].call = "receiveData" /\ ~Tls /\ worker[w].got = <<>> /\ m_socketMutex = w
      /\ worker[w].sent = 0
  BY <1>1, NotSending DEF IInv, WorkerInv, MutexInv, Proper
<1>3. /\ arrived - taken \in 0..MaxBytes /\ arrived - taken \in (-1)..(IntRange - 1)
      /\ arrived - taken = 0 <=> arrived = taken
  <2>1. arrived \in 0..MaxBytes /\ taken \in 0..arrived
    BY DEF IInv, TypeOK
  <2> QED
    BY <2>1, Numbers
<1>4. PICK garbage \in {0, 1} :
        LET size == ToInt(BytesAvailable(garbage))
        IN  IF size = 0 THEN Deliver(w, <<>>)
            ELSE /\ Enter(w, [worker[w] EXCEPT !.pc = "read", !.size = size])
                 /\ UNCHANGED <<m_socketMutex, delivered, lost>>
  BY DEF GetAvailable
<1>5. ToInt(BytesAvailable(garbage)) = arrived - taken
  BY <1>3, ToIntOfAvailable DEF BytesAvailable
<1>6. IF arrived - taken = 0 THEN Deliver(w, <<>>)
      ELSE /\ Enter(w, [worker[w] EXCEPT !.pc = "read", !.size = arrived - taken])
           /\ UNCHANGED <<m_socketMutex, delivered, lost>>
  <2> DEFINE size == ToInt(BytesAvailable(garbage))
  <2>1. size = arrived - taken
    BY <1>5
  <2>2. IF size = 0 THEN Deliver(w, <<>>)
        ELSE /\ Enter(w, [worker[w] EXCEPT !.pc = "read", !.size = size])
             /\ UNCHANGED <<m_socketMutex, delivered, lost>>
    BY <1>4
  <2> HIDE DEF size
  <2> QED
    BY <2>1, <2>2
<1>9. RecordInv'
  BY DEF IInv, RecordInv, GetAvailable
<1>7. CASE arrived = taken
  <2>1. Return(w) /\ delivered' = delivered \o <<>> /\ lost' = lost
    BY <1>3, <1>6, <1>7 DEF Deliver
  <2>2. delivered' = delivered
    BY <2>1 DEF IInv, TypeOK
  <2>3. TypeOK'
    <3>1. taken' \in 0..arrived /\ delivered' \in Seq(Bytes) /\ lost' \subseteq Bytes
      BY <2>1, <2>2 DEF IInv, TypeOK, GetAvailable
    <3> QED
      BY <2>1, <3>1, ReturnTypes, ReceiveTypes DEF IInv, GetAvailable
  <2>4. WorkerInv'
    BY <1>1, <1>2, <2>1, <2>2, ReturnQuietly DEF GetAvailable
  <2> QED
    BY <1>9, <2>3, <2>4 DEF IInv
<1>8. CASE arrived # taken
  <2>1. PICK f : f = [worker[w] EXCEPT !.pc = "read", !.size = arrived - taken]
    OBVIOUS
  <2>2. Enter(w, f) /\ UNCHANGED <<m_socketMutex, delivered, lost>>
    BY <1>3, <1>6, <1>8, <2>1
  <2>3. /\ f \in Frames /\ f.pc = "read" /\ f.call = "receiveData" /\ f.size = arrived - taken
        /\ f.got = <<>> /\ f.sent = 0 /\ f.msg = worker[w].msg
    BY <1>1, <1>2, <1>3, <2>1 DEF Frames
  <2>4. UNCHANGED <<handler, remover, arrived, taken, unguarded, wire, drained, cuts, pendingWrite>>
    BY DEF GetAvailable
  <2>5. TypeOK'
    <3>1. worker' \in [Workers -> Frames]
      BY <2>2, <2>3, EnterFrame DEF IInv
    <3>2. /\ taken' \in 0..arrived /\ delivered' \in Seq(Bytes) /\ lost' \subseteq Bytes
          /\ m_socketMutex' \in Workers \cup {"remover", Nil}
      BY <2>2 DEF IInv, TypeOK, GetAvailable
    <3> QED
      BY <3>1, <3>2, ReceiveTypes DEF IInv, GetAvailable
  <2>6. FrameInv'
    <3>1. Proper(f)'
      BY <1>2, <2>3, <2>4 DEF Proper, Tls
    <3> QED
      BY <2>2, <2>3, <2>4, <3>1, FrameStep DEF IInv, WorkerInv
  <2>7. MutexInv'
    BY <1>2, <2>2, <2>3, <2>4, MutexStep DEF IInv, WorkerInv
  <2>8. AvailabilityHolds'
    <3>1. f.size - Len(f.got) <= arrived - taken
      <4>1. Len(f.got) = 0
        BY <2>3
      <4> QED
        BY <1>3, <2>3, <4>1
    <3> QED
      BY <2>2, <2>3, <2>4, <3>1, AvailabilityStep DEF IInv, WorkerInv
  <2>9. StreamInv'
    <3>1. ~unguarded => \A v \in Workers : worker[v].pc # "read"
      BY <1>1, <1>2, Alone DEF IInv, WorkerInv
    <3> QED
      BY <1>1, <2>2, <2>3, <2>4, <3>1, StreamEnter DEF IInv, WorkerInv
  <2>10. WireInv'
    BY <1>2, <2>2, <2>3, <2>4, WireStep DEF IInv, WorkerInv
  <2> QED
    BY <1>9, <2>5, <2>6, <2>7, <2>8, <2>9, <2>10 DEF IInv, WorkerInv
<1> QED
  BY <1>7, <1>8

LEMMA GetAvailableFailsStep ==
  ASSUME IInv, NEW w \in Workers, GetAvailableFails(w)
  PROVE  IInv'
BY TerminateStep DEF GetAvailableFails

(* What one read returns is there, and never more than its buffer takes.    *)
LEMMA ReadSize ==
  ASSUME IInv, NEW w \in Workers, Reading(w), arrived > taken, NEW n \in ReadSizes(w)
  PROVE  /\ n \in Nat /\ n <= arrived - taken
         /\ ~Tls \/ worker[w].call = "receivePartialData" => n <= worker[w].size - Len(worker[w].got)
<1>1. arrived \in Nat /\ taken \in Nat /\ BufferSize \in Nat /\ recordEnds \subseteq 1..arrived
  BY Numbers DEF IInv, TypeOK
<1>2. worker[w] \in Frames /\ Proper(worker[w]) /\ worker[w].pc = "read"
  BY WorkerFrames DEF IInv, WorkerInv, FrameInv, Reading
<1>3. PICK left \in Int : left = worker[w].size - Len(worker[w].got)
  BY <1>2, Numbers DEF Frames
<1>4. CASE ~Tls
  <2>1. Wanted(w) = left
    BY <1>3, <1>4 DEF Wanted
  <2>2. n \in 1..Smaller(left, arrived - taken)
    BY <1>4, <2>1 DEF ReadSizes
  <2> QED
    BY <1>1, <1>3, <2>2 DEF Smaller
<1>5. CASE Tls
  <2> DEFINE ahead == {e \in recordEnds : e > taken}
  <2>1. arrived \in ahead /\ ahead \in SUBSET Nat
    <3>1. arrived > 0
      BY <1>1
    <3>2. arrived \in recordEnds
      BY <3>1 DEF IInv, RecordInv
    <3>3. \A e \in recordEnds : e \in Nat
      BY <1>1
    <3> QED
      BY <3>2, <3>3
  <2>2. Min(ahead) \in ahead
    BY <2>1, MinimumIn
  <2>3. PICK first \in Nat : first = Min(ahead) /\ first > taken /\ first <= arrived
    <3>1. \A e \in ahead : e \in Nat /\ e > taken /\ e <= arrived
      BY <1>1
    <3> HIDE DEF ahead
    <3> QED
      BY <2>2, <3>1
  <2>4. worker[w].call = "receivePartialData" => left > 0
    <3>1. worker[w].call = "receivePartialData" => Len(worker[w].got) < worker[w].size
      BY <1>2, <1>5 DEF Proper, Reading
    <3>2. Len(worker[w].got) \in Nat /\ worker[w].size \in Int
      BY <1>2, Numbers DEF Frames
    <3> QED
      BY <1>3, <3>1, <3>2
  <2>5. worker[w].call \in {"receiveData", "receivePartialData"}
    BY <1>2 DEF Proper
  <2>6. PICK wanted \in Nat : /\ wanted = Wanted(w)
                              /\ worker[w].call = "receivePartialData" => wanted <= left
    BY <1>1, <1>3, <1>5, <2>4, <2>5 DEF Wanted, Smaller
  <2>7. n = Smaller(wanted, first - taken)
    BY <1>5, <2>3, <2>6 DEF ReadSizes
  <2> HIDE DEF ahead
  <2> QED
    BY <1>1, <1>3, <1>5, <2>3, <2>6, <2>7 DEF Smaller
<1> QED
  BY <1>4, <1>5

(* As long as the stream is whole a worker at read() has the mutex.         *)
LEMMA OneReader ==
  ASSUME FrameInv, MutexInv, NEW w \in Workers, worker[w].pc = "read", Tls \/ ~unguarded
  PROVE  m_socketMutex = w /\ \A v \in Workers : v # w => worker[v].pc # "read"
<1>1. m_socketMutex = w
  BY DEF FrameInv, Proper, MutexInv
<1> QED
  BY <1>1, Alone

(* The call that reads ends: all that was read is now delivered.            *)
LEMMA StreamDeliver ==
  ASSUME TypeOK, FrameInv, MutexInv, StreamInv, NEW w \in Workers, worker[w].pc = "read",
         NEW n \in Nat, NEW bytes \in Seq(Nat), Deliver(w, bytes), unguarded' = unguarded,
         ~unguarded /\ lost = {} => /\ bytes = Counting(Len(delivered), n)
                                   /\ taken' = Len(delivered) + n
  PROVE  StreamInv'
<1> SUFFICES ASSUME lost = {}, ~unguarded PROVE StreamInv'
  BY DEF StreamInv, Deliver
<1>1. Len(delivered) \in Nat /\ delivered = Counting(0, Len(delivered))
  BY DEF TypeOK, StreamInv
<1>2. PICK d \in Nat : d = Len(delivered)
  BY <1>1
<1>3. delivered' = Counting(0, d + n)
  <2>1. delivered' = Counting(0, d) \o Counting(d, n)
    BY <1>1, <1>2 DEF Deliver
  <2>2. Counting(0, d) \o Counting(0 + d, n) = Counting(0, d + n)
    BY CountingOn
  <2>3. 0 + d = d
    OBVIOUS
  <2> QED
    BY <2>1, <2>2, <2>3
<1>4. Len(delivered') = d + n
  <2>1. d + n \in Nat
    BY <1>2
  <2> QED
    BY <1>3, <2>1 DEF Counting
<1>5. taken' = Len(delivered')
  BY <1>2, <1>4
<1>6. delivered' = Counting(0, Len(delivered'))
  BY <1>3, <1>4
<1>7. \A v \in Workers : worker'[v].pc # "read"
  BY OneReader, EnterFrame, IdleFrame DEF Deliver, Return, Idle
<1> QED
  BY <1>5, <1>6, <1>7 DEF StreamInv, Counting

(* ... or ends with -1, and the stream is broken if it had read anything.   *)
LEMMA StreamDiscard ==
  ASSUME TypeOK, FrameInv, MutexInv, StreamInv, NEW w \in Workers,
         worker[w].pc = "read" \/ worker[w].got = <<>>,
         Discard(w, worker[w].got), UNCHANGED <<taken, unguarded>>
  PROVE  StreamInv'
<1> SUFFICES ASSUME lost' = {}, ~unguarded PROVE StreamInv'
  BY DEF StreamInv
<1>1. Return(w) /\ delivered' = delivered /\ lost' = lost \cup {worker[w].got[k] : k \in 1..Len(worker[w].got)}
  BY DEF Discard
<1>2. Enter(w, Idle) /\ Idle.pc = "idle"
  BY <1>1 DEF Return, Idle
<1>3. CASE worker[w].pc # "read"
  <2>1. 1..Len(<<>>) = {}
    OBVIOUS
  <2>2. lost' = lost
    BY <1>1, <1>3, <2>1
  <2> QED
    BY <1>1, <1>2, <1>3, <2>2, IdleFrame, StreamStep
<1>4. CASE worker[w].pc = "read"
  <2>1. lost = {} /\ ~ \E k \in 1..Len(worker[w].got) : TRUE
    BY <1>1
  <2>2. Len(worker[w].got) = 0
    BY <2>1, WorkerFrames DEF Frames
  <2>3. Len(delivered) \in Nat
    BY DEF TypeOK
  <2>4. taken' = Len(delivered')
    BY <1>1, <1>4, <2>1, <2>2, <2>3 DEF StreamInv
  <2>5. delivered' = Counting(0, Len(delivered'))
    BY <1>1, <2>1 DEF StreamInv, Counting
  <2>6. \A v \in Workers : worker'[v].pc # "read"
    BY <1>2, <1>4, OneReader, EnterFrame, IdleFrame
  <2> QED
    BY <2>4, <2>5, <2>6 DEF StreamInv, Counting
<1> QED
  BY <1>3, <1>4

LEMMA ReadStep ==
  ASSUME IInv, NEW w \in Workers, Read(w)
  PROVE  IInv'
<1> USE DEF connection, incoming, epoll, outgoing, rest
<1>1. /\ worker[w].pc = "read" /\ worker[w] \in Frames /\ Proper(worker[w]) /\ arrived > taken
      /\ Reading(w)
  BY WorkerFrames DEF IInv, WorkerInv, FrameInv, Read, Reading
<1>2. worker[w].sent = 0
  BY <1>1, NotSending DEF IInv, WorkerInv
<1>3. arrived \in 0..MaxBytes /\ taken \in 0..arrived /\ MaxBytes \in Nat /\ Len(delivered) \in Nat
  BY Numbers DEF IInv, TypeOK
<1>4. UNCHANGED <<connection, incoming, epoll, outgoing, rest>>
  BY DEF Read
<1>0. PICK n \in ReadSizes(w) : \E got :
        /\ got = worker[w].got \o [k \in 1..n |-> taken + k]
        /\ taken' = taken + n
        /\ IF Enough(w, n, Len(got)) THEN Deliver(w, got)
           ELSE /\ Enter(w, [worker[w] EXCEPT !.got = got])
                /\ UNCHANGED <<m_socketMutex, delivered, lost>>
  BY DEF Read
<1>5. PICK got :
        /\ got = worker[w].got \o [k \in 1..n |-> taken + k]
        /\ taken' = taken + n
        /\ IF Enough(w, n, Len(got)) THEN Deliver(w, got)
           ELSE /\ Enter(w, [worker[w] EXCEPT !.got = got])
                /\ UNCHANGED <<m_socketMutex, delivered, lost>>
  BY <1>0
<1>6. /\ n \in Nat /\ n <= arrived - taken
      /\ ~Tls \/ worker[w].call = "receivePartialData" => n <= worker[w].size - Len(worker[w].got)
  BY <1>1, ReadSize
<1>7. PICK m \in Nat : m = Len(worker[w].got)
  BY <1>1 DEF Frames
<1>8. got \in Seq(Bytes) /\ Len(got) = m + n /\ got \in Seq(Nat)
  <2>1. worker[w].got \in Seq(Bytes) /\ taken \in Nat /\ taken + n <= MaxBytes
    BY <1>1, <1>3, <1>6 DEF Frames
  <2>2. got \in Seq(Bytes) /\ Len(got) = Len(worker[w].got) + n
    BY <1>5, <1>6, <2>1, MoreBytes
  <2>3. Bytes \subseteq Nat
    BY <1>3 DEF Bytes
  <2> QED
    BY <1>7, <2>2, <2>3, WiderSequence
<1>9. ~unguarded /\ lost = {} => /\ got = Counting(Len(delivered), m + n)
                                 /\ taken' = Len(delivered) + (m + n)
  <2> SUFFICES ASSUME ~unguarded, lost = {}
               PROVE  /\ got = Counting(Len(delivered), m + n)
                      /\ taken' = Len(delivered) + (m + n)
    OBVIOUS
  <2>1. PICK d \in Nat : d = Len(delivered)
    BY <1>3
  <2>2. taken = d + m /\ worker[w].got = Counting(d, m)
    BY <1>1, <1>7, <2>1 DEF IInv, WorkerInv, StreamInv
  <2>3. got = Counting(d, m) \o Counting(d + m, n)
    BY <1>5, <2>2 DEF Counting
  <2>4. got = Counting(d, m + n)
    BY <1>6, <2>3, CountingOn
  <2>5. taken' = d + (m + n)
    BY <1>5, <1>6, <2>2
  <2> QED
    BY <2>1, <2>4, <2>5
<1>10. taken' \in 0..arrived
  BY <1>3, <1>5, <1>6
<1>11. RecordInv'
  BY <1>4 DEF IInv, RecordInv
<1>12. \A v \in Workers : v # w /\ ~Tls /\ ~unguarded => worker[v].pc # "read"
  BY <1>1, OneReader DEF IInv, WorkerInv
<1>13. CASE Enough(w, n, Len(got))
  <2>1. Deliver(w, got) /\ Return(w) /\ lost' = lost /\ delivered' = delivered \o got
    BY <1>5, <1>13 DEF Deliver
  <2>2. delivered' \in Seq(Bytes)
    BY <1>8, <2>1 DEF IInv, TypeOK
  <2>3. TypeOK'
    <3>1. lost' \subseteq Bytes
      BY <2>1 DEF IInv, TypeOK
    <3> QED
      BY <1>4, <1>10, <2>1, <2>2, <3>1, ReturnTypes, ReceiveTypes DEF IInv
  <2>4. FrameInv' /\ MutexInv' /\ AvailabilityHolds'
    BY <1>4, <1>12, <2>1, ReturnStep DEF IInv, WorkerInv
  <2>5. StreamInv'
    <3>1. m + n \in Nat /\ unguarded' = unguarded
      BY <1>4, <1>6
    <3> QED
      BY <1>1, <1>8, <1>9, <2>1, <3>1, StreamDeliver DEF IInv, WorkerInv
  <2>6. WireInv'
    <3>1. Enter(w, Idle) /\ Idle.sent = 0
      BY <2>1 DEF Return, Idle
    <3> QED
      BY <1>2, <1>4, <3>1, IdleFrame, WireStep DEF IInv, WorkerInv
  <2> QED
    BY <1>11, <2>3, <2>4, <2>5, <2>6 DEF IInv, WorkerInv
<1>14. CASE ~Enough(w, n, Len(got))
  <2>1. PICK f : f = [worker[w] EXCEPT !.got = got]
    OBVIOUS
  <2>2. Enter(w, f) /\ UNCHANGED <<m_socketMutex, delivered, lost>>
    BY <1>5, <1>14, <2>1
  <2>3. /\ f \in Frames /\ f.pc = "read" /\ f.call = worker[w].call /\ f.size = worker[w].size
        /\ f.got = got /\ f.sent = 0 /\ f.msg = worker[w].msg
    BY <1>1, <1>2, <1>8, <2>1 DEF Frames
  <2>4. worker' \in [Workers -> Frames]
    BY <2>2, <2>3, EnterFrame DEF IInv
  <2>5. TypeOK'
    <3>1. /\ delivered' \in Seq(Bytes) /\ lost' \subseteq Bytes
          /\ m_socketMutex' \in Workers \cup {"remover", Nil}
      BY <2>2 DEF IInv, TypeOK
    <3> QED
      BY <1>4, <1>10, <2>4, <3>1, ReceiveTypes DEF IInv
  <2>6. FrameInv'
    <3>1. f.call = "receivePartialData" /\ Tls => Len(got) < f.size
      <4>1. PICK size \in Int : size = worker[w].size
        BY <1>1, Numbers DEF Frames
      <4>2. m + n # size
        BY <1>8, <1>14, <4>1 DEF Enough
      <4>3. worker[w].call = "receivePartialData" => n <= size - m
        BY <1>6, <1>7, <4>1
      <4>4. worker[w].call = "receivePartialData" => m + n < size
        BY <1>6, <4>2, <4>3
      <4> QED
        BY <1>8, <2>3, <4>1, <4>4
    <3>2. Proper(f)'
      BY <1>1, <1>4, <2>3, <3>1 DEF Proper, Tls
    <3> QED
      BY <1>4, <2>2, <2>3, <3>2, FrameStep DEF IInv, WorkerInv
  <2>7. MutexInv'
    BY <1>1, <1>4, <2>2, <2>3, MutexStep DEF IInv, WorkerInv, MutexInv
  <2>8. AvailabilityHolds'
    <3> SUFFICES ASSUME NEW v \in Workers, worker'[v].pc = "read", ~Tls, ~unguarded
                 PROVE  worker'[v].size - Len(worker'[v].got) <= arrived' - taken'
      BY <1>4 DEF AvailabilityHolds, Tls
    <3>1. v = w
      BY <1>12, <2>2, <2>3, EnterFrame DEF IInv
    <3>2. worker[w].size - m <= arrived - taken
      BY <1>1, <1>7 DEF IInv, WorkerInv, AvailabilityHolds
    <3>3. worker'[w].size = worker[w].size /\ Len(worker'[w].got) = m + n
      BY <1>8, <2>2, <2>3, EnterFrame DEF IInv
    <3>4. PICK size \in Int : size = worker[w].size
      BY <1>1, Numbers DEF Frames
    <3>5. size - (m + n) <= arrived - (taken + n)
      <4>1. arrived \in Nat /\ taken \in Nat /\ n \in Nat /\ size - m <= arrived - taken
        BY <1>3, <1>6, <3>2, <3>4
      <4> QED
        BY <4>1
    <3>6. arrived' = arrived /\ taken' = taken + n
      BY <1>4, <1>5, ZenonT(30)
    <3> QED
      BY <3>1, <3>3, <3>4, <3>5, <3>6
  <2>9. StreamInv'
    <3> SUFFICES ASSUME lost = {}, ~unguarded PROVE StreamInv'
      BY <1>4, <2>2 DEF StreamInv
    <3>1. delivered' = Counting(0, Len(delivered')) /\ delivered' = delivered
      BY <2>2 DEF IInv, WorkerInv, StreamInv, Counting
    <3>2. worker'[w] = f /\ f.pc = "read"
      BY <2>2, <2>3, EnterFrame DEF IInv
    <3>3. \A v \in Workers : worker'[v].pc = "read" => v = w
      BY <1>1, <2>2, <2>3, EnterFrame, OneReader DEF IInv, WorkerInv
    <3>4. /\ taken' = Len(delivered') + Len(f.got)
          /\ f.got = Counting(Len(delivered'), Len(f.got))
      BY <1>8, <1>9, <2>3, <3>1
    <3> QED
      BY <3>1, <3>2, <3>3, <3>4, Zenon DEF StreamInv, Counting
  <2>10. WireInv'
    BY <1>2, <1>4, <2>2, <2>3, WireStep DEF IInv, WorkerInv
  <2> QED
    BY <1>11, <2>5, <2>6, <2>7, <2>8, <2>9, <2>10 DEF IInv, WorkerInv
<1> QED
  BY <1>13, <1>14

(* A receiving call that ends without another byte.                         *)
LEMMA DeliverStep ==
  ASSUME IInv, NEW w \in Workers, worker[w].pc = "read", Deliver(w, worker[w].got),
         UNCHANGED <<connection, incoming, epoll, outgoing, taken, rest>>
  PROVE  IInv'
<1> USE DEF connection, incoming, epoll, outgoing, rest
<1>1. Return(w) /\ lost' = lost /\ delivered' = delivered \o worker[w].got
  BY DEF Deliver
<1>2. worker[w].got \in Seq(Bytes) /\ Len(worker[w].got) \in Nat
  BY WorkerFrames DEF IInv, Frames
<1>3. TypeOK'
  <2>1. taken' \in 0..arrived /\ delivered' \in Seq(Bytes) /\ lost' \subseteq Bytes
    BY <1>1, <1>2 DEF IInv, TypeOK
  <2> QED
    BY <1>1, <2>1, ReturnTypes, ReceiveTypes DEF IInv
<1>4. RecordInv'
  BY DEF IInv, RecordInv
<1>5. FrameInv' /\ MutexInv' /\ AvailabilityHolds'
  BY <1>1, ReturnStep DEF IInv, WorkerInv
<1>6. StreamInv'
  <2>1. worker[w].got \in Seq(Nat)
    <3>1. Bytes \subseteq Nat
      BY Numbers DEF Bytes
    <3> QED
      BY <1>2, <3>1, WiderSequence
  <2>2. ~unguarded /\ lost = {} =>
          /\ worker[w].got = Counting(Len(delivered), Len(worker[w].got))
          /\ taken' = Len(delivered) + Len(worker[w].got)
    BY DEF IInv, WorkerInv, StreamInv
  <2> QED
    BY <1>2, <2>1, <2>2, StreamDeliver DEF IInv, WorkerInv
<1>7. WireInv'
  <2>1. Enter(w, Idle) /\ Idle.sent = 0
    BY <1>1 DEF Return, Idle
  <2>2. worker[w].sent = 0
    BY NotSending DEF IInv, WorkerInv
  <2> QED
    BY <2>1, <2>2, IdleFrame, WireStep DEF IInv, WorkerInv
<1> QED
  BY <1>3, <1>4, <1>5, <1>6, <1>7 DEF IInv, WorkerInv

LEMMA DiscardStep ==
  ASSUME IInv, NEW w \in Workers, worker[w].pc = "read" \/ (Tls /\ worker[w].pc = "send"),
         Discard(w, worker[w].got),
         UNCHANGED <<connection, incoming, epoll, outgoing, taken, rest>>
  PROVE  IInv'
<1> USE DEF connection, incoming, epoll, outgoing, rest
<1>1. /\ Return(w) /\ delivered' = delivered
      /\ lost' = lost \cup {worker[w].got[k] : k \in 1..Len(worker[w].got)}
  BY DEF Discard
<1>2. worker[w].got \in Seq(Bytes)
  BY WorkerFrames DEF IInv, Frames
<1>3. TypeOK'
  <2>1. \A k \in 1..Len(worker[w].got) : worker[w].got[k] \in Bytes
    BY <1>2
  <2>2. taken' \in 0..arrived /\ delivered' \in Seq(Bytes) /\ lost \subseteq Bytes
    BY <1>1 DEF IInv, TypeOK
  <2>3. lost' \subseteq Bytes
    BY <1>1, <2>1, <2>2
  <2> QED
    BY <1>1, <2>2, <2>3, ReturnTypes, ReceiveTypes DEF IInv
<1>4. RecordInv'
  BY DEF IInv, RecordInv
<1>5. FrameInv' /\ MutexInv' /\ AvailabilityHolds'
  BY <1>1, ReturnStep DEF IInv, WorkerInv
<1>6. StreamInv'
  <2>1. worker[w].pc = "read" \/ worker[w].got = <<>>
    BY DEF IInv, WorkerInv, FrameInv, Proper
  <2> QED
    BY <2>1, StreamDiscard DEF IInv, WorkerInv
<1>7. WireInv'
  <2>1. Enter(w, Idle) /\ Idle.sent = 0
    BY <1>1 DEF Return, Idle
  <2>2. worker[w].sent = 0
    BY NotSending DEF IInv, WorkerInv
  <2> QED
    BY <2>1, <2>2, IdleFrame, WireStep DEF IInv, WorkerInv
<1> QED
  BY <1>3, <1>4, <1>5, <1>6, <1>7 DEF IInv, WorkerInv

LEMMA ReadNothingStep ==
  ASSUME IInv, NEW w \in Workers, ReadNothing(w)
  PROVE  IInv'
BY DeliverStep, DiscardStep DEF ReadNothing, Reading

LEMMA NothingAskedStep ==
  ASSUME IInv, NEW w \in Workers, NothingAsked(w)
  PROVE  IInv'
BY DeliverStep DEF NothingAsked

LEMMA ClosedMeanwhileStep ==
  ASSUME IInv, NEW w \in Workers, ClosedMeanwhile(w)
  PROVE  IInv'
<1>1. CASE Discard(w, worker[w].got) /\ UNCHANGED process
  BY <1>1, DiscardStep DEF ClosedMeanwhile, Reading, rest
<1>2. CASE Terminate /\ UNCHANGED <<m_socketMutex, worker, delivered, lost>>
  BY <1>2, TerminateStep DEF ClosedMeanwhile, received
<1> QED
  BY <1>1, <1>2 DEF ClosedMeanwhile

-------------------------------------------------------------------------------
(* Sending *)

(* What is put on the wire is a message, in order, and makes no new break.  *)
LEMMA UnitsWhole ==
  ASSUME NEW msg \in Messages, NEW first \in 1..Length, NEW last \in 0..Length, last >= first - 1
  PROVE  /\ Units(msg, first, last) \in Seq(Messages \X (1..Length))
         /\ Len(Units(msg, first, last)) = last - first + 1
         /\ \A k \in 1..(last - first + 1) : Units(msg, first, last)[k] = <<msg, first + k - 1>>
<1> DEFINE n == last - first + 1
<1>1. n \in Nat /\ \A k \in 1..n : first + k - 1 \in 1..Length
  BY Numbers
<1>2. Units(msg, first, last) = [k \in 1..n |-> <<msg, first + k - 1>>]
  BY DEF Units
<1>3. \A k \in 1..n : <<msg, first + k - 1>> \in Messages \X (1..Length)
  BY <1>1
<1> HIDE DEF n
<1>4. [k \in 1..n |-> <<msg, first + k - 1>>] \in Seq(Messages \X (1..Length))
  BY <1>1, <1>3
<1>5. Units(msg, first, last) \in Seq(Messages \X (1..Length)) /\ Len(Units(msg, first, last)) = n
  <2>1. Units(msg, first, last) \in Seq(Messages \X (1..Length))
    BY <1>2, <1>4
  <2>2. Len(Units(msg, first, last)) = n
    BY <1>1, <1>2
  <2> QED
    BY <2>1, <2>2
<1>6. \A k \in 1..n : Units(msg, first, last)[k] = <<msg, first + k - 1>>
  BY <1>2
<1> QED
  BY <1>5, <1>6 DEF n

(* What may come after a unit on the wire.                                  *)
Follows(unit, next, cut) ==
  \/ next[2] = unit[2] + 1 /\ (Tls \/ next[1] = unit[1])
  \/ next[2] = 1 /\ (unit[2] = Length \/ (~Tls /\ cut))

(* A unit of msg is the i-th, and of msg indeed unless the handler is TLS.  *)
UnitOf(unit, msg, i) == unit[2] = i /\ (Tls \/ unit[1] = msg)

LEMMA NextUnit ==
  ASSUME NEW msg, NEW i, NEW j, NEW unit, NEW next, NEW cut,
         UnitOf(unit, msg, i), UnitOf(next, msg, j), j = i + 1
  PROVE  Follows(unit, next, cut)
BY DEF Follows, UnitOf

LEMMA FirstUnit ==
  ASSUME NEW msg, NEW unit, NEW next, NEW cut,
         unit[2] = Length \/ (~Tls /\ cut), UnitOf(next, msg, 1)
  PROVE  Follows(unit, next, cut)
BY DEF Follows, UnitOf

LEMMA AllFollow ==
  MessagesFramed <=> \A k \in 1..(Len(wire) - 1) : Follows(wire[k], wire[k + 1], k \in cuts)
BY DEF MessagesFramed, Follows

LEMMA Lengths ==
  ASSUME NEW S, NEW a \in Seq(S), NEW b \in Seq(S)
  PROVE  Len(a \o b) = Len(a) + Len(b)
OBVIOUS

LEMMA WireLonger ==
  ASSUME NEW S, NEW before \in Seq(S), NEW units \in Seq(S), NEW after, after = before \o units,
         NEW l, l = Len(before), NEW n, n = Len(units)
  PROVE  /\ after \in Seq(S) /\ Len(after) = l + n
         /\ \A k \in 1..l : after[k] = before[k]
         /\ \A k \in 1..n : after[l + k] = units[k]
BY Appended

(* Units after what is on the wire leave it framed, if they go on with the  *)
(* message under way, or a new one may begin.                               *)
LEMMA WireAppend ==
  ASSUME TypeOK, MessagesFramed, NEW msg, NEW sent \in 0..(Length - 1), NEW n \in Nat,
         sent + n <= Length, cuts' = cuts, handler' = handler,
         NEW units \in Seq(Messages \X (1..Length)), Len(units) = n,
         \A k \in 1..n : UnitOf(units[k], msg, sent + k),
         wire' = wire \o units,
         IF sent > 0 THEN Under(msg, sent) ELSE Boundary
  PROVE  /\ wire' \in Seq(Messages \X (1..Length)) /\ Len(wire') = Len(wire) + n
         /\ MessagesFramed'
         /\ sent + n = Length => Boundary'
         /\ sent + n > 0 /\ sent + n < Length => Under(msg, sent + n)'
         /\ sent + n = 0 => Boundary'
<1> DEFINE U == Messages \X (1..Length)
<1>0. Length \in Nat /\ Length > 0 /\ sent \in Nat /\ sent < Length
  BY Numbers
<1>1. units \in Seq(U) /\ Len(units) = n /\ \A k \in 1..n : UnitOf(units[k], msg, sent + k)
  OBVIOUS
<1>2. wire \in Seq(U) /\ wire' = wire \o units
  BY DEF TypeOK
<1> HIDE DEF U
<1>3. PICK l \in Nat : l = Len(wire)
  BY <1>2
<1>4. /\ wire' \in Seq(U) /\ Len(wire') = l + n
      /\ \A k \in 1..l : wire'[k] = wire[k]
      /\ \A k \in 1..n : wire'[l + k] = units[k]
  <2>1. PICK after : after = wire'
    OBVIOUS
  <2>4. after = wire \o units
    BY <1>2, <2>1
  <2>5. after \in Seq(U)
    BY <1>1, <1>2, <2>4
  <2>6. Len(after) = l + n
    <3>1. Len(wire \o units) = Len(wire) + Len(units)
      BY <1>1, <1>2, Lengths, ZenonT(40)
    <3> QED
      BY <1>1, <1>3, <2>4, <3>1, Zenon
  <2>2. after \in Seq(U) /\ Len(after) = l + n
    BY <2>5, <2>6
  <2>3. (\A k \in 1..l : after[k] = wire[k]) /\ \A k \in 1..n : after[l + k] = units[k]
    BY <1>1, <1>2, <1>3, <2>1, WireLonger
  <2> QED
    BY <2>1, <2>2, <2>3
<1>5. \A k \in 1..n : UnitOf(wire'[l + k], msg, sent + k)
  BY <1>1, <1>4
<1>6. ASSUME NEW k \in 1..(l + n - 1)
      PROVE  Follows(wire'[k], wire'[k + 1], k \in cuts')
  <2>1. CASE k < l
    <3>1. k \in 1..(l - 1) /\ k \in 1..l /\ k + 1 \in 1..l
      BY <1>3, <2>1
    <3>2. wire'[k] = wire[k] /\ wire'[k + 1] = wire[k + 1]
      BY <1>4, <3>1
    <3>3. Follows(wire[k], wire[k + 1], k \in cuts)
      BY <1>3, <3>1, AllFollow
    <3> QED
      BY <3>2, <3>3
  <2>2. CASE k = l
    <3>1. l \in 1..l /\ 1 \in 1..n
      BY <1>3, <2>2
    <3>2. wire'[k] = wire[l]
      BY <1>4, <2>2, <3>1
    <3>3. UnitOf(wire'[k + 1], msg, sent + 1)
      BY <1>5, <2>2, <3>1
    <3>4. CASE sent > 0
      <4>1. UnitOf(wire'[k], msg, sent)
        BY <1>3, <3>2, <3>4 DEF Under, UnitOf
      <4> QED
        BY <3>3, <4>1, NextUnit
    <3>5. CASE sent = 0
      <4>1. wire # <<>>
        BY <1>3, <3>1
      <4>2. wire[l][2] = Length \/ (~Tls /\ l \in cuts)
        BY <1>3, <3>5, <4>1 DEF Boundary
      <4>3. sent + 1 = 1
        BY <3>5
      <4>4. UnitOf(wire'[k + 1], msg, 1)
        BY <3>3, <4>3
      <4>5. wire'[k][2] = Length \/ (~Tls /\ k \in cuts')
        BY <2>2, <3>2, <4>2
      <4> QED
        BY <4>4, <4>5, FirstUnit
    <3>6. sent > 0 \/ sent = 0
      BY <1>0
    <3> QED
      BY <3>4, <3>5, <3>6
  <2>3. CASE k > l
    <3>1. PICK j \in Nat : k = l + j
      <4>1. k - l \in Nat /\ k = l + (k - l)
        BY <1>3, <2>3
      <4> QED
        BY <4>1
    <3>2. j \in 1..n /\ j + 1 \in 1..n /\ k + 1 = l + (j + 1)
      BY <1>3, <2>3, <3>1
    <3>3. UnitOf(wire'[k], msg, sent + j)
      BY <1>5, <3>1, <3>2
    <3>4. UnitOf(wire'[k + 1], msg, sent + (j + 1))
      BY <1>5, <3>2
    <3>5. sent + (j + 1) = (sent + j) + 1
      BY <1>0
    <3> QED
      BY <3>3, <3>4, <3>5, NextUnit
  <2>4. k < l \/ k = l \/ k > l
    BY <1>3
  <2> QED
    BY <2>1, <2>2, <2>3, <2>4
<1>7. MessagesFramed'
  <2>1. Len(wire') - 1 = l + n - 1
    BY <1>4
  <2>2. MessagesFramed' <=> \A k \in 1..(Len(wire') - 1) : Follows(wire'[k], wire'[k + 1], k \in cuts')
    BY DEF MessagesFramed, Follows, Tls
  <2> QED
    BY <1>6, <2>1, <2>2
<1>8. n > 0 => wire' # <<>> /\ UnitOf(wire'[Len(wire')], msg, sent + n)
  <2>1. n > 0 => n \in 1..n /\ l + n > 0
    OBVIOUS
  <2>2. n > 0 => UnitOf(wire'[l + n], msg, sent + n)
    BY <1>5, <2>1
  <2>3. n > 0 => wire' # <<>>
    BY <1>4, <2>1
  <2> QED
    BY <1>4, <2>2, <2>3
<1>9. n = 0 => wire' = wire
  BY <1>1, <1>2
<1>10. sent + n = Length => Boundary'
  <2>1. sent + n = Length => n > 0
    BY <1>0
  <2> QED
    BY <1>8, <2>1 DEF Boundary, UnitOf
<1>11. sent + n > 0 /\ sent + n < Length => Under(msg, sent + n)'
  <2>1. CASE n > 0
    BY <1>0, <1>8, <2>1 DEF Under, UnitOf, Tls
  <2>2. CASE n = 0
    BY <1>0, <1>9, <2>2 DEF Under, Tls
  <2> QED
    BY <2>1, <2>2
<1>12. sent + n = 0 => Boundary'
  BY <1>0, <1>9 DEF Boundary, Tls
<1> QED
  BY <1>3, <1>4, <1>7, <1>10, <1>11, <1>12 DEF U

LEMMA SendTypes ==
  ASSUME TypeOK, UNCHANGED <<connection, incoming, epoll, received, rest, drained>>,
         worker' \in [Workers -> Frames], m_socketMutex' \in Workers \cup {"remover", Nil},
         wire' \in Seq(Messages \X (1..Length)), Len(wire') >= Len(wire), cuts' \subseteq 1..Len(wire'),
         pendingWrite' \in [msg : Messages, sent : 0..Length] \cup {Nil}
  PROVE  TypeOK'
<1>1. /\ UNCHANGED <<handler, m_SSL, descriptor, peer, arrived, recordEnds, edge, events>>
      /\ UNCHANGED <<taken, delivered, lost, remover, calls, unguarded, process>>
  BY DEF connection, incoming, epoll, received, rest
<1>2. drained' \in 0..Len(wire')
  <2>1. drained' = drained /\ drained \in 0..Len(wire) /\ Len(wire) \in Nat /\ Len(wire') \in Nat
    BY DEF TypeOK
  <2> QED
    BY <2>1
<1>3. ConnectionTypes' /\ IncomingTypes' /\ ControlTypes'
  BY <1>1, TypeParts DEF ConnectionTypes, IncomingTypes, ControlTypes
<1>4. OutgoingTypes'
  BY <1>2 DEF OutgoingTypes
<1> QED
  BY <1>3, <1>4, TypesNext

(* A sender has the mutex, and the message under way is its own, or the     *)
(* session's, or there is none.                                             *)
LEMMA Sender ==
  ASSUME IInv, NEW w \in Workers, worker[w].pc = "send"
  PROVE  /\ m_socketMutex = w /\ worker[w].msg \in Messages /\ worker[w].got = <<>>
         /\ \A v \in Workers : v # w => worker[v].sent = 0
         /\ worker[w].sent \in 0..(Length - 1)
         /\ ~Tls => IF worker[w].sent > 0 THEN Under(worker[w].msg, worker[w].sent) ELSE Boundary
<1>1. m_socketMutex = w /\ worker[w].msg \in Messages /\ worker[w].got = <<>>
  BY DEF IInv, WorkerInv, MutexInv, FrameInv, Proper
<1>2. \A v \in Workers : worker[v].sent \in 0..Length
  BY WorkerFrames DEF IInv, Frames
<1>3. \A v \in Workers : v # w => worker[v].sent = 0
  <2>1. \A v \in Workers : v # w => worker[v].pc # "send"
    BY <1>1, Alone DEF IInv, WorkerInv
  <2> QED
    BY <2>1, NotSending DEF IInv, WorkerInv
<1>4. worker[w].sent > 0 => Under(worker[w].msg, worker[w].sent)
  BY DEF IInv, WorkerInv, WireInv
<1>5. worker[w].sent \in 0..(Length - 1)
  BY <1>2, <1>4, Numbers DEF Under
<1>6. ~Tls /\ worker[w].sent = 0 => Boundary
  BY <1>3 DEF IInv, WorkerInv, WireInv
<1> QED
  BY <1>1, <1>3, <1>4, <1>5, <1>6

LEMMA RoomIs ==
  ASSUME IInv
  PROVE  /\ Room \in Nat /\ Len(wire) \in Nat /\ drained \in Nat
         /\ \A n \in Nat : n <= Room => Len(wire) + n - drained <= Capacity
BY Numbers DEF IInv, WorkerInv, WireInv, TypeOK, Room

LEMMA SendStep ==
  ASSUME IInv, NEW w \in Workers, Send(w)
  PROVE  IInv'
<1> USE DEF connection, incoming, epoll, received, rest
<1>1. worker[w].pc = "send" /\ ~Tls /\ worker[w] \in Frames
  BY WorkerFrames DEF Send, IInv
<1>2. PICK msg \in Messages, sent \in 0..(Length - 1) : msg = worker[w].msg /\ sent = worker[w].sent
  BY <1>1, Sender
<1>3. PICK n \in 1..Smaller(Room, Length - sent) :
        /\ wire' = wire \o Units(msg, sent + 1, sent + n)
        /\ IF sent + n = Length THEN Return(w)
           ELSE Enter(w, [worker[w] EXCEPT !.sent = sent + n]) /\ UNCHANGED m_socketMutex
  BY <1>2 DEF Send
<1>4. n \in Nat /\ n > 0 /\ n <= Room /\ sent + n <= Length /\ sent + n > 0 /\ sent + n \in 0..Length
  BY Numbers, RoomIs DEF Smaller
<1>5. UNCHANGED <<connection, incoming, epoll, received, drained, pendingWrite, cuts, rest>>
  BY DEF Send
<1>6. /\ wire' \in Seq(Messages \X (1..Length)) /\ Len(wire') = Len(wire) + n
      /\ MessagesFramed'
      /\ sent + n = Length => Boundary'
      /\ sent + n < Length => Under(msg, sent + n)'
  <2>1. IF sent > 0 THEN Under(msg, sent) ELSE Boundary
    BY <1>1, <1>2, Sender
  <2>2. MessagesFramed /\ TypeOK /\ handler' = handler /\ cuts' = cuts
    BY <1>5 DEF IInv, WorkerInv, WireInv
  <2>3. PICK units : units = Units(msg, sent + 1, sent + n)
    OBVIOUS
  <2>4. /\ units \in Seq(Messages \X (1..Length)) /\ Len(units) = n
        /\ \A k \in 1..n : UnitOf(units[k], msg, sent + k)
    <3>1. sent + 1 \in 1..Length /\ sent + n \in 0..Length /\ sent + n >= (sent + 1) - 1
      BY <1>4, Numbers
    <3>2. /\ units \in Seq(Messages \X (1..Length)) /\ Len(units) = (sent + n) - (sent + 1) + 1
          /\ \A k \in 1..((sent + n) - (sent + 1) + 1) : units[k] = <<msg, (sent + 1) + k - 1>>
      BY <2>3, <3>1, UnitsWhole
    <3>3. (sent + n) - (sent + 1) + 1 = n /\ \A k \in 1..n : (sent + 1) + k - 1 = sent + k
      BY Numbers
    <3> QED
      BY <3>2, <3>3 DEF UnitOf
  <2> QED
    BY <1>3, <1>4, <2>1, <2>2, <2>3, <2>4, WireAppend, ZenonT(40)
<1>7. PICK f : f = IF sent + n = Length THEN Idle ELSE [worker[w] EXCEPT !.sent = sent + n]
  OBVIOUS
<1>8. Enter(w, f)
  BY <1>3, <1>7 DEF Return
<1>9. /\ f \in Frames /\ f.pc \in {"idle", "send"} /\ f.got = <<>>
      /\ f.pc = "send" => f.call = worker[w].call /\ f.msg = msg
      /\ IF sent + n = Length THEN f.pc = "idle" /\ f.sent = 0 ELSE f.pc = "send" /\ f.sent = sent + n
  <2>1. CASE sent + n = Length
    BY <1>7, <2>1, IdleFrame DEF Idle
  <2>2. CASE sent + n # Length
    <3>1. f = [worker[w] EXCEPT !.sent = sent + n]
      BY <1>7, <2>2
    <3>2. worker[w].got = <<>>
      BY <1>1, Sender
    <3> QED
      BY <1>1, <1>2, <1>4, <2>2, <3>1, <3>2 DEF Frames
  <2> QED
    BY <2>1, <2>2
<1>10. /\ \/ m_socketMutex' = m_socketMutex
          \/ m_socketMutex = w /\ m_socketMutex' = Nil
       /\ f.pc = "send" => m_socketMutex' = w
  BY <1>1, <1>3, <1>9, Sender DEF Return
<1>11. TypeOK'
  <2>1. worker' \in [Workers -> Frames]
    BY <1>8, <1>9, EnterFrame DEF IInv
  <2>2. m_socketMutex' \in Workers \cup {"remover", Nil}
    BY <1>10 DEF IInv, TypeOK
  <2>3. Len(wire') >= Len(wire) /\ cuts' \subseteq 1..Len(wire')
    <3>1. Len(wire) \in Nat /\ cuts' \subseteq 1..Len(wire)
      BY <1>5 DEF IInv, TypeOK
    <3> QED
      BY <1>4, <1>6, <3>1
  <2>4. pendingWrite' \in [msg : Messages, sent : 0..Length] \cup {Nil}
    BY <1>5 DEF IInv, TypeOK
  <2> QED
    BY <1>5, <1>6, <2>1, <2>2, <2>3, <2>4, SendTypes DEF IInv
<1>12. RecordInv'
  BY <1>5 DEF IInv, RecordInv
<1>13. FrameInv'
  <2>1. Proper(worker[w])
    BY DEF IInv, WorkerInv, FrameInv
  <2>2. Proper(f)'
    BY <1>1, <1>9, <2>1 DEF Proper
  <2> QED
    BY <1>5, <1>8, <1>9, <2>2, FrameStep DEF IInv, WorkerInv
<1>14. MutexInv'
  BY <1>5, <1>8, <1>9, <1>10, MutexStep DEF IInv, WorkerInv
<1>15. AvailabilityHolds'
  BY <1>5, <1>8, <1>9, AvailabilityStep DEF IInv, WorkerInv
<1>16. StreamInv'
  BY <1>1, <1>5, <1>8, <1>9, StreamStep DEF IInv, WorkerInv
<1>17. WireInv'
  <2>1. Len(wire') - drained' <= Capacity
    BY <1>4, <1>5, <1>6, RoomIs
  <2>2. \A v \in Workers : v # w => worker'[v].sent = 0
    BY <1>1, <1>8, <1>9, EnterFrame, Sender DEF IInv
  <2>3. worker'[w] = f
    BY <1>8, <1>9, EnterFrame DEF IInv
  <2>4. ~Tls'
    BY <1>1, <1>5 DEF Tls
  <2>5. CASE sent + n = Length
    <3>1. \A v \in Workers : worker'[v].sent = 0
      BY <1>9, <2>2, <2>3, <2>5
    <3> QED
      BY <1>6, <2>1, <2>4, <2>5, <3>1, SMTT(20) DEF WireInv
  <2>6. CASE sent + n # Length
    <3>1. f.pc = "send" /\ f.sent = sent + n /\ f.msg = msg /\ f.sent > 0 /\ Under(msg, sent + n)'
      BY <1>4, <1>6, <1>9, <2>6, Numbers
    <3>2. Under(worker[w].msg, worker[w].sent)'
      BY <2>3, <3>1 DEF Under
    <3> QED
      BY <1>6, <2>1, <2>2, <2>3, <2>4, <3>1, <3>2, SMTT(30) DEF WireInv
  <2> QED
    BY <2>5, <2>6
<1> QED
  BY <1>11, <1>12, <1>13, <1>14, <1>15, <1>16, <1>17 DEF IInv, WorkerInv

LEMMA SendFailsStep ==
  ASSUME IInv, NEW w \in Workers, SendFails(w)
  PROVE  IInv'
<1> USE DEF connection, incoming, epoll, received, rest
<1>1. worker[w].pc = "send" /\ ~Tls /\ Return(w)
  BY DEF SendFails
<1>2. Enter(w, Idle) /\ Idle.pc = "idle" /\ Idle.sent = 0
  BY <1>1 DEF Return, Idle
<1>3. cuts' = IF worker[w].sent > 0 THEN cuts \cup {Len(wire)} ELSE cuts
  BY DEF SendFails
<1>4. UNCHANGED <<connection, incoming, epoll, received, wire, drained, pendingWrite, rest>>
  BY DEF SendFails
<1>5. TypeOK'
  <2>1. worker[w].sent > 0 => Len(wire) \in 1..Len(wire)
    <3>1. worker[w].sent > 0 => wire # <<>>
      BY <1>1, Sender DEF Under
    <3>2. wire \in Seq(Messages \X (1..Length))
      BY DEF IInv, TypeOK
    <3> DEFINE U == Messages \X (1..Length)
    <3> HIDE DEF U
    <3>3. ASSUME NEW s \in Seq(U), s # <<>> PROVE Len(s) \in 1..Len(s)
      BY <3>3
    <3> QED
      BY <3>1, <3>2, <3>3 DEF U
  <2>2. cuts' \subseteq 1..Len(wire')
    BY <1>3, <1>4, <2>1 DEF IInv, TypeOK
  <2>3. /\ wire' \in Seq(Messages \X (1..Length)) /\ Len(wire') >= Len(wire)
        /\ pendingWrite' \in [msg : Messages, sent : 0..Length] \cup {Nil}
    BY <1>4, RoomIs DEF IInv, TypeOK
  <2> QED
    BY <1>1, <1>4, <2>2, <2>3, ReturnTypes, SendTypes DEF IInv
<1>6. RecordInv'
  BY <1>4 DEF IInv, RecordInv
<1>7. FrameInv' /\ MutexInv' /\ AvailabilityHolds'
  BY <1>1, <1>4, ReturnStep DEF IInv, WorkerInv
<1>8. StreamInv'
  BY <1>1, <1>2, <1>4, IdleFrame, StreamStep DEF IInv, WorkerInv
<1>9. WireInv'
  <2>1. Len(wire') - drained' <= Capacity
    BY <1>4 DEF IInv, WorkerInv, WireInv
  <2>2. cuts \subseteq cuts'
    BY <1>3
  <2>3. MessagesFramed'
    BY <1>4, <2>2 DEF IInv, WorkerInv, WireInv, MessagesFramed, Tls
  <2>4. Boundary'
    <3>1. IF worker[w].sent > 0 THEN Len(wire) \in cuts' ELSE Boundary
      BY <1>1, <1>3, Sender
    <3> QED
      BY <1>1, <1>4, <2>2, <3>1 DEF Boundary, Tls
  <2>5. \A v \in Workers : worker'[v].sent = 0
    BY <1>1, <1>2, IdleFrame, EnterFrame, Sender DEF IInv
  <2>6. ~Tls'
    BY <1>1, <1>4 DEF Tls
  <2> QED
    BY <2>1, <2>3, <2>4, <2>5, <2>6 DEF WireInv
<1> QED
  BY <1>5, <1>6, <1>7, <1>8, <1>9 DEF IInv, WorkerInv

(* A sending call of the TLS handler that returns without a write.          *)
LEMMA RefusedStep ==
  ASSUME IInv, NEW w \in Workers, worker[w].pc = "send", Tls, Return(w),
         UNCHANGED <<connection, incoming, epoll, received, outgoing, rest>>
  PROVE  IInv'
<1> USE DEF connection, incoming, epoll, received, outgoing, rest
<1>1. TypeOK'
  <2>1. /\ cuts' \subseteq 1..Len(wire') /\ wire' \in Seq(Messages \X (1..Length))
        /\ Len(wire') >= Len(wire) /\ pendingWrite' \in [msg : Messages, sent : 0..Length] \cup {Nil}
    BY RoomIs DEF IInv, TypeOK
  <2> QED
    BY <2>1, ReturnTypes, SendTypes DEF IInv
<1>2. RecordInv'
  BY DEF IInv, RecordInv
<1>3. WorkerInv'
  <2>1. worker[w].sent = 0
    BY NotSending DEF IInv, WorkerInv
  <2> QED
    BY <2>1, ReturnQuietly
<1> QED
  BY <1>1, <1>2, <1>3 DEF IInv

LEMMA WriteToResetStep ==
  ASSUME IInv, NEW w \in Workers, WriteToReset(w)
  PROVE  IInv'
<1>1. CASE Tls /\ Return(w) /\ UNCHANGED process
  BY <1>1, RefusedStep DEF WriteToReset, rest
<1>2. CASE Terminate /\ UNCHANGED <<m_socketMutex, worker>>
  BY <1>2, TerminateStep DEF WriteToReset
<1> QED
  BY <1>1, <1>2 DEF WriteToReset

LEMMA SslWriteStep ==
  ASSUME IInv, NEW w \in Workers, SslWrite(w)
  PROVE  IInv'
<1> USE DEF connection, incoming, epoll, received, rest
<1>1. worker[w].pc = "send" /\ Tls /\ Return(w)
  BY DEF SslWrite
<1>2. UNCHANGED <<connection, incoming, epoll, received, drained, cuts, rest>>
  BY DEF SslWrite
<1>0. PICK msg \in Messages : msg = worker[w].msg
  BY <1>1, Sender
<1>3. PICK begun : begun = IF pendingWrite = Nil THEN [msg |-> msg, sent |-> 0] ELSE pendingWrite
  OBVIOUS
<1>7. begun \in [msg : Messages, sent : 0..Length]
  BY <1>3, Numbers DEF IInv, TypeOK
<1>8. PICK first \in Messages, sent \in 0..Length : first = begun.msg /\ sent = begun.sent
  BY <1>7
<1>4. PICK n : n = Smaller(Room, Length - sent)
  OBVIOUS
<1>5. CASE UNCHANGED <<wire, pendingWrite>>
  BY <1>1, <1>2, <1>5, RefusedStep DEF outgoing
<1>6. CASE /\ wire' = wire \o [k \in 1..n |-> <<IF k = 1 THEN first ELSE msg, sent + k>>]
           /\ pendingWrite' = IF sent + n = Length THEN Nil
                              ELSE [msg |-> IF n = 0 THEN first ELSE msg, sent |-> sent + n]
  <2>1. sent \in 0..(Length - 1) /\ (IF sent > 0 THEN Under(msg, sent) ELSE Boundary)
    <3>1. CASE pendingWrite = Nil
      BY <1>1, <1>3, <1>8, <3>1, Numbers DEF IInv, WorkerInv, WireInv
    <3>2. CASE pendingWrite # Nil
      <4>1. sent = pendingWrite.sent
        BY <1>3, <1>8, <3>2
      <4>2. IF sent > 0 THEN Under(msg, sent) ELSE Boundary
        BY <1>1, <3>2, <4>1 DEF IInv, WorkerInv, WireInv, Under
      <4> QED
        BY <4>1, <4>2, Numbers DEF Under
    <3> QED
      BY <3>1, <3>2
  <2>2. n \in Nat /\ n <= Room /\ sent + n <= Length /\ sent + n \in 0..Length /\ sent + n >= 0
    BY <1>4, <2>1, Numbers, RoomIs DEF Smaller
  <2>3. /\ wire' \in Seq(Messages \X (1..Length)) /\ Len(wire') = Len(wire) + n
        /\ MessagesFramed'
        /\ sent + n = Length => Boundary'
        /\ sent + n > 0 /\ sent + n < Length => Under(msg, sent + n)'
        /\ sent + n = 0 => Boundary'
    <3>1. MessagesFramed /\ TypeOK /\ handler' = handler /\ cuts' = cuts
      BY <1>2 DEF IInv, WorkerInv, WireInv
    <3>2. PICK units : units = [k \in 1..n |-> <<IF k = 1 THEN first ELSE msg, sent + k>>]
      OBVIOUS
    <3>3. \A k \in 1..n : <<IF k = 1 THEN first ELSE msg, sent + k>> \in Messages \X (1..Length)
      BY <2>1, <2>2, Numbers
    <3>4. units \in Seq(Messages \X (1..Length)) /\ Len(units) = n
      <4> DEFINE U == Messages \X (1..Length)
      <4>1. units \in [1..n -> U]
        BY <3>2, <3>3
      <4> HIDE DEF U
      <4>2. units \in Seq(U) /\ Len(units) = n
        BY <2>2, <4>1
      <4> QED
        BY <4>2 DEF U
    <3>5. \A k \in 1..n : UnitOf(units[k], msg, sent + k)
      BY <1>1, <3>2 DEF UnitOf
    <3> QED
      BY <1>6, <2>1, <2>2, <3>1, <3>2, <3>4, <3>5, WireAppend, ZenonT(40)
  <2>4. TypeOK'
    <3>1. Len(wire') >= Len(wire) /\ cuts' \subseteq 1..Len(wire')
      <4>1. Len(wire) \in Nat /\ cuts' \subseteq 1..Len(wire)
        BY <1>2, RoomIs DEF IInv, TypeOK
      <4> QED
        BY <2>2, <2>3, <4>1
    <3>2. pendingWrite' \in [msg : Messages, sent : 0..Length] \cup {Nil}
      BY <1>6, <2>2
    <3> QED
      BY <1>1, <1>2, <2>3, <3>1, <3>2, ReturnTypes, SendTypes DEF IInv
  <2>5. RecordInv'
    BY <1>2 DEF IInv, RecordInv
  <2>6. FrameInv' /\ MutexInv' /\ AvailabilityHolds'
    BY <1>1, <1>2, ReturnStep DEF IInv, WorkerInv
  <2>7. Enter(w, Idle) /\ Idle.pc = "idle" /\ Idle.sent = 0
    BY <1>1 DEF Return, Idle
  <2>8. StreamInv'
    BY <1>1, <1>2, <2>7, IdleFrame, StreamStep DEF IInv, WorkerInv
  <2>9. WireInv'
    <3>1. Len(wire') - drained' <= Capacity
      BY <1>2, <2>2, <2>3, RoomIs
    <3>2. \A v \in Workers : worker'[v].sent = 0
      BY <1>1, <2>7, IdleFrame, EnterFrame, Sender DEF IInv
    <3>3. Tls'
      BY <1>1, <1>2 DEF Tls
    <3>4. IF pendingWrite' # Nil /\ pendingWrite'.sent > 0
          THEN Under(pendingWrite.msg, pendingWrite.sent)' ELSE Boundary'
      <4>1. CASE sent + n = Length
        BY <1>6, <2>3, <4>1
      <4>2. CASE sent + n # Length
        <5>1. pendingWrite' = [msg |-> IF n = 0 THEN first ELSE msg, sent |-> sent + n]
          BY <1>6, <4>2
        <5>2. pendingWrite' # Nil /\ pendingWrite'.sent = sent + n
          BY <2>2, <5>1, Names
        <5>3. sent + n < Length
          BY <2>2, <4>2, Numbers
        <5>4. sent + n > 0 \/ sent + n = 0
          BY <2>2
        <5> QED
          BY <2>3, <3>3, <5>2, <5>3, <5>4 DEF Under
      <4> QED
        BY <4>1, <4>2
    <3> QED
      BY <2>3, <3>1, <3>2, <3>3, <3>4 DEF WireInv
  <2> QED
    BY <2>4, <2>5, <2>6, <2>8, <2>9 DEF IInv, WorkerInv
<1> QED
  BY <1>0, <1>3, <1>4, <1>5, <1>6, <1>8 DEF SslWrite

-------------------------------------------------------------------------------
(* The invariant *)

LEMMA InitInv == Init => IInv
<1> SUFFICES ASSUME Init PROVE IInv
  OBVIOUS
<1>1. worker = [w \in Workers |-> Idle]
  BY DEF Init
<1>2. \A w \in Workers : /\ worker[w].pc = "idle" /\ worker[w].sent = 0 /\ worker[w].got = <<>>
  BY <1>1 DEF Idle
<1>3. worker \in [Workers -> Frames]
  BY <1>1, IdleFrame
<1>4. /\ handler \in Handlers /\ m_SSL \in {"session", Nil}
      /\ m_socketMutex = Nil /\ descriptor = "open" /\ peer = "open"
      /\ arrived = 0 /\ recordEnds = {} /\ taken = 0 /\ edge = FALSE /\ events = 0
      /\ wire = <<>> /\ drained = 0 /\ pendingWrite = Nil
      /\ remover = "none" /\ calls = 0 /\ delivered = <<>> /\ lost = {} /\ cuts = {}
      /\ unguarded = FALSE /\ process = "up"
  BY DEF Init
<1>5. Len(<<>>) = 0
  OBVIOUS
<1>6. TypeOK
  <2>1. arrived \in 0..MaxBytes /\ taken \in 0..arrived /\ calls \in 0..MaxCalls
    BY <1>4, Numbers
  <2>2. drained \in 0..Len(wire) /\ wire \in Seq(Messages \X (1..Length)) /\ delivered \in Seq(Bytes)
    BY <1>4
  <2> QED
    BY <1>3, <1>4, <2>1, <2>2 DEF TypeOK, Frames
<1>7. RecordInv
  BY <1>4 DEF RecordInv
<1>8. FrameInv /\ MutexInv /\ AvailabilityHolds
  BY <1>2, <1>4 DEF FrameInv, Proper, MutexInv, AvailabilityHolds
<1>9. StreamInv
  <2>1. Counting(0, 0) = <<>>
    BY DEF Counting
  <2> QED
    BY <1>2, <1>4, <1>5, <2>1 DEF StreamInv
<1>10. WireInv
  <2>1. Len(wire) - drained = 0 /\ 1..(Len(wire) - 1) = {}
    BY <1>4, <1>5
  <2> QED
    BY <1>2, <1>4, <2>1, Numbers DEF WireInv, MessagesFramed, Boundary
<1> QED
  BY <1>6, <1>7, <1>8, <1>9, <1>10 DEF IInv, WorkerInv

LEMMA StutterStep == IInv /\ UNCHANGED vars => IInv'
<1> SUFFICES ASSUME IInv, UNCHANGED vars PROVE IInv'
  OBVIOUS
<1> USE DEF vars, connection, incoming, epoll, outgoing, received, rest
<1>1. TypeOK'
  BY DEF IInv, TypeOK
<1>2. RecordInv'
  BY DEF IInv, RecordInv
<1>3. WorkerInv'
  <2>1. arrived \in Nat /\ drained \in Nat /\ arrived >= arrived /\ drained >= drained
    BY DEF IInv, TypeOK
  <2> QED
    BY <2>1, WorkersKept DEF IInv
<1> QED
  BY <1>1, <1>2, <1>3 DEF IInv

LEMMA WorkerStep ==
  ASSUME IInv, NEW w \in Workers, Worker(w)
  PROVE  IInv'
BY CallReceiveDataStep, CallReceivePartialDataStep, CallSendDataStep, LockStep, GetAvailableStep,
   GetAvailableFailsStep, NothingAskedStep, ReadStep, ReadNothingStep, ClosedMeanwhileStep, SendStep, SendFailsStep,
   SslWriteStep, WriteToResetStep
   DEF Worker, Proceed

LEMMA NextStep == IInv /\ [Next]_vars => IInv'
<1> SUFFICES ASSUME IInv, [Next]_vars PROVE IInv'
  OBVIOUS
<1>1. CASE PeerSend \/ PeerLeave \/ PeerReceive \/ DataEvent \/ Remover
  BY <1>1, PeerSendStep, PeerLeaveStep, PeerReceiveStep, DataEventStep, RemoverStep
<1>2. CASE \E w \in Workers : Worker(w)
  BY <1>2, WorkerStep
<1>3. CASE UNCHANGED vars
  BY <1>3, StutterStep
<1> QED
  BY <1>1, <1>2, <1>3 DEF Next

LEMMA Always == Spec => []IInv
BY InitInv, NextStep, PTL DEF Spec

-------------------------------------------------------------------------------
(* The theorems *)

(* The variables keep their types: no call reads more than has arrived, or  *)
(* sends more than its message.                                             *)
THEOREM Typing == Spec => []TypeOK
<1>1. IInv => TypeOK
  BY DEF IInv
<1> QED
  BY <1>1, Always, PTL

(* What availableData has announced is still there when the loop of         *)
(* TCPServerSocketHandler::receiveData reads it.                            *)
THEOREM Announced == Spec => []AvailabilityHolds
<1>1. IInv => AvailabilityHolds
  BY DEF IInv, WorkerInv
<1> QED
  BY <1>1, Always, PTL

(* Concurrent sendData calls are not interleaved on the wire: under either  *)
(* handler a message begins where one has ended, and under TCP its units    *)
(* are its own.                                                             *)
THEOREM Framing == Spec => []MessagesFramed
<1>1. IInv => MessagesFramed
  BY DEF IInv, WorkerInv, WireInv
<1> QED
  BY <1>1, Always, PTL

(* No two threads are in the OpenSSL session at once: the one inside holds  *)
(* m_socketMutex.                                                           *)
THEOREM OneInSession == Spec => []SessionExclusive
<1>1. IInv => SessionExclusive
  <2> SUFFICES ASSUME IInv, Tls
               PROVE  Cardinality({w \in Workers : worker[w].pc \in {"read", "send"}} \cup
                                  (IF remover = "shutdown" THEN {"remover"} ELSE {})) <= 1
    BY DEF SessionExclusive
  <2> DEFINE inside == {w \in Workers : worker[w].pc \in {"read", "send"}} \cup
                       (IF remover = "shutdown" THEN {"remover"} ELSE {})
  <2>1. inside \subseteq {m_socketMutex}
    BY DEF IInv, WorkerInv, MutexInv
  <2> HIDE DEF inside
  <2>2. IsFiniteSet({m_socketMutex}) /\ Cardinality({m_socketMutex}) = 1
    BY FS_Singleton
  <2>3. IsFiniteSet(inside) /\ Cardinality(inside) <= Cardinality({m_socketMutex})
    BY <2>1, <2>2, FS_Subset
  <2>4. Cardinality(inside) <= 1
    BY <2>2, <2>3
  <2> QED
    BY <2>4 DEF inside
<1> QED
  BY <1>1, Always, PTL

-------------------------------------------------------------------------------
(* The byte stream that receiveData implements                              *)

LEMMA DeliverGrows ==
  ASSUME TypeOK, NEW w \in Workers, NEW bytes \in Seq(Bytes), Deliver(w, bytes)
  PROVE  lost' = lost /\ Len(delivered') >= Len(delivered)
<1>1. delivered \in Seq(Bytes) /\ delivered' = delivered \o bytes /\ lost' = lost
  BY DEF TypeOK, Deliver
<1>2. Len(delivered') = Len(delivered) + Len(bytes) /\ Len(bytes) \in Nat /\ Len(delivered) \in Nat
  BY <1>1, Appended
<1> QED
  BY <1>1, <1>2

LEMMA ReadGrows ==
  ASSUME IInv, NEW w \in Workers, Read(w)
  PROVE  lost' = lost /\ Len(delivered') >= Len(delivered)
<1>0. PICK n \in ReadSizes(w) : \E got :
        /\ got = worker[w].got \o [k \in 1..n |-> taken + k]
        /\ IF Enough(w, n, Len(got)) THEN Deliver(w, got) ELSE UNCHANGED <<delivered, lost>>
  BY DEF Read
<1>1. PICK got :
        /\ got = worker[w].got \o [k \in 1..n |-> taken + k]
        /\ IF Enough(w, n, Len(got)) THEN Deliver(w, got) ELSE UNCHANGED <<delivered, lost>>
  BY <1>0
<1>2. n \in Nat /\ n <= arrived - taken
  BY ReadSize DEF Read
<1>3. got \in Seq(Bytes)
  <2>1. arrived \in 0..MaxBytes /\ taken \in 0..arrived /\ MaxBytes \in Nat
    BY Numbers DEF IInv, TypeOK
  <2>2. taken \in Nat /\ taken + n <= MaxBytes
    BY <1>2, <2>1
  <2>3. worker[w].got \in Seq(Bytes)
    BY WorkerFrames DEF IInv, Frames
  <2> QED
    BY <1>1, <1>2, <2>2, <2>3, MoreBytes
<1>4. Len(delivered) \in Nat
  BY DEF IInv, TypeOK
<1>5. CASE Deliver(w, got)
  BY <1>3, <1>5, DeliverGrows DEF IInv
<1>6. CASE UNCHANGED <<delivered, lost>>
  BY <1>4, <1>6
<1> QED
  BY <1>1, <1>5, <1>6

(* A step other than the peer's sending does nothing to the stream but hand *)
(* over more of it or break it.                                             *)
StreamMoves ==
  /\ arrived' = arrived /\ lost \subseteq lost' /\ (unguarded => unguarded')
  /\ Len(delivered') >= Len(delivered)

LEMMA WorkerMoves ==
  ASSUME IInv, NEW w \in Workers, Worker(w)
  PROVE  StreamMoves
<1> USE DEF connection, incoming, outgoing, epoll, received, rest
<1>1. delivered \in Seq(Bytes) /\ Len(delivered) \in Nat /\ worker[w].got \in Seq(Bytes)
  BY WorkerFrames DEF IInv, TypeOK, Frames
<1>2. Len(delivered) >= Len(delivered) /\ <<>> \in Seq(Bytes)
  BY <1>1
<1>3. CASE CallReceiveData(w) \/ CallSendData(w) \/ Lock(w)
  BY <1>2, <1>3 DEF CallReceiveData, CallSendData, Lock, StreamMoves
<1>9. CASE CallReceivePartialData(w)
  <2>1. unguarded => unguarded'
    BY <1>9 DEF CallReceivePartialData
  <2> QED
    BY <1>2, <1>9, <2>1 DEF CallReceivePartialData, StreamMoves
<1>4. CASE GetAvailableFails(w) \/ Send(w) \/ SendFails(w) \/ SslWrite(w) \/ WriteToReset(w)
  BY <1>2, <1>4 DEF GetAvailableFails, Send, SendFails, SslWrite, WriteToReset, StreamMoves
<1>5. CASE GetAvailable(w)
  <2>1. arrived' = arrived /\ unguarded' = unguarded
    BY <1>5 DEF GetAvailable
  <2>2. Deliver(w, <<>>) \/ UNCHANGED <<delivered, lost>>
    BY <1>5 DEF GetAvailable
  <2>3. lost' = lost /\ Len(delivered') >= Len(delivered)
    BY <1>2, <2>2, DeliverGrows DEF IInv
  <2> QED
    BY <2>1, <2>3 DEF StreamMoves
<1>6. CASE Read(w)
  <2>1. arrived' = arrived /\ unguarded' = unguarded
    BY <1>6 DEF Read
  <2> QED
    BY <1>6, <2>1, ReadGrows DEF StreamMoves
<1>7. CASE ReadNothing(w)
  <2>1. arrived' = arrived /\ unguarded' = unguarded
    BY <1>7 DEF ReadNothing
  <2>2. CASE Deliver(w, worker[w].got)
    BY <1>1, <2>1, <2>2, DeliverGrows DEF IInv, StreamMoves
  <2>3. CASE Discard(w, worker[w].got)
    BY <1>2, <2>1, <2>3 DEF Discard, StreamMoves
  <2> QED
    BY <1>7, <2>2, <2>3 DEF ReadNothing
<1>8. CASE ClosedMeanwhile(w)
  BY <1>2, <1>8 DEF ClosedMeanwhile, Discard, StreamMoves
<1>10. CASE NothingAsked(w)
  BY <1>1, <1>10, DeliverGrows DEF IInv, NothingAsked, StreamMoves
<1> QED
  BY <1>3, <1>4, <1>5, <1>6, <1>7, <1>8, <1>9, <1>10 DEF Worker, Proceed

LEMMA OtherMoves ==
  ASSUME IInv, PeerLeave \/ PeerReceive \/ DataEvent \/ Remover \/ UNCHANGED vars
  PROVE  StreamMoves
<1> USE DEF connection, incoming, outgoing, epoll, received, rest, vars
<1>1. Len(delivered) >= Len(delivered)
  BY DEF IInv, TypeOK
<1> QED
  BY <1>1 DEF PeerLeave, PeerReceive, DataEvent, Remover, CloseConnection, LockToClose,
     CloseSession,
              StreamMoves

(* While the stream is whole no more is delivered than the peer has sent.   *)
Handed ==
  lost = {} /\ ~unguarded =>
    /\ Len(delivered) \in Nat /\ Len(delivered) <= arrived
    /\ delivered = [k \in 1..Len(delivered) |-> k]

LEMMA InvHanded == IInv => Handed
<1> SUFFICES ASSUME IInv, lost = {}, ~unguarded
             PROVE  /\ Len(delivered) \in Nat /\ Len(delivered) <= arrived
                    /\ delivered = [k \in 1..Len(delivered) |-> k]
  BY DEF Handed
<1>1. taken <= arrived /\ Len(delivered) \in Nat /\ arrived \in Nat /\ taken \in Nat
  BY DEF IInv, TypeOK
<1>2. delivered = Counting(0, Len(delivered)) /\ Counting(0, Len(delivered)) = [k \in 1..Len(delivered) |-> k]
  BY DEF IInv, WorkerInv, StreamInv, Counting
<1>3. CASE \A w \in Workers : worker[w].pc # "read"
  BY <1>1, <1>2, <1>3 DEF IInv, WorkerInv, StreamInv
<1>4. ASSUME NEW w \in Workers, worker[w].pc = "read" PROVE Len(delivered) <= taken
  <2>1. taken = Len(delivered) + Len(worker[w].got)
    BY <1>4 DEF IInv, WorkerInv, StreamInv
  <2>2. Len(worker[w].got) \in Nat
    BY WorkerFrames DEF IInv, Frames
  <2> QED
    BY <1>1, <2>1, <2>2
<1> QED
  BY <1>1, <1>2, <1>3, <1>4

LEMMA StreamNext ==
  ASSUME IInv, Handed, Handed', [Next]_vars
  PROVE  [Stream!Next]_<<arrived, delivered, (lost # {} \/ unguarded)>>
<1>1. CASE PeerSend
  <2>1. arrived \in Nat
    BY DEF IInv, TypeOK
  <2>2. arrived' \in Nat /\ arrived' > arrived
    BY <1>1, <2>1, Numbers DEF PeerSend
  <2>3. UNCHANGED <<delivered, lost, unguarded>>
    BY <1>1 DEF PeerSend, received, rest
  <2> QED
    BY <2>2, <2>3 DEF Stream!Next, Stream!Arrive
<1>2. CASE ~PeerSend
  <2>1. StreamMoves
    BY <1>2, WorkerMoves, OtherMoves DEF Next
  <2>2. CASE (lost # {} \/ unguarded)'
    BY <2>1, <2>2 DEF Stream!Next, Stream!Break, StreamMoves
  <2>3. CASE ~(lost # {} \/ unguarded)'
    <3>1. lost = {} /\ ~unguarded /\ lost' = {} /\ ~unguarded'
      BY <2>1, <2>3 DEF StreamMoves
    <3>2. Len(delivered) \in Nat /\ delivered = [k \in 1..Len(delivered) |-> k]
      BY <3>1 DEF Handed
    <3>3. /\ Len(delivered') \in Nat /\ Len(delivered') <= arrived'
          /\ delivered' = [k \in 1..Len(delivered') |-> k]
      BY <3>1 DEF Handed
    <3>4. arrived' = arrived /\ Len(delivered') >= Len(delivered)
      BY <2>1 DEF StreamMoves
    <3>6. CASE Len(delivered') = Len(delivered)
      BY <3>1, <3>2, <3>3, <3>4, <3>6
    <3>7. CASE Len(delivered') > Len(delivered)
      BY <3>1, <3>3, <3>4, <3>7 DEF Stream!Next, Stream!Deliver
    <3>8. Len(delivered') = Len(delivered) \/ Len(delivered') > Len(delivered)
      <4>1. Len(delivered) \in Nat /\ Len(delivered') \in Nat /\ Len(delivered') >= Len(delivered)
        BY <3>2, <3>3, <3>4
      <4> QED
        BY <4>1
    <3> QED
      BY <3>6, <3>7, <3>8
  <2> QED
    BY <2>2, <2>3
<1> QED
  BY <1>1, <1>2

(* receiveData is a byte stream: what it has handed over, by whichever      *)
(* workers, is what the peer sent, in order and complete, until a call has  *)
(* dropped bytes or TCP's receivePartialData has gone past the mutex.       *)
THEOREM Refinement == Spec => StreamSpec
<1>1. Init => Stream!Init
  BY DEF Init, Stream!Init
<1>2. IInv => Handed
  BY InvHanded
<1>3. IInv /\ Handed /\ Handed' /\ [Next]_vars =>
        [Stream!Next]_<<arrived, delivered, (lost # {} \/ unguarded)>>
  BY StreamNext
<1> QED
  BY <1>1, <1>2, <1>3, Always, PTL DEF Spec, StreamSpec, Stream!Spec
===============================================================================
