# Verification of eventplus

eventplus is a small C++ library for event-driven TCP and TLS servers: one thread
accepts connections, a number of epoll loops watch them, and a pool of workers runs the
application's callbacks.  This directory holds TLA+ models of it, the instances of them
that TLC checks, and proofs that TLAPS checks for every value of the constants.

Paths below are relative to `src/src/`.

## The system

| component | state | operations | who calls it |
|---|---|---|---|
| `threadpool/ThreadPool` | `m_tasks`, `m_stop`, `m_queueMutex`, `m_condition`, the worker threads | `enqueueTask`, `workerThread`, the destructor | acceptor and loops enqueue; workers run callbacks |
| `IOWorkerThread/IOWorkerThreadHandler` | `m_taskFunction` | `handleIOEvent`: enqueue a pointer with the function | `SocketEventHandler`, `TcpServerSocket` |
| `networkevent/SocketEventHandler`, `EventHandlerThread` | an epoll instance, `m_continuePolling`, `m_events` | `startPolling`, `handleEvent`, `addSocket`, `removeSocket`, `stopPolling`, `closeEpoll` | one thread each; the scheduler and `stopPolling` from other threads |
| `networkevent/EventScheduler` | the loops, `m_currentIndex` | `addSocket` (round robin), start, stop | acceptor, `main()` |
| `socket/server/TcpServerSocket` | `clientEventStores`, its mutex, the listener's store, `m_eventReceiver` | `handleIOEvent` (accept), `removeSocket`, `handleCallBackEvent`, `stopPolling` | acceptor; loops; workers; `main()` |
| `common/SocketDetails.h`: `EventStorePointer` | descriptor, `m_eventType`, `m_socketEventHandler`, `m_SSL`, `m_socketMutex` | none of its own | shared by raw pointer between all threads |
| `datatrasaction/server`: TCP and TLS handlers | the socket or the `SSL` session | `initConnection`, `receiveData`, `sendData`, `closeConnection` | acceptor, workers, whoever removes |
| `ssl/SSLCertificateHandler` | `SSL_CTX`, certificate, key | load once, `getNewCertificate` | `main()`, acceptor |
| `socket/client`, `datatrasaction/client` | a client socket | connect, send, receive, close | `main.cpp`, as a test of the server |
| `UdpServerSocket`, `workerthread`, `SocketEventDispatcher` | none | none | nobody |

A connection is one heap object, an `EventStorePointer`, owned by a `unique_ptr` in
`clientEventStores` under its descriptor number.  Everybody else holds it as a raw
pointer: epoll in `data.ptr`, a loop in `m_events`, the pool in its tasks, a worker while
it runs the callback.  `removeSocket` frees it in the middle of all that.  The hard
behaviours are the races around this object:

* it is in an epoll before it is in the map and before its first task is posted;
* its descriptor number is free for reuse as soon as it is closed, before the map entry goes;
* the kind of event is written into it and read from it later by a worker;
* `stopPolling` tells the threads to stop, does not wait for them and frees every store;
* a failed TLS handshake closes the descriptor and leaves the store where it was;
* several workers may be in calls on one connection while it is being closed, with one
  mutex in the store to keep them apart, taken after `m_SSL` has been looked at.

What makes each component correct:

* **ThreadPool**: each task is run once, in order; no notification is lost; stopping waits
  for what has been begun and no more; the destructor returns.
* **TcpServerSocket**: one owner for each store; descriptor numbers in use stand for the
  right connection; no raw pointer is used after its store is gone; each callback is true;
  what the peer closes is reclaimed; stopping leaves nothing behind.
* **SocketEventHandler / EventScheduler**: the loops end when told; the index stays a loop.
* **TCP and TLS handlers**: what the callers of `receiveData` get is the stream the peer
  sent; messages are not interleaved on the wire; a session has one thread at a time; every
  call returns once the peer stops sending; under TCP, data is all read although the events
  are edge-triggered.
* **SSLCertificateHandler, TLSClient**: nothing is freed twice or used after it was freed,
  nothing stays behind, and sessions come only from contexts that have their certificate.

`PROJECT.json` lists the hazards at their lines with the properties that cover them.

## Modules

| module | models |
|---|---|
| `TaskQueue` | abstract specification: a queue whose tasks start in order, once each |
| `ThreadPool` | `threadpool/`: mutex, condition variable and atomic flag, step by step |
| `ThreadPoolProofs` | theorems about `ThreadPool` |
| `Network` | external: backlog, descriptors, epoll instances, clients |
| `TcpServerSocket` | acceptor, loops, workers and `main()` over stores, map and queue; extends `Network` |
| `TcpServerSocketProofs` | theorems about the heap and the event loops of `TcpServerSocket` |
| `TcpServerSocketTaskProofs` | theorems about its descriptors, tasks, callbacks and `stopPolling`; extends the former |
| `ByteStream` | abstract specification: bytes are delivered in order, once each, until the stream breaks |
| `SocketTransfer` | `TCPServerSocketHandler` and `TLSServerSocketHandler`: the calls on one connection |
| `SocketTransferProofs` | theorems about `SocketTransfer` |
| `OpenSsl` | external: what OpenSSL and the kernel hand out and want back |
| `TLSClient` | `socket/client/TLSClient`; extends `OpenSsl` |
| `SSLCertificateHandler` | `ssl/SSLCertificateHandler` and `loadCertificate`; extends `OpenSsl` |
| `MainProgram` | `main.cpp`: the two above in one process, with the acceptor taking sessions |
| `MainProgramProofs` | theorems about `MainProgram` |
| `MCThreadPool`, `MCTcpServerSocket`, `MCSocketTransfer`, `MCMainProgram` | the instances TLC checks; symmetry for the server |

### ThreadPool

Variables have the names of the members; `worker`, `caller` and `destructor` are the
places the threads have reached.  A step ends where another thread can interfere:

| action | `ThreadPool.cpp` |
|---|---|
| `EnqueueTask`, `NotifyOne` | 24-28, 29: the push, then `notify_one` with the mutex released |
| `TestStop` | 33: `while (!m_stop.load())` |
| `LockQueue` | 36, and the reacquisition inside `wait` |
| `TakeFront`, `ReturnStopped`, `PredicateFalse` | 37-43: three outcomes of the predicate |
| `PopTask` | 44-45 |
| `Block`, `SpuriousWakeup` | inside `wait` |
| `Execute` | 46 |
| `StoreStop`, `NotifyAll`, `JoinAll` | 15, 16, 17-21 |

`PredicateFalse` and `Block` are two steps because `m_stop` is not written under the
mutex: it may change between them.  `TakeFront` and `PopTask` are two steps so that the mutex is
what keeps other workers from the queue in between: without it two workers move from the
same front and pop twice.  `overtime` is history: the tasks each worker has finished since
`m_stop` was set.  `Queue` is the refinement mapping to `TaskQueue`:
pushed, queued, running and executed tasks.  A callback is taken to return.

### TcpServerSocket

The pool here is the queue `TaskQueue` promises: `Post` appends, `TakeTask` takes the head.
`store[p]` is the object at address `p`, `Nil` when there is none.  An address is reused as
soon as it is free, and `accept` may return any free descriptor number (a superset of the
lowest one).  `conn` in a store and `conn`, `kind` in a task are history: they name the
connection and the event, no guard of the server reads them.

| action | code |
|---|---|
| `StartReceivingConnection`, `CreateServerSocketAndStartReceiving`, `CreateServerSocketError`, `SetEventReceiver` | `main.cpp` 122-124, `TcpServerSocket.cpp` 131-145, 160-171, `SocketHandler.cpp` 47-70 |
| `AcceptorEvent`, `Accept`, `AcceptError`, `InitConnection`, `AddSocket`, `InsertAndPost` | `TcpServerSocket.cpp` 73-110, one event of the listener |
| `EpollWait`, `HandleEvent`, `Dispatch`, `ExitPolling` | `SocketEventHandler.cpp` 79-115 |
| `MarkClosed`, `RemoveSocket`, `EraseSocket` | `TcpServerSocket.cpp` 112-129, split where a worker can see `m_eventType` changed and where the task is posted |
| `TakeTask`, `HandleCallBackEvent`, `Return`, `GetAvailable`, `Read`, `ReceiveFault` | `TcpServerSocket.cpp` 147-158, `main.cpp` 13-30, `TCPSocketHandler.cpp` 51-107 |
| `CloseServerSocket`, `StopEventThread`, `CloseClients`, `ClearClients` | `TcpServerSocket.cpp` 29-42, 64-71, `EventHandlerThread.cpp` 18-26 |

Modelling decisions a reader should know:

* `clientEventStoresMutex` is held over the steps of one handler, from `LockStores` to the
  step that sets it back to `Nil`.  The write of `m_eventType` is a step of its own
  (`MarkClosed`), for a worker with an earlier task of the connection may read it at once.
  From there up to the post (`RemoveSocket`) nobody without the mutex can tell the parts
  apart but by the descriptor and the store, which change together; `EraseSocket` is the
  rest, for a worker may take the task before.  In `Dispatch` the write and the post are
  one step: a worker that reads the new value earlier differs only by a task not yet queued.
* `stopPolling()` and `closeEpoll()` of one thread are one step.  `m_continuePolling` is a
  plain `bool` read by its loop: the model reads its current value, and a loop that is in
  `epoll_wait` when the descriptor is closed may still get events.
* `epoll_wait` returns all pending edges of its instance; the loop handles them in any
  order.  The real order and `MAX_EVENTS` only restrict this.
* `m_eventType` is read for each test of `handleCallBackEvent`, as the unoptimised build
  does (`CMakeLists.txt` sets no build type), without a mutex.
* Undefined behaviour is a choice: a dead store reads as anything, a write to it is lost, or the
  process ends (`process = "terminated"`).  `m_serverSocketID`, `m_SSL` and
  `m_eventReceiver` are uninitialised and may be anything: `CloseServerSocket`,
  `InitConnection` and `Receivers` choose.
* A TLS read is abstracted to `receiveData` counting what is there; only its mutex and its
  use of `m_SSL` matter for the properties here.  `SocketTransfer` has the rest.

### SocketTransfer

One connection, seen from inside the handlers.  `Init` chooses the handler, for the
server is given one of the two.  `TcpServerSocket` says how long the store lives and how
events become tasks; here the store outlives the calls, and `DataEvent` is a loop reduced
to one connection.  Bytes have the numbers 1, 2, ... in the order they were sent, so that a
byte lost, repeated or out of order shows; a message sent is a name, and all have the same
length.  Its units on the `wire` are bytes under TCP and records under TLS.

| action | code |
|---|---|
| `CallReceiveData`, `CallReceivePartialData`, `CallSendData` | `SocketDetails.h` 65-83, up to the mutex: the test of `m_SSL` (`TLSSocketHandler.cpp` 89, 97, 175) is made without it |
| `Lock` | the `lock_guard` of each; under TCP `receivePartialData` has none |
| `GetAvailable`, `GetAvailableFails` | `TCPSocketHandler.cpp` 51-55, 62-73: `ssize_t`, `size_t`, `int`, and `-1` |
| `Read`, `NothingAsked`, `ReadNothing`, `ClosedMeanwhile` | one turn of the loops of `TCPSocketHandler.cpp` 72-107 and `TLSSocketHandler.cpp` 96-139, 174-220 |
| `Send`, `SendFails`, `SslWrite`, `WriteToReset` | `TCPSocketHandler.cpp` 21-47, `TLSSocketHandler.cpp` 88-94 |
| `CloseConnection`, `LockToClose`, `CloseSession` | `TCPSocketHandler.cpp` 109-111, `TLSSocketHandler.cpp` 141-171 |
| `PeerSend`, `PeerLeave`, `PeerReceive` | external: the other end, with or without `close_notify` |

* `FIONREAD` stores an `int` in an uninitialised `ssize_t`: `BytesAvailable` adds garbage
  in the upper half, `ToInt` takes it away as the conversion to the `int` parameter does.
* `receivePartialData` may be asked for any `int`, of which -1 stands for the negative
  ones: TLS returns at once, TCP throws and the process ends, whatever the connection.
* `SSL_read` returns no more than the rest of a record (`ReadSizes`).  `SSL_write` that
  cannot finish leaves `pendingWrite` in the session, and of the call that repeats it
  OpenSSL compares only the address and the length of the data.  Addresses are not in the
  model: whatever message comes next, the same or another, `SslWrite` may refuse it
  (another address) or go on with it from where the last one stopped (the same address).
  The record that was encrypted and not sent is still that of the earlier message.
* `EINTR` repeats the call and is a stuttering step.  Signals, exceptions and null sessions
  end the process where nothing handles them.
* `lost` and `cuts` record what a failing call has read or sent already; `unguarded` that
  TCP's `receivePartialData`, which takes no mutex, was called directly.

`Stream` is the refinement mapping to `ByteStream`: the stream breaks with the first byte
that a failing call throws away, or with a direct `receivePartialData` under TCP.

### MainProgram

`OpenSsl` is a heap of contexts, sessions, certificates, keys and descriptors, each with
the one reference its maker must release once.  A pointer is a place in the heap, `Nil`,
or for `m_socketId` also `Garbage`, for no constructor sets it.

| action | code |
|---|---|
| `LoadCertificate`, `CreateCertificateContext`, `LoadCertificateFromFile`, `ConfigureSSLContext` | `TLSSocketHandler.cpp` 231-235, `SSLCertificateHandler.cpp` 24-122: the parts, between which `m_mutex` is free |
| `GetNewCertificate`, `FreeSession` | `SSLCertificateHandler.cpp` 124-135, `TLSSocketHandler.cpp` 23-28, 78-81, 167 |
| `InitCTX`, `CreateSocketFails`, `Connect`, `SendData`, `ReceiveData`, `Close`, `Destroy` | `TLSClient.cpp` |
| `Loading`, `StartServer`, `CallItself`, `StopServer` | `main.cpp` 111-134 |

`usage` is chosen at `Init`: `"main"` follows `sendDataUsingTLS` line by line, `"any"` is a
program that calls the client's public functions in any order until it destroys the
client, and may load certificates again while it serves.

### Mutants

The operators named `Mutant...` are used by no action.  Each is a variant of the
definition next to it with a bug such code may well have (a lock that is a temporary, an
index without its modulo, a stack for a queue); put in that definition's place, it
violates the property `PROJECT.json` pairs it with, which shows that the property depends
on that code.

## Runs

| run | specification and bounds | what it checks |
|---|---|---|
| `MCThreadPool` | `FairSpec`; 3 workers, 2 callers, 4 tasks | `TypeOK`, `ExactlyOnce`, `NoLostWakeup`, `StopIsPrompt`, `EveryTaskRuns`, and `QueueSpec`: the pool implements `TaskQueue` |
| `MCThreadPoolDestroy` | `FairSpec`; 2 workers, 2 callers, 3 tasks | `DestructorReturns`, violated |
| `MCTcp` | TCP; 2 clients, 2 descriptors, 2 addresses, 2 loops, 2 workers, 1 message each | `TypeOK`, `Ownership`, `OwnDescriptor`, `EventsNeverDangle`, `OpenConnectionTaskIsLive`, `ClosedCallbackIsTrue`, `ClosedPostedLast` |
| `MCTls` | TLS with `stopPolling`; 2 clients for 1 descriptor, 2 addresses, 1 loop, 1 worker; the receiver is null or wild before it is set | `Ownership`, `OwnDescriptor`, `EventsNeverDangle`, `OpenConnectionTaskIsLive`, `ClosedCallbackIsTrue`, `ClosedPostedLast` |
| `MCTcpStop` | `FairSpec`, TCP with `stopPolling` at any time; 1 client, 2 messages, 2 loops, 1 worker | `StopIsComplete`, `PeerCloseReclaimed`, `DataConsumed`, `LoopsExit` |
| `MCListener`, `MCCallback`, `MCAcceptAll` | smallest instances | `ListenerClosedByStop`, `CallbackMatchesEvent`, `EveryConnectionHandled`, violated |
| `MCTransfer` | `FairSpec`; both handlers, 2 workers, 2 bytes in records of 1 or 2, a buffer of 2 for `SSL_read`, 2 messages of 2 units into a send buffer of 2, 2 calls the application makes on its own | `TypeOK`, `AvailabilityHolds`, `MessagesFramed`, `SessionExclusive`, `CallsReturn`, `TcpDelivers`, and `StreamSpec`: the handlers implement `ByteStream` |
| `MCShortRead` | TLS, 1 worker, 2 bytes | `ShortReadMeansDrained`, violated |
| `MCMain` | 9 objects, 2 loads | `TypeOK`, `HeldIsLive`, `LeaksOnlyByRepetition`, `SessionsCertified` |
| `MCClientFails` | 6 objects, 1 load | `ClientFailureSurvived`, violated |

Bounds.  Two connections are enough for one to take the descriptor number or the address
of the other, which every property about reuse needs; two loops for an event and a removal
of different connections at once and for the round robin to wrap; two workers for two
callbacks of one connection; one message for a data event, two for a message that
arrives while another is read (two workers never read one connection at once, for
`m_socketMutex` excludes them).  One more address than descriptors lets the old store and
the new one of a number exist together, as after a failed handshake.  Three workers, two callers and four
tasks let one worker sleep, one be notified and one be busy, with tasks left over.
`MCTcpStop` has one connection: its questions are about one connection against the loops,
the worker and `stopPolling`; how connections disturb one another, with `stopPolling` as
well, is what `MCTcp` and `MCTls` ask.  `StopIsComplete` is about a listener that was closed,
which happens under TCP only (`closeConnection` of the TLS handler needs a session), so under TLS
it would say nothing.  `MCAcceptAll` has a descriptor for each client: its connection waits
because of the edge, not because descriptors have run out (`AcceptError`), the other way to wait.  In `MCTransfer` two bytes make two records or one,
arrive before and after `FIONREAD`, and fill the buffer of `SSL_read` exactly or not; a
message of two units can be cut in half, and two messages meet in a full buffer; a third
worker would only wait for the same mutex.  `IntRange` = 4 is the smallest above the counts.
In `MCMain` nine objects are the seven of a run of `main()` and two more for a second
connection, context or client session.  The bounds are `MaxTasks` (`EnqueueTask`), `MaxSends` (`Send`), `MaxBytes`
(`PeerSend`), `MaxCalls` (the calls no event asked for), `MaxObjects` (`Allocate`), `MaxLoads`, the sets of the configurations,
and that each client connects once.  Symmetry is used only where no liveness is checked.

Deadlock checking is on in none of the runs, for the systems stop: clients stop
connecting, and after `stopPolling` or a termination nothing is left to do; `MCThreadPool`
ends when the pool is destroyed.  The liveness runs are what shows that nothing stops too early.

Fairness.  `ThreadPool!FairSpec`: threads run, so a worker that can step does, a caller
that has pushed calls `notify_one`, a destructor that has begun goes on; weak fairness is
enough since the mutex is given up by each holder.  Nobody has to enqueue or to destroy,
and no spurious wake-up is promised.  `TcpServerSocket!FairSpec`: the acceptor, each loop,
each worker and a `stopPolling` under way keep running; clients owe nothing; a handshake
under TLS may block for ever.  `SocketTransfer!FairSpec`: the loop, each worker in a call, and a
`closeConnection` that has begun keep running; the peer need not read, send or leave,
nobody has to close, and the application need not call anything.  `CallsReturn` holds
under it because the sockets are non-blocking, and says what it needs of the peer: that it
does not send for ever.  `MaxBytes` makes this true of every behaviour of the instance, so
the premise is there for the reader: `receiveData` under TLS ends with a short read only, and a
peer that keeps its buffer full keeps it going.  `TcpDelivers` has no counterpart under
TLS, where a record may stay in the session until the peer sends again.
The scheduler of the operating system justifies this, no
thread waits on anything but the mutexes, the queue, and the network.

## What the code does not keep

* **The listener outlives `stopPolling`** (`ListenerClosedByStop`): `m_serverSocketID` is
  read in `closeServerSocket` and assigned nowhere.
* **Callbacks are mixed up** (`CallbackMatchesEvent`): the event kind is a field of the
  connection, overwritten by a later event before the callback of an earlier one reads it.
  A connection that sends at once has `dataEvent` called twice and `newConnectionEvent` never.
* **A connection can wait in the backlog** (`EveryConnectionHandled`): one `accept` for
  each edge of an edge-triggered listener.
* **`~ThreadPool` can hang** (`DestructorReturns`): `m_stop` is set without the mutex.
* **A short `SSL_read` is taken for the end of the data** (`ShortReadMeansDrained`): it is
  the end of a record.  The comment at `TLSSocketHandler.cpp:210` says otherwise; under
  edge-triggered epoll the next record then waits for another arrival.
* **A client that fails ends the process** (`ClientFailureSurvived`): `~TLSClient` calls
  `Close()`, which uses `m_clientSocket` before `Connect` has set it.

What does hold is stated next to them: `ClosedCallbackIsTrue` says that the mix-up never
reports a closing that did not happen to the connection the task was posted for, and `NoLostWakeup` that enqueueing, unlike
destruction, loses no notification.

The most serious thing the models show has no run of its own, for no document promises
otherwise.  **Every closing is reported through a pointer that is being freed**:
`removeSocket` posts the task of the closing (`TcpServerSocket.cpp:123`) and erases the store a few lines
below (127), so that `handleCallBackEvent`, and whatever the application does in
`connectionClosedEvent`, reads an object that is gone or going, or the next connection if that
was allocated at the same address.  The task of a failed handshake may outlive its store in
the same way.  The properties stop short of both: `OpenConnectionTaskIsLive` is about tasks of
connections that are open, and `ClosedCallbackIsTrue` compares with the connection the task was posted
for (`task.conn`, history), not with the one the pointer has come to mean.

The following, too, the models follow without a property that would fail: data that arrives together with the FIN is dropped; a
`dataEvent` after the descriptor is closed terminates the process (`ReceiveFault`); a loop
may write to a store `stopPolling` has freed (`LoopFault`), and `EventsNeverDangle` is stated
until then; a negative size given to TCP's `receivePartialData` ends the process on a live
connection; a message that follows a cut off `SSL_write` may go out as the tail of the one before it,
when its string lies at the same address (`SslWrite`); a TLS peer that keeps 1000 bytes coming holds `receiveData`,
and with it `m_socketMutex` and the thread that closes the connection; a TLS connection whose `m_SSL` happened to be null keeps its descriptor; a worker that waited for `m_socketMutex` while
the session was freed calls `SSL_read` or `SSL_write` with null; an error drops the bytes a
call has read so far; a message that `send` cut off is not resumed, so a retry repeats its
beginning; a second `Connect` or `Init` leaks what the first got, and so does a second
`loadCertificate`, after which the acceptor may take sessions from a context that is not
configured yet.  The X509 and RSA objects of `SSLCertificateHandler` are never freed,
though `SSLCertificateHandler.h:54` announces smart pointers for them.  On the success path
`sendDataUsingTLS` waits for an answer that `Ctest` does not send, so that `main()` comes to
`stopPolling` only when its client fails.

## Proofs

The assumptions are those on the constants: `ThreadPoolAssumption` (finite sets of
workers and callers, distinguished values apart), `NetworkAssumption` and
`ServerAssumption` (at least one loop, `Nil` apart from the rest), `TransferAssumption` (an
`int` is wide enough for the bytes of the run, buffers and messages are not empty, `Nil` and
the thread that removes are no worker), and for `MainProgram` `LibraryAssumption`,
`ClientAssumption` and `LoadsAssumption` (the bounds are naturals, `Nil` and `Garbage` are no
object).  There is no assumption on the number of clients, descriptors, addresses, loops,
workers, bytes, messages, objects or loads, and none on TCP or TLS.

Each inductive invariant is one formula that TLC also evaluates: it was checked as an
invariant of the instance of its runs (for `TInv` with one worker and `stopPolling`)
before it was proved.

**ThreadPool.**  `ExactlyOnce` is not inductive alone.  `IInv` adds `MutexInv` (who holds
the mutex is at the predicate or about to block, and who is about to block saw an empty
queue) and `InOrder` (the queue is the last tasks pushed, with no gap), from which the task
a worker moves from the front is one no worker has had.  A worker between `TakeFront` and `PopTask`
has the mutex, so what it copied is still the front when it pops.  `StopPrompt` counts: a worker
that has finished a task since `m_stop` was set is at the test of it, or gone, and a worker that
is woken or gets the mutex late has finished none.  `Implementation` maps each step to one of
`TaskQueue` under the same invariant.  `WakeupsSuffice` counts too: `NotifyOne` moves one
unit from the notifying callers to the heading workers, `PopTask` takes one from both
sides, and a worker leaves the heading ones only with the queue empty.

**TcpServerSocket.**  `Base` is `TypeOK`, `ControlInv` and `Ownership`; `ControlInv` ties
the mutex to the places of its holder and `newStore` to the acceptor's.  A store is live
only in the map or in the acceptor's hands, and only the holder of the mutex changes either.
`EventsNeverDangle` needs `Tracked` on top: whatever an epoll or a loop holds (`Held`) is a
live store whose `loop` is that loop and whose descriptor is open, or which the
loop itself is removing.  By `Ownership` there is one store for each descriptor
(`OneStorePerFd`), so an insertion that frees an old store frees one that no epoll
holds, and a removal frees only what its own loop holds.  Lemmas state for each group of actions what
it keeps (`QuietStep` for those that leave heap and epoll alone, then one for each of
the others).  `Stopped` covers what follows `stopPolling`.

`TcpServerSocketTaskProofs` adds `TInv`, which is inductive together with that `IInv`:

* `OnceInv`: a client is in the backlog once, and from then on has one store and one
  descriptor; before that nothing refers to it (`Untouched`).
* `NumberInv`: the number in a store that can still be closed is its connection's, or
  already closed by the removal or by `closeAllClientSocket` under way.  A closed number
  can come back at once, so this holds only because nobody without the mutex accepts:
  `accept` is never given a number that another closable store holds.  A store whose
  handshake failed holds its number wrongly, and is not closable.  `OwnDescriptor` follows
  with `MarkedInv`, which keeps the type of a store under removal.
* `LeakInv`: under TCP each open descriptor has the store that will close it, and after
  `closeServerSocket` really closed the listener nothing is accepted; `StopIsComplete` is its
  last state.
* `PostInv`: a store in the map was announced, and one whose closing was posted is in the hands
  of the loop that erases it, so no later event of that connection is dispatched.  That is
  `ClosedPostedLast`; `StopInv` (an address is known to one loop only) excludes the other loops.
* `TaskInv`: a task that waits or runs was posted for its connection; while that is open and
  its closing is not posted, `OnceInv` and `PostInv` make the store it points at the connection's.
* `ClosedInv`: a hang-up an epoll reports, a mark `EVENT_CLOSED` and a posted closing each
  come from a peer that closed, and under TCP a connection that was announced is closed only
  after its closing was posted.  So a worker that reads `EVENT_CLOSED` reads it in the store of
  its own connection, or is told of one whose closing was posted, or (TLS) of one that is closed.

Pointwise lemmas say what a step can do to one store (`StoreStep`), descriptor (`FileStep`),
task list (`PostStep`), loop (`LoopStep`) or worker (`WorkerStep`), so that each part of `TInv` is
proved against five short disjunctions and not against every action.

**SocketTransfer.**  `IInv` starts from `FrameInv` (what a worker's frame holds in each
place) and `MutexInv` (who is past the `lock_guard` holds `m_socketMutex`, but for TCP's
`receivePartialData`).  `SessionExclusive` follows from those two; `AvailabilityHolds` is inductive with them.
`WireInv` ties the wire to the one sender: what a worker, or under TLS the session, has
begun is the last thing on the wire (`Under`), and otherwise a message may start
(`Boundary`); `MessagesFramed` is inductive with it.  `StreamInv` says that the bytes taken from
the socket are those delivered and those in the one reader's frame, in order, until a byte
is lost or a reader went past the mutex; the step to `ByteStream` is a case for each action
(`StreamNext`).  The sequences of bytes are compared with `Counting`, for which the lemmas
before them say what appending does.

**MainProgram.**  `HeldIsLive` does not say that what one side frees is not the other's.
`ClientHolds` and `ServerHolds` do: what each holds is alive, of its kind and made by that
side, so `Close` and `FreeSession` spare the other (`ServerKept`, `ClientKept`), and a client without
a store has no session and no descriptor.  `NothingLost` says that a client that repeated
nothing still holds every object of its own, from which `NoLeak` follows.  `Certified` needs
`LoadInv`: no session is taken while `main()` loads, the server starts only after a load
that succeeded, and while that load is the only one its context is the one in use.

| theorem | states | run that checks it |
|---|---|---|
| `ThreadPoolProofs!Typing`, `Exactness`, `StopPrompt`, `WakeupsSuffice`, `Implementation` | `TypeOK`, `ExactlyOnce`, `StopIsPrompt`, `NoLostWakeup`, `QueueSpec` | `MCThreadPool` |
| `TcpServerSocketProofs!Typing`, `OwnedOnce`, `NothingDangles` | `TypeOK`, `Ownership`, `EventsNeverDangle` | `MCTcp`, `MCTls` |
| `TcpServerSocketTaskProofs!OwnNumber`, `TasksPoint`, `ClosingTrue`, `ClosingLast` | `OwnDescriptor`, `OpenConnectionTaskIsLive`, `ClosedCallbackIsTrue`, `ClosedPostedLast` | `MCTcp`, `MCTls` |
| `TcpServerSocketTaskProofs!NothingLeft` | `StopIsComplete` | `MCTcpStop` |
| `SocketTransferProofs!Typing`, `Announced`, `Framing`, `OneInSession`, `Refinement` | `TypeOK`, `AvailabilityHolds`, `MessagesFramed`, `SessionExclusive`, `StreamSpec` | `MCTransfer` |
| `MainProgramProofs!Typing`, `HeldStaysLive`, `NoLeak`, `Certified` | `TypeOK`, `HeldIsLive`, `LeaksOnlyByRepetition`, `SessionsCertified` | `MCMain` |

Every invariant, every action property and both refinements that the passing runs check
are theorems.  Only model-checked are the liveness properties, which are out of the prover's
reach: `EveryTaskRuns`, `PeerCloseReclaimed`, `DataConsumed`, `LoopsExit`, `CallsReturn` and
`TcpDelivers`.

## Not modelled

* `~TcpServerSocket`, which `main()` never reaches, and the destructor of
  `SSLCertificateHandler`, which nobody runs.
* How long `TLSClient`'s blocking calls take, and the SIGPIPE its `SSL_write` and
  `SSL_shutdown` may raise when the server has reset the connection.
* In `SocketTransfer`, a descriptor number given to another connection while a worker is still in a
  call on it.  `TcpServerSocket` has it: `Read` there reads whatever the number stands for.
* The numbers of the epoll instances themselves (`closeEpoll` against `epoll_wait`).
* Code without a caller: `TcpClientSocket` and `SocketHandler::createClientSocket`,
  `IOWorkerThreadHandler::handleIOTask`, `setEPollEventFlag`, `DisplayCerts`,
  `UdpServerSocket`, `workerthread/`, `SocketEventDispatcher`, `TCPClientSocketHandler`, and
  `TLSClientSocketHandler`, whose constructor is private.
* `inet_ntop` failing at `TcpServerSocket.cpp` 86-89, which would keep the descriptor: it
  cannot fail for `AF_INET` and a buffer of that size.

## Plan

1. Proofs: that the server's queue of tasks is the one `TaskQueue` promises, so that
   `ThreadPool` and `TcpServerSocket` meet in one theorem; the safety half of the liveness
   properties (what a step towards the goal may not undo).
2. `ServerDestruction`: `~TcpServerSocket` with its members' destructors in order, composed
   with the pool, and the epolls' numbers.
3. An abstract connection life cycle (accepted, announced, closed, reclaimed) that
   `TcpServerSocket` implements.
