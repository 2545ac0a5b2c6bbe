# libsaf in TLA+

libsaf is a C++ network library: event loops over epoll, timers, TCP and UDP
servers, connections and clients, and a small base (threads, logging). This
directory holds TLA+ modules of its core, TLC configurations that check them on
small instances, and TLAPS proofs about them. Source paths are relative to the
repository; the code is under `src/base` and `src/net` (named `src/src/...` in
PROJECT.json).

## The system

| component | state | operations | who calls it | module |
|---|---|---|---|---|
| EventLoop | `_quit`, `_functors` under `_mutex`, the poller, the timer queue | start, stop, runInLoop, queueInLoop, addTimer, cancelTimer | start by its own thread; the others by any thread and by callbacks | EventLoop, FunctorQueue |
| TimerQueue, Timer | heap of timers, map that owns them, each timer's heap position | createTimer (any thread), addTimer, cancelTimer, checkTimers, popTimer | EventLoop | TimerQueue |
| IOFd, EPollPoller | a watcher's events and status, the poller's map, the kernel's epoll set | attach, detach, enable, disable, poll, handleEvent | sockets' owners, on the loop thread | IOFd |
| EventLoopCluster, CountDownLatch | threads with a loop each, `_counter`, the latch | start, stop, getNextLoop | Server, on its loop thread | EventLoopCluster |
| TcpConnection, Connection | `_status`, socket, buffers, callbacks | send, close, shutdown, event handlers | the application on any thread; IOFd | TcpConnection |
| TcpServer, Server, TcpAcceptor | table of connections, listening socket | start, stop, newConnection, removeConnection | the application; acceptor and connections | Server, TcpServer |
| UdpServer, UdpConnection, UdpAcceptor | table keyed by address, one socket, output and `_writing` | as TCP; expiry | the application; datagrams; a repeated timer | Server, UdpServer |
| TcpClient, TcpConnector, Client | `_connecting`, connection, connecting socket, retry timers | connect, disconnect, retry | the application on any thread | TcpClient |
| Buffer | read and write index over a vector | append, retrieve, integers, readFd, readFrom | connections, application | Buffer |
| Pipeline, UnpackHandler | chain of handlers | addFirst, addLast, process | application | Pipeline |
| AsyncLogger, log(), AppendFile | buffers, the FILE, the writer thread | log, start, stop, setPath | any thread | AsyncLogger |
| ThreadPool | queue of tasks, workers, `_stop` | run, start, stop | any thread | ThreadPool |

Everything a loop owns is changed on its thread only. Other threads reach it by
queueing functors, which carry a `shared_ptr` to what they touch (with exceptions:
`Connection::send` carries a bare `this`). A loop iteration is: poll, handle the
reported descriptors, execute the queued functors, fire due timers. A server has a
loop of its own, which accepts and keeps the table, and a cluster of loops on which
the connections live; the two talk through functors.

What is hard here: the functor line is filled while it is being executed, and while
the loop is stopped and destroyed; a batch of events holds raw addresses while
callbacks close and destroy connections; a connection's status is checked and
changed in two steps by several threads; its life is that of its last
`shared_ptr`; registrations are kept in three places keyed by reusable numbers;
the heap stores positions twice; start and stop of a cluster, and stop of a server,
race with other loops; a client's retry timers outlive the attempt they belong to.
PROJECT.json lists these as hazards, each at its line.

## Modules

- **FunctorQueue**: what a loop promises its callers: a line of functors,
  executed in order, one by one.
- **EventLoop** (`net/EventLoop.cpp`): one loop from constructor to destructor.
  `stage` and `step` say where the loop thread is, `functors` and `batch` are
  `_functors` and the local vector of runFunctors. `queued`, `ran`, `inlined` and
  the two marks are history. Timers are members of a set here.
- **TimerQueue** (`net/TimerQueue.cpp`): heap, positions and map; one turn of
  heapUp or heapDown is a step.
- **IOFd** (`net/fd/IOFd.cpp`, `net/poller/EPollPoller.cpp`): watchers, the
  poller's map, the kernel's set, and the handling of a batch of events. Watchers
  are constructed again and again on reused descriptor numbers.
- **EventLoopCluster** (`net/EventLoopCluster.cpp`, `base/CountDownLatch.cpp`):
  the owner's thread and the pairs' threads.
- **TcpConnection** (`net/tcp/TcpConnection.cpp`, `net/Connection.cpp`, parts of
  `net/tcp/TcpServer.cpp`): one accepted connection on the server's loop, a second
  application thread, and the peer. `frames` is the stack of callbacks and calls
  on the loop thread, `Referenced` says whether a `shared_ptr` is left; when none
  is, the destructor runs before anything else. `fault` records a failed assertion
  a dead or null pointer or an abort; it ends the behaviour. `uses` is the set of ways
  in which the application uses the interface, chosen in the initial state from the
  constant `Applications`.
  `MCTcpConnection` adds the symmetry of messages and the applications of the run.
- **TcpClient** (`net/tcp/TcpClient.cpp`, `net/tcp/TcpConnector.cpp`,
  `net/Client.cpp`): the handlers call each other, so each is an operator on the
  record `c` of the client's state, and an action is a call, a socket event, a
  functor or a timer. Calls on another thread are three steps: check, store, queue.
  What is left when the client is destroyed stays: functors with the bare address of
  client or connector, timers that own the connector, kept connections.
- **Server** (`net/Server.cpp` and what `net/tcp/TcpServer.cpp` and
  `net/udp/UdpServer.cpp` share): `table`, the connections, the functors of the
  server's loop (`mainq`) and of the cluster's loops (`wq`), stop() one connection at
  a time, and closeInLoop in its steps: notification, test of `_closeCallback`, its
  call, the return to the handler. close() and shutdown() on another thread are three
  steps: check, change of the status, functor (`call`). Destruction is a predicate,
  `Dead`: no `shared_ptr` is left.
  **TcpServer** adds accepting and the end of a connection, **UdpServer**
  datagrams, expiry and the output of a connection. **MCServers** explores both.
- **AsyncLogger** (`base/AsyncLogger.cpp`, `base/Logging.cpp`,
  `base/FileUtils.cpp`): callers, writer thread, LoggerLauncher, the FILE's cache
  and abort() on a FATAL line. A vector of buffers is one sequence of lines.
- **ThreadPool** (`base/ThreadPool.cpp`): workers on a condition variable with
  spurious wakeups; run() reads `_stop` and `_workers` without the mutex.
- **Buffer** (`net/Buffer.h`, `net/Buffer.cpp`): the record of vector and indices,
  one operator per method.
- **Pipeline** (`net/Pipeline.cpp`, `net/handler/UnpackHandler.cpp`): frames cut
  into pieces by the network, read with readFd and unpacked.
  **MCParts** explores logger, pool, buffer and pipeline, one per behaviour.
- **EventLoopProofs**, **TimerQueueProofs**, **IOFdProofs**, **EventLoopClusterProofs**,
  **TcpConnectionProofs**, **TcpClientProofs**: theorems about the module of that name;
  **ServersProofs** about MCServers, **PartsProofs** about AsyncLogger, ThreadPool,
  Buffer and Pipeline.

Definitions whose names extend another one's (`SwapKeeps`, `DirectUnlessWriting`,
`StopCloseForgets` ...) and that no other definition uses are wrong variants of the
code: every property is known to fail under one of them (PROJECT.json, "mutants").

All models are of the default build, with assertions on. `_quit` is a plain `bool`
written by one thread and read by another; the race is modelled by letting
`_quit = false` in start() take effect or not.

## Runs

Passing runs:

| run | instance | shows |
|---|---|---|
| `event_loop` | 2 tasks, 1 timer, at most 1 active descriptor; 70 000 states | functors are executed exactly once in order; stop() and the destructor drain what came before them; a cancelled timer stays cancelled; queued functors run; start() returns after stop(); FunctorQueue is implemented |
| `timer_queue` | 4 timers, one repeated, delays 0 and 1, clock to 2; 685 000 states | heap, map and positions agree; the heap is ordered until a cancellation moves an entry; no timer fires after its end; one-shot timers fire |
| `watchers` | 2 watchers, 2 numbers, every combination of uses; 1 150 000 states | the three records of a registration agree; no address of a dead watcher is kept or called, and no assertion of poller or watcher fails, but for the uses named below |
| `cluster` | up to 3 threads, an int of 3 bits and a size_t of 4, 1 functor per loop; 23 000 states | start() waits for all loops; living loops are handed out in turn, also while `_counter` is negative; stop() leaves nothing; both return |
| `tcp_connection` | three applications, which go without sends on another thread, without stop(), and without shutdown() on another thread and a careless stop(); 2 messages of 2 units; 960 000 states | stream integrity, order of notifications; every fault has its cause among the uses |
| `tcp_connection_use` | a restricted application, 1 message; 62 000 states | the peer's end is noticed, close() is done, output is written, the connection is released |
| `tcp_client` | 2 connection objects, 2 calls of connect(), 2 queued functors, each use alone; 32 000 states | every failing assertion and every use of something destroyed has its cause among the uses; disconnect() is final; connect() goes on until there is a connection |
| `servers` | 2 connections, 2 addresses, 2 loops, each use alone; 2 datagrams, 1 when another thread calls; 223 000 states | every crash has its cause among the uses; no connected connection is missing from the table; stop() leaves nothing behind; UDP output leaves unless sendto() failed; ended connections are released and stop() returns |
| `parts` | 4 lines in buffers of 4, 2 launches; 3 tasks, 2 workers, 2 starts; bytes of 3 values, at most 3 readable; 3 frames of up to 3 bytes; 228 000 states | lines reach the file in order and in the end; no wakeup is lost, stop() returns; the buffer is a queue of bytes; frames come out whole and in order |

Why the bounds are enough: the interesting orders need two functors around a swap
and one after a stop; four timers give the heap a node with two children, one child
with a child, and ties; two watchers on two numbers reuse each other's number and
share a batch; three threads have a first, a middle and a last in every loop over
the pairs, and the counter wraps; two messages of two units give a partial write
followed by a send while output waits. A message read is a flag, and the callbacks
of other objects on the loop are limited to one per iteration. Two connection
objects and two calls of connect() let an attempt meet what is left of the one
before; a second connection on the same address, or on the same loop, meets the
removal of the first. Lines of two sizes fill a buffer exactly, leave room or
overflow it, and a logger is started twice. Two workers and three tasks leave a task
nobody takes. A buffer that starts with two bytes and reads up to three more moves,
grows and splits a read; integers of one and two bytes, positive and negative, show
the order of bytes and the sign.

### What the application may do

Several faults of the code are met only by certain uses of it. Instead of leaving
them out, the modules name the uses, and the properties say which fault needs which.

A watcher (`AssertionsHold`, `NoDangling`) can be destroyed by its owner in the
functors and timers of the loop, in the callback of any other watcher, and in its own
close callback, provided it is detached and no event of it waits in the batch.
Otherwise:

| use | what happens |
|---|---|
| `attached`: destroyed while it has its loop | `~IOFd` asserts against it |
| `handling`: destroyed in its own error, read or write callback, as a client does that lets go of a connection at the end of the stream | `assert(!_handling)` fails |
| `pending`: destroyed while its address waits in activeFds, as a stop() in another object's callback may do | the loop calls through the dead address |

A connection (`OnlyKnownFaults`) can take: send() on the loop thread while connected;
close() on any thread, but on the loop thread not from a callback of another object
while an event of this socket waits in the same batch; TcpServer::stop() from another
object's callback, with no event waiting and the connection kConnected or
kDisconnected; and shutdown() on the loop thread as long as the peer does not reset.
Otherwise:

| use | what happens |
|---|---|
| `shutdown` when the peer's reset has arrived | ::shutdown() fails with ENOTCONN, and Socket::shutdown answers with LOG_FATAL |
| `shutdownUser`: shutdown() on the other thread | the same; a second shutdown() aborts when both sides have sent their end; `kDisconnecting` overwrites `kDisconnected`, and the destructor asserts against it |
| `sendLate`, `sendUser`: send() when not connected, or on the other thread | the write event of a socket without loop is enabled; the other thread's functor may find the connection dead |
| `closePolled`: close() from another object's callback, an event waits | handleCloseInLoop asserts against the status |
| `stopAny`: TcpServer::stop() at any time | destroyed in the wrong status, in its own handler, or with its address in activeFds |
| `writeFails`: an errno of write() the code does not know | nothing is written until the next send(), and no fault follows |

A client meets no failing assertion and uses nothing destroyed when all calls come
from one thread, the application holds each connection until it has ended, connect()
waits until the last disconnect() is through and its retry timers have fired,
disconnect() is not called while an event of the connector's socket waits in the batch,
and the client is not let go of while functors of it are queued; its retry timers may
outlive it. Otherwise
(`ClientAsserts`, `DisconnectIsFinal`):

| use | what happens |
|---|---|
| `forget`: no `shared_ptr` kept | the connection is destroyed in its own handler when the peer closes, or in the wrong status after shutdown() and disconnect() |
| `lateReset`: the peer resets between poll() and the handler | onRetryInLoop destroys the socket in its handler |
| `early`: connect() soon after disconnect() | a stale retry timer makes a second connection; the end of the first then meets the assertion of removeConnectionInLoop, or, when the client is gone, the address of the client in its close callback |
| `race`: disconnect() between the end of a connection and the queued connect() | the client connects again and is destroyed connecting |
| `mixed`: calls on two threads | the store to `_connecting` and the queued functor of two calls come in different orders |
| `outlive`: the client is let go of after disconnect() in a callback, with the functor of a failed attempt still queued | onRetryInLoop is called on the destroyed connector |
| `overtake`: disconnect() in another object's callback while an event of the connector's socket waits in activeFds | the loop calls through the dead address |
| `fatal`: an errno that is not retried | the client stays "connecting" without an attempt |

After the end of a connection the client does not connect again although it queues
connect(): `_connecting` is still set, so connect() returns at once. This is why
`TriesUntilConnected` ends with the connection.

A server (`OnlyKnownCrashes`) can be stopped when no connection begins or ends and no
data is under way; its connections are closed in their callbacks, on their own loops.
Otherwise:

| use | what happens |
|---|---|
| `hurry`: stop() in the middle of it | a connection that is kConnecting is dropped in that status; the callback is cleared between its test and its call; a connection is destroyed under its handler; a UDP connection sends through the number of the closed socket |
| `overtake`: the server's loop is faster than the end of a handler | the removal queued by closeInLoop destroys the connection before the handler has returned to IOFd::handleEvent |
| `reuse`: an address comes back before its last connection is removed | the removal, by key, erases the newer connection |
| `again`: close() of a closed UdpConnection | onClosedInConnection is called once more |
| `closeUser`: close() on another thread | the end of the stream and the functor of close() both run closeInLoop, and the removal that the first one queued unbinds the callback of the second between test and call; after stop() the functor goes to a loop that is gone |
| `shutdownUser`: shutdown() on another thread | `kDisconnecting` overwrites `kDisconnected`, and the destructor asserts against it; ::shutdown() fails after a reset; after stop() as above |
| `limit`: a socket call fails | LOG_FATAL ends the program; the handling of EMFILE in TcpAcceptor is never reached |

In the logger, lines that come after the writer's last swap stay in the buffer when
stop() returns. A worker of ThreadPool ends after its first task, so tasks beyond the
number of workers stay queued (`NoLostWakeup` and `PoolProgress` say what does hold).
process() on an incomplete or empty frame deletes its HandlerData twice
(`FramesInOrder` says when); readInt and the frame header take as many bytes as the
integer has bits, on both ends of the library.

Violation runs (findings in PROJECT.json):

- `cluster_early_stop`: `EventLoopCluster::stop()` right after `start()` fails
  `assert(!_quit)` in `EventLoop::start`: the latch is counted down before the loop
  is started.
- `tcp_thread_race`: send(), close() and shutdown() are declared thread-safe. send() on
  another thread while the peer closes: the queued functor enables the write event
  of a socket without loop. A second cause of the same violation is shutdown(), whose
  `kDisconnecting` may overwrite `kDisconnected`.
- `client_peer_close`: the peer closes the connection of a client whose application
  keeps no `shared_ptr`: the socket is destroyed in its own handler, which `~IOFd`
  asserts against.

### Fairness

The loop thread is weakly fair in EventLoop, TimerQueue and
TcpConnection: the operating system runs it, poll() returns after at most 33 ms,
and callbacks are assumed to return. In TcpConnection a close() or shutdown() once
begun is finished (weak fairness of the second thread), and the peer makes room
again and again (strong fairness of a poll that reports the socket writable). In
EventLoopCluster each thread is weakly fair. In TcpClient the loop executes functors
and timers and handles events, each weakly fair; the network decides every attempt,
and if it is asked for ever it says yes at some time (strong fairness of a timer whose
connect() goes on, and of an attempt that succeeds). In MCServers the server's loop
and each loop of the cluster are weakly fair, and so is a close() or shutdown() that
has begun on another thread. The logger's writer (its wait has a time
limit), the workers that were notified, and the threads in join() are weakly fair; a
worker in wait() is not, since it need not wake up by itself. Nobody is obliged to
call, to send or to close anything.
Deadlock checking is off where the system may end: destroyed or aborted loops, a
queue whose timers are all over, a released connection, a full clock, a failed
assertion, a stopped server, parts whose inputs are used up.

## Proofs

TLAPS proves every safety invariant and action property of the passing runs, for all
values of the constants, from the assumptions the modules state; only
`OnlyKnownFaults` of TcpConnection is proved for part of them. The argument is the
same each time: an inductive invariant, one lemma per action or group of actions, and
lemmas about the operators on sequences, heaps, counts and records below them.

- EventLoop: `TypeOK`, `ExactlyOnceInOrder`, `StopDrains`, `DestructorDrains`,
  `CancelIsFinal`, and that the loop implements FunctorQueue. The inductive
  invariant `IndInv` adds `Shape` (which steps belong to which stage; a batch exists
  only while it is executed), `Marks` (functors queued before stop() are executed or
  in the batch from the next swap on; without it nothing says at "final" that the
  mark is covered) and `CallOrder` (names are submitted once, a cancellation after
  its timer; this is what keeps an addTimer out of the rest of the line when its
  cancellation is executed). Assumption: `MaxActive` is a natural number.
- TimerQueue: `TypeOK`, `HeapMatchesMap`, `NoFireAfterEnd`, `HeapOrdered`. The
  invariant adds `Lives`: a timer is created, owned or over, never two of them, and the
  timer that popTimer has in hand is owned. While heapUp or heapDown is at work the
  heap is ordered but for one place: `UpOrdered` and `DownOrdered` say so, and that the
  children of that place are not before its parent, without which a swap would repair
  one pair and break another. Lemmas say what a swap, a drop and an insertion do to the
  agreement of heap and positions, and to the order.
- IOFd: `TypeOK`, `KernelInStep`, `NoDangling`, `AssertionsHold`. The invariant adds
  `Filed`: living watchers have different
  numbers, and map and kernel file each under its own. Lemmas treat update, detach,
  construction and destruction one by one. Nothing is assumed of the moment at which
  owners destroy a watcher: for a detached one `DetachedIsIdle` leaves only
  `assert(!_handling)` to fail, and `Filed` says that `_handling` is not set during a
  close callback, which leads the failure back to a use.
- EventLoopCluster: `TypeOK`, `LoopsReady`, `LoopsTakeTurns`, `StopLeavesNothing`.
  `ClusterInv` says how far each thread can be, given how far the owner is, and that
  the latch is the number of pairs that have not reported yet; the latter is what a
  start() that returns rests on. For `LoopsTakeTurns` it says that the last loop handed
  out is the remainder of the converted counter; the remainders of neighbours are
  lemmas of their own. Assumptions: at least one pair and one functor, and a size_t
  that has at least as many values as an int.
- TcpConnection: `StreamIntegrity` and `NotificationOrder` for every use. The
  invariant adds which callbacks can be nested (`Stack`), and that the functor of
  onConnectEstablishedInLoop is all there is until it has run and never comes back
  (`Establishing`). `OnlyKnownFaults` is proved for careful uses (`CarefulUses`: send,
  close and shutdown on the loop thread, close on the other, a quiet TcpServer::stop(),
  writes that fail), with the addition that then only a reset of the peer leads to a
  fault. `Careful` says who keeps the connection alive and which functor will still close
  it, at each place where the code looks at its socket; `Shutting` follows each shutdown()
  from its call to the kernel and holds for every use, so that an abort always has the
  cause `OnlyKnownFaults` gives.
- TcpClient: `ClientAsserts` and `DisconnectIsFinal`. The invariant says which sockets
  and connections each status has (`Sockets`, `Owners`), what a call between its check
  and its functor can find (`Callers`), what the functors on their way will do to the
  connector and to `_connecting` (`Undone`, `Wishes`), what the client leaves behind
  (`Ends`), and that there is one attempt at a time but for the uses
  that are named (`OneAttempt`). Assumption: `None` is no connection.
- MCServers, that is Server with TcpServer and UdpServer: `NoOrphan`,
  `StopIsComplete`, `UdpOutputLeaves`, `OnlyKnownCrashes`. `IndInv` follows each
  connection between the table, the functors of two kinds of loops and closeInLoop: what
  is in the table or on its way (`Tables`, `Listed`, `Tracked`), what comes before what
  on a line (`Order`, `Unique`) and what stop() has cleared (`Cleared`). For the crashes
  a second invariant, `Causes`, is needed on top of it: as long as no use has occurred
  that drops or overtakes something, each status has its place (`Statuses`, `Places`),
  what begins is not disturbed (`Beginnings`), what is unbound is empty (`Emptied`) and
  what is closed is closed once and handled to the end (`ClosedOnce`, `Handled`); a call
  on another thread, and each functor of shutdown(), comes from the use that allows it
  (`Callers`). From this each crash is led back to one of the uses. Assumptions: `None` is no
  connection, `Uses` are uses, and the addresses are finitely many.
- The parts of MCParts, each under its own specification. ThreadPool: `NoLostWakeup`,
  by counting the workers that are awake and those that have had no task. Buffer:
  `IndexOrder` and `BufferIsQueue`, from lemmas that every method of the vector
  appends to the content, takes from its front, or leaves it alone. AsyncLogger:
  `LogInOrder`; the invariant says which of the writer's buffers are empty when
  (`WriterInv`: a buffer not reset would be written a second time). Pipeline:
  `FramesInOrder`; the invariant says that the content and the stream are the frames
  not yet handled, one after the other. The powers of the base and the reading of a
  number that was written with them are assumed (`PowerAssumption`,
  `PositionAssumption`): they are plain arithmetic, but an induction over the digits is
  out of the prover's reach, so TLC evaluates them for the instance.
  `PayloadAssumption` says that a payload's length is an int32_t.

Type correctness is proved where a module has a `TypeOK`, and not repeated in the runs.

Only model-checked: all liveness (the properties that end a row of the table of runs),
which needs fairness and ENABLED and is out of the prover's reach. The three violation
runs are counterexamples and have nothing to prove.

## Not modelled

Address formatting and socket options are plain I/O, a log line's text
is abstracted to its size, ProtobufHandler is empty, ObjectBinder a typed holder that
nothing uses. `ikcp` is vendored and unused, the examples only use the library.
`wakeup()` is never called. The data race on `_quit` is
reduced to the one store that matters. The system clock only advances in
TimerQueue, while `time::timestamp()` may jump. SIGPIPE is assumed to be ignored by
the application. The callbacks of a connection are set before it is established.
In Server the streams of TCP connections are left out (TcpConnection has them), the
loops of the cluster are taken to have entered loop() before stop() (a stop() that is
faster is `cluster_early_stop`), and sendto() takes a datagram whole or fails. A thread
has one EventLoop: a second one's constructor ends the program. EventLoop::addTimer reads the number of a
timer that its loop may have fired and destroyed already; Timer objects
have no life of their own in EventLoop. TimerQueue has a cancellation inside the
timer's own callback, but not that the Timer is destroyed under it.

## Plan

Done: every component of the library that has state is modelled, and every safety
property the runs check is proved. Left, in this order:

- The hazards without a property (each has a note in PROJECT.json). The first to add is a FIN that shutdown() owes: it
  needs a property of TcpConnection that tells a connection whose output is written
  from one whose output still waits.
- The proof of `OnlyKnownFaults` of TcpConnection for the other uses, by strengthening
  `Careful` one use at a time, and the invariants of PartsProofs shared with
  TcpConnection's input buffer, which is a flag there.
- Address formatting and socket options (Socket, InetAddress), which are plain
  calls to the kernel.
