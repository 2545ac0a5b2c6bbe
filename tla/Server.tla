-------------------------------- MODULE Server --------------------------------
(***************************************************************************)
(* What TcpServer and UdpServer have in common (src/src/net/Server.cpp):   *)
(* a table of connections kept by the server's loop, connections that live *)
(* on the loops of the cluster, the functors that go between the loops,    *)
(* the end of a connection in several steps on its own loop, and stop().   *)
(*                                                                         *)
(* A loop is the line of its functors, which it executes in order (see     *)
(* EventLoop); the loop thread of the server is called the main thread.    *)
(* Connections and their descriptors are objects used once.  There is no   *)
(* destructor action: a connection is Dead as soon as no shared_ptr to it  *)
(* is left.                                                                *)
(***************************************************************************)
EXTENDS Naturals, Sequences, SequencesExt, FiniteSets

CONSTANTS Conn,     \* connection objects
          Key,      \* peer addresses, Connection::_index
          Worker,   \* loops of the cluster
          None,
          Uses      \* what may happen that the code does not expect

Use == {"hurry",    \* stop() while connections begin or end, or data is under way
        "reuse",    \* an address comes back before its last connection is removed
        "again",    \* close() of a connection that has been closed
        "overtake", \* a connection is removed while the handler in which it ended
                    \*   has not returned
        "closeUser", "shutdownUser",
                    \* the application calls close(), shutdown() on another thread
        "limit"}    \* socket(), bind(), listen() or accept() fails

ASSUME ServerAssumption == Uses \subseteq Use /\ None \notin Conn

VARIABLES
    proto,      \* which server: "tcp" or "udp"
    uses,       \* what happens in this behaviour, at most one of Uses
    call,       \* the call an application's thread is in, for each connection: "close"
                \* or "shutdown" past its check of the status, "closing" or
                \* "shutting" past its change; it holds a shared_ptr
    run,        \* the main thread: "new", "running", "stopping", "joining", "stopped"
    todo,       \* of stop(): connections it has not come to
    current,    \* of stop(): the one whose callbacks it has unbound, or None
    table,      \* _connections
    conns,      \* [status, key, loop] of every connection; status is "none" before
                \* it exists, and for UDP isConnected() is status = "kConnected"
    bound,      \* connections with a _closeCallback (and, for UDP, a _senderFd)
    mainq,      \* functors of the server's loop: the connections to be removed
    wq,         \* functors of each loop of the cluster, [op, conn]
    closing,    \* where each loop is in closeInLoop: [conn, step, pinned], or None;
                \* pinned: in a functor that holds a shared_ptr
    ups, downs, \* history: connections that were notified of their beginning, end
    crash       \* what ended the program, or "none"

servervars == <<proto, uses, call, run, todo, current, table, conns, bound, mainq, wq, closing,
                ups, downs, crash>>
mainvars == <<run, todo, current>>

\* The others make no difference to this server.
UsesOf(p) ==
    Uses \ (IF p = "tcp" THEN {"again"} ELSE {"overtake", "shutdownUser"})

ServerInit(p) ==
    /\ proto = p
    /\ uses \in {U \in SUBSET UsesOf(p) : Cardinality(U) <= 1}
    /\ call = [x \in Conn |-> "none"]
    /\ run = "new" /\ todo = {} /\ current = None
    /\ table = [k \in Key |-> None]
    /\ conns = [x \in Conn |-> [status |-> "none", key |-> None, loop |-> None]]
    /\ bound = {} /\ mainq = <<>>
    /\ wq = [w \in Worker |-> <<>>] /\ closing = [w \in Worker |-> None]
    /\ ups = {} /\ downs = {} /\ crash = "none"

Held == {table[k] : k \in Key} \ {None}

\* Functors, what a loop does and a call under way keep a connection alive.
Owned(x) ==
    \/ call[x] # "none"
    \/ x \in Held \/ x \in todo \/ Contains(mainq, x)
    \/ \E w \in Worker : \/ \E i \in DOMAIN wq[w] : wq[w][i].conn = x
                         \/ closing[w] # None /\ closing[w].pinned /\ closing[w].conn = x

Dead(x) == conns[x].status # "none" /\ ~Owned(x)

\* ~TcpConnection: assert(_status == kDisconnected).
BadDeath(x) == proto = "tcp" /\ Dead(x) /\ conns[x].status # "kDisconnected"

Ok == crash = "none" /\ \A x \in Conn : ~BadDeath(x)

Post(w, op, x) == wq' = [wq EXCEPT ![w] = Append(@, [op |-> op, conn |-> x])]

\* No loop is in a handler of the connection, where nothing holds it.
Left(x) == \A w \in Worker : closing[w] # None /\ ~closing[w].pinned => closing[w].conn # x

\* The loop is about to execute a functor of this kind.
Due(w, op) == wq[w] # <<>> /\ Head(wq[w]).op = op /\ closing[w] = None

Hurried == "hurry" \in uses

-----------------------------------------------------------------------------
(* Main thread *)

\* start(): the cluster is started and the acceptor listens.
ServerStart ==
    /\ Ok /\ run = "new"
    /\ run' = "running"
    /\ UNCHANGED <<proto, uses, call, todo, current, table, conns, bound, mainq, wq, closing,
                   ups, downs, crash>>

\* The failures of Socket::create, bind and listen are logged at level FATAL.
StartFails ==
    /\ Ok /\ run = "new" /\ "limit" \in uses
    /\ crash' = "abort"
    /\ UNCHANGED <<proto, uses, call, mainvars, table, conns, bound, mainq, wq, closing, ups, downs>>

\* No connection of the address is left.
Fresh(k) == \A x \in Conn : conns[x].key = k => Dead(x)

\* A connection is made, put into the table and told to its loop
\* (notifyConnectionEstablished).
NewConnection(x, k, w, then) ==
    /\ conns[x].status = "none"
    /\ Fresh(k) \/ "reuse" \in uses
    /\ conns' = [conns EXCEPT ![x] = [status |-> "kConnecting", key |-> k, loop |-> w]]
    /\ table' = [table EXCEPT ![k] = x]
    /\ bound' = bound \cup {x}
    /\ wq' = [wq EXCEPT ![w] = @ \o <<[op |-> "establish", conn |-> x]>> \o then]

RemoveConnectionKeepsEntry ==
    /\ Ok /\ run \in {"running", "stopped"} /\ mainq # <<>>
    /\ bound' = bound \ {Head(mainq)}
    /\ mainq' = Tail(mainq)
    /\ UNCHANGED <<proto, uses, call, mainvars, table, conns, wq, closing, ups, downs, crash>>

\* removeConnectionInLoop erases whatever the table has under the key.
RemoveConnection ==
    /\ Ok /\ run \in {"running", "stopped"} /\ mainq # <<>>
    /\ ~Left(Head(mainq)) => "overtake" \in uses
    /\ LET x == Head(mainq)
       IN  /\ bound' = bound \ {x}
           /\ table' = [table EXCEPT ![conns[x].key] = None]
    /\ mainq' = Tail(mainq)
    /\ UNCHANGED <<proto, uses, call, mainvars, conns, wq, closing, ups, downs, crash>>

\* Nothing begins or ends.
Calm ==
    /\ \A x \in Conn : conns[x].status \in {"kConnecting", "kDisconnecting"} => Dead(x)
    /\ mainq = <<>>
    /\ \A w \in Worker : wq[w] = <<>> /\ closing[w] = None

\* stop(): the acceptor is closed, then each connection is unbound ...
StopBegins ==
    /\ Ok /\ run = "running" /\ (Calm \/ Hurried)
    /\ run' = "stopping" /\ todo' = Held
    /\ UNCHANGED <<proto, uses, call, current, table, conns, bound, mainq, wq, closing, ups,
                   downs, crash>>

StopUnbinds(x) ==
    /\ Ok /\ run = "stopping" /\ current = None /\ x \in todo
    /\ bound' = bound \ {x}
    /\ current' = x
    /\ UNCHANGED <<proto, uses, call, run, todo, table, conns, mainq, wq, closing, ups, downs,
                   crash>>

StopCloseForgets ==
    /\ Ok /\ run = "stopping" /\ current # None
    /\ IF conns[current].status = "kConnected" /\ proto = "tcp"
       THEN /\ conns' = [conns EXCEPT ![current].status = "kDisconnecting"]
            /\ Post(conns[current].loop, "close", current)
       ELSE UNCHANGED <<conns, wq>>
    /\ todo' = todo \ {current} /\ current' = None
    /\ UNCHANGED <<proto, uses, call, run, table, bound, mainq, closing, ups, downs, crash>>

\* ... and closed: a TcpConnection only if it is kConnected.
StopCloses ==
    /\ Ok /\ run = "stopping" /\ current # None
    /\ IF proto = "udp" \/ conns[current].status = "kConnected"
       THEN /\ conns' = [conns EXCEPT ![current].status =
                            IF proto = "udp" THEN "kDisconnected" ELSE "kDisconnecting"]
            /\ Post(conns[current].loop, "close", current)
       ELSE UNCHANGED <<conns, wq>>
    /\ todo' = todo \ {current} /\ current' = None
    /\ UNCHANGED <<proto, uses, call, run, table, bound, mainq, closing, ups, downs, crash>>

\* The table is cleared and the loops of the cluster are told to quit ...
StopClears ==
    /\ Ok /\ run = "stopping" /\ todo = {}
    /\ table' = [k \in Key |-> None]
    /\ run' = "joining"
    /\ UNCHANGED <<proto, uses, call, todo, current, conns, bound, mainq, wq, closing, ups, downs,
                   crash>>

\* ... which they do when they have executed their functors.  Every loop is taken to
\* have entered loop() by now: a stop() right after start() may meet one that has
\* not, which EventLoopCluster shows.
StopJoins ==
    /\ Ok /\ run = "joining"
    /\ \A w \in Worker : wq[w] = <<>> /\ closing[w] = None
    /\ run' = "stopped"
    /\ UNCHANGED <<proto, uses, call, todo, current, table, conns, bound, mainq, wq, closing, ups,
                   downs, crash>>

-----------------------------------------------------------------------------
(* The loop of a connection *)

\* onConnectEstablishedInLoop
Establish(w) ==
    /\ Ok /\ Due(w, "establish")
    /\ LET x == Head(wq[w]).conn
       IN  /\ conns' = [conns EXCEPT ![x].status = "kConnected"]
           /\ ups' = ups \cup {x}
    /\ wq' = [wq EXCEPT ![w] = Tail(@)]
    /\ UNCHANGED <<proto, uses, call, mainvars, table, bound, mainq, closing, downs, crash>>

\* closeInLoop up to the test of _closeCallback.
CloseInLoop(w, x, pinned) ==
    /\ conns' = [conns EXCEPT ![x].status = "kDisconnected"]
    /\ downs' = downs \cup {x}
    /\ closing' = [closing EXCEPT ![w] = [conn |-> x, step |-> "test", pinned |-> pinned]]

RunCloseUnpinned(w) ==
    /\ Ok /\ Due(w, "close")
    /\ CloseInLoop(w, Head(wq[w]).conn, FALSE)
    /\ wq' = [wq EXCEPT ![w] = Tail(@)]
    /\ UNCHANGED <<proto, uses, call, mainvars, table, bound, mainq, ups, crash>>

\* The functor of close() holds a shared_ptr.
RunClose(w) ==
    /\ Ok /\ Due(w, "close")
    /\ CloseInLoop(w, Head(wq[w]).conn, TRUE)
    /\ wq' = [wq EXCEPT ![w] = Tail(@)]
    /\ UNCHANGED <<proto, uses, call, mainvars, table, bound, mainq, ups, crash>>

\* The end of closeInLoop: of a functor, or on to the handler it was called in.
Returning(at) == IF at.pinned THEN None ELSE [at EXCEPT !.step = "return"]

TestCallback(w) ==
    /\ Ok /\ closing[w] # None /\ closing[w].step = "test"
    /\ closing' = [closing EXCEPT ![w] =
                     IF @.conn \in bound THEN [@ EXCEPT !.step = "call"] ELSE Returning(@)]
    /\ crash' = IF Dead(closing[w].conn) THEN "dead" ELSE "none"
    /\ UNCHANGED <<proto, uses, call, mainvars, table, conns, bound, mainq, wq, ups, downs>>

\* onClosedInConnection queues the removal; the callback may have been unbound
\* since it was tested.
CallCallback(w) ==
    /\ Ok /\ closing[w] # None /\ closing[w].step = "call"
    /\ LET x == closing[w].conn
       IN  /\ crash' = CASE Dead(x) -> "dead"
                         [] ~Dead(x) /\ x \notin bound -> "bad_function_call"
                         [] OTHER -> "none"
           /\ mainq' = IF x \in bound THEN Append(mainq, x) ELSE mainq
    /\ closing' = [closing EXCEPT ![w] = Returning(@)]
    /\ UNCHANGED <<proto, uses, call, mainvars, table, conns, bound, wq, ups, downs>>

\* IOFd::handleEvent resets _handling when the handler is back; ~IOFd asserts that
\* it has.  Nothing holds the connection here.
HandlerReturns(w) ==
    /\ Ok /\ closing[w] # None /\ closing[w].step = "return"
    /\ crash' = IF Dead(closing[w].conn) THEN "dead" ELSE "none"
    /\ closing' = [closing EXCEPT ![w] = None]
    /\ UNCHANGED <<proto, uses, call, mainvars, table, conns, bound, mainq, wq, ups, downs>>

\* The functor of shutdown().  ::shutdown() fails with ENOTCONN when the connection
\* has been reset, and Socket::shutdown answers with LOG_FATAL; when output is
\* waiting nothing is done.
RunShutdown(w) ==
    /\ Ok /\ Due(w, "shutdown")
    /\ crash' \in {"none", "abort"}
    /\ wq' = [wq EXCEPT ![w] = Tail(@)]
    /\ UNCHANGED <<proto, uses, call, mainvars, table, conns, bound, mainq, closing, ups, downs>>

-----------------------------------------------------------------------------
(* A thread of the application, which was handed the connection *)

\* close() and shutdown() check the status (UdpConnection::close does not: there it is
\* the application that looks) ...
AppChecks(x, which) ==
    /\ Ok /\ (IF which = "close" THEN "closeUser" ELSE "shutdownUser") \in uses
    /\ call[x] = "none" /\ conns[x].status = "kConnected" /\ Owned(x)
    /\ which = "shutdown" => proto = "tcp"
    /\ call' = [call EXCEPT ![x] = which]
    /\ UNCHANGED <<proto, uses, mainvars, table, conns, bound, mainq, wq, closing, ups, downs,
                   crash>>

\* ... change it, whatever it has become meanwhile ...
AppChanges(x) ==
    /\ Ok /\ call[x] \in {"close", "shutdown"}
    /\ conns' = [conns EXCEPT ![x].status =
                    IF proto = "udp" THEN "kDisconnected" ELSE "kDisconnecting"]
    /\ call' = [call EXCEPT ![x] = IF @ = "close" THEN "closing" ELSE "shutting"]
    /\ UNCHANGED <<proto, uses, mainvars, table, bound, mainq, wq, closing, ups, downs, crash>>

\* ... and queue the rest on the connection's loop,
AppQueues(x) ==
    /\ Ok /\ call[x] \in {"closing", "shutting"} /\ run # "stopped"
    /\ Post(conns[x].loop, IF call[x] = "closing" THEN "close" ELSE "shutdown", x)
    /\ call' = [call EXCEPT ![x] = "none"]
    /\ UNCHANGED <<proto, uses, mainvars, table, conns, bound, mainq, closing, ups, downs,
                   crash>>

\* which is gone as soon as stop() has let it quit.
AppQueuesLate(x) ==
    /\ Ok /\ call[x] \in {"closing", "shutting"}
    /\ LET w == conns[x].loop
       IN  run = "stopped" \/ (run = "joining" /\ wq[w] = <<>> /\ closing[w] = None)
    /\ crash' = "loop"
    /\ UNCHANGED <<proto, uses, call, mainvars, table, conns, bound, mainq, wq, closing, ups, downs>>

-----------------------------------------------------------------------------

\* A call that has begun is finished.
ServerApp(x) == AppChanges(x) \/ AppQueues(x) \/ AppQueuesLate(x)

ServerMain ==
    \/ RemoveConnection \/ StopCloses \/ StopClears \/ StopJoins
    \/ \E x \in Conn : StopUnbinds(x)

ServerWorker(w) ==
    \/ Establish(w) \/ RunClose(w) \/ RunShutdown(w)
    \/ TestCallback(w) \/ CallCallback(w) \/ HandlerReturns(w)

ServerNext ==
    \/ ServerStart \/ StartFails \/ StopBegins
    \/ RemoveConnection \/ StopCloses \/ StopClears \/ StopJoins
    \/ \E x \in Conn : StopUnbinds(x)
    \/ \E x \in Conn, which \in {"close", "shutdown"} : AppChecks(x, which)
    \/ \E x \in Conn : AppChanges(x) \/ AppQueues(x) \/ AppQueuesLate(x)
    \/ \E w \in Worker : \/ Establish(w) \/ RunClose(w) \/ RunShutdown(w)
                         \/ TestCallback(w) \/ CallCallback(w) \/ HandlerReturns(w)

-----------------------------------------------------------------------------
(* Properties *)

\* The program ends only for a reason the code does not provide for: stop()
\* while connections begin or end (a TcpConnection that is kConnecting is dropped
\* by close(), one that is being closed loses its callback between the test and
\* the call, or its last owner), an address that comes back early, close() of a
\* UdpConnection that is closed, a removal that overtakes the handler it was queued
\* by, a call of the system failing, or close() and shutdown() on another thread:
\* the end of the stream and the functor of close() run closeInLoop twice, and the
\* removal the first one queued unbinds the callback of the second; shutdown()
\* overwrites kDisconnected, fails after a reset, or posts to a loop that stop()
\* has ended (TcpServer::stop, Server::unbindDefaultCallbacks, TcpConnection::close
\* and shutdown, UdpConnection::close, IOFd::handleEvent, Socket::accept).
OnlyKnownCrashes ==
    /\ crash = "descriptor" => uses = {"hurry"}
    /\ crash = "loop" => uses \subseteq {"closeUser", "shutdownUser"}
    /\ crash = "abort" => uses \subseteq {"limit", "shutdownUser"}
    /\ crash = "bad_function_call" => uses \subseteq {"hurry", "again", "closeUser"}
    /\ (crash = "dead" \/ \E x \in Conn : BadDeath(x))
          => uses \subseteq {"hurry", "reuse", "overtake", "shutdownUser"}
    /\ ~Ok => uses # {}

\* While the server runs, the table has every connection whose beginning the
\* application was told of and whose end it was not, as long as no address comes
\* back before its last connection is removed (removeConnectionInLoop erases by
\* key, and the removal comes from another loop).
NoOrphan ==
    (run = "running" /\ "reuse" \notin uses)
       => \A x \in Conn : conns[x].status = "kConnected" => table[conns[x].key] = x

\* When stop() is through, no connection is left, and each connection that was
\* announced was also taken back (stop() in TcpServer and UdpServer, with the loops
\* of the cluster executing what was queued before); a connection that a thread of
\* the application is just closing is that thread's.
StopIsComplete ==
    (run = "stopped" /\ mainq = <<>> /\ Ok /\ "reuse" \notin uses)
       => \A x \in Conn : conns[x].status # "none" /\ call[x] = "none"
             => Dead(x) /\ (x \in ups => x \in downs)

\* Connections that have ended and are not released yet.
Ending == {x \in Conn : conns[x].status = "kDisconnected" /\ ~Dead(x)}

\* When connections have ended, or stop() is under way, there comes a time when all
\* of them are released and stop() has returned (removeConnectionInLoop, stop() of
\* TcpServer and UdpServer).
ServerReleases ==
    (Ending # {} \/ run = "stopping") ~> ((Ending = {} /\ run # "stopping") \/ ~Ok)
=============================================================================
