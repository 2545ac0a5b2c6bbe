------------------------------- MODULE TcpClient -------------------------------
(***************************************************************************)
(* TcpClient with its TcpConnector (src/src/net/tcp/TcpClient.cpp,         *)
(* TcpConnector.cpp, Client.cpp): connecting without blocking, retrying    *)
(* after a delay, handing the socket to a TcpConnection and letting go of  *)
(* it.  Everything happens on the client's loop but the calls that the     *)
(* application may make on another thread, which queue a functor.          *)
(*                                                                         *)
(* The handlers call each other, so each is an operator on the record of   *)
(* the client's state, and an action is a call of the application, an      *)
(* event of a socket, a functor or a timer.  Of a TcpConnection only its   *)
(* status and its owners are kept.  A failed assertion ends the program.   *)
(***************************************************************************)
EXTENDS Naturals, Sequences, SequencesExt, FiniteSets

CONSTANTS Conn,         \* TcpConnection objects, reused once they are destroyed
          None,
          Uses,         \* what the application may do and what may happen to it
          MaxConnects,  \* bound: calls of connect() that go on
          MaxQueue      \* bound: functors queued by the other thread

Use == {"mixed",        \* connect() and disconnect() on the loop thread and on
                        \*   another thread; without it all calls come from one
        "early",        \* connect() before the last disconnect() is through and
                        \*   its retry timers have fired
        "race",         \* disconnect() between the end of a connection and the
                        \*   functor that is to connect again
        "forget",       \* a shared_ptr to the connection is not kept until the
                        \*   connection has ended
        "outlive",      \* the client is let go of while functors of it are queued
        "overtake",     \* disconnect() in the callback of another descriptor while the
                        \*   connector's own one waits in the same batch of poll()
        "lateReset",    \* the peer resets between poll() and the handler
        "fatal"}        \* connect() fails with an errno that is not retried

ASSUME ClientAssumption ==
    Uses \subseteq Use /\ None \notin Conn /\ MaxConnects \in Nat /\ MaxQueue \in Nat

VARIABLES
    c,          \* the client and the connector, see Client
    uses,       \* the uses of this behaviour, at most one
    threads,    \* where the application makes its calls: "loop", "user"
    user,       \* where the other thread is: "idle", or what it does next
    wanted,     \* history: the application's last call, "connect" or "disconnect", or
                \* "ended": since then the connection came to its end
    connects,   \* number of connect() calls that went on
    faulty      \* the assertion that failed, "dangling" or "danglingFd" after the use
                \* of a destroyed client or descriptor, or "none"

clientvars == <<c, uses, threads, user, wanted, connects, faulty>>

Client ==
    [connecting : BOOLEAN,      \* Client::_connecting
     delay      : BOOLEAN,      \* _reconnectDelay > 0
     stopping   : BOOLEAN,      \* TcpConnector::_stopping
     status     : {"kDisconnected", "kConnecting", "kConnected"},
     socket     : {"none", "pending", "up", "polled", "reset", "dead"},
                                \* TcpConnector::_socket: connecting, connected,
                                \* reported writable, reset after that, failed
     timers     : Nat,          \* timers of onRetryInLoop
     connection : Conn \cup {None},     \* TcpClient::_connection
     conns      : [Conn -> {"none", "kConnected", "kDisconnecting", "kDisconnected"}],
     bound      : SUBSET Conn,  \* those with a _closeCallback
     kept       : SUBSET Conn,  \* those the application has a shared_ptr to
     queue      : Seq({"connect", "disconnect", "retry", "reconnect"}),
     alive      : BOOLEAN]      \* the TcpClient exists

ClientInit ==
    /\ c \in [connecting : {FALSE}, delay : BOOLEAN, stopping : {TRUE},
              status : {"kDisconnected"}, socket : {"none"}, timers : {0},
              connection : {None}, conns : {[x \in Conn |-> "none"]},
              bound : {{}}, kept : {{}}, queue : {<<>>}, alive : {TRUE}]
    /\ uses \in {U \in SUBSET Uses : Cardinality(U) <= 1}
    /\ threads \in IF "mixed" \in uses THEN {{"loop", "user"}} ELSE {{"loop"}, {"user"}}
    /\ user = "idle" /\ wanted = "disconnect" /\ connects = 0 /\ faulty = "none"

Sound == faulty = "none"
Running == Sound /\ c.alive

\* The connector's socket is among the descriptors that poll() returned and that
\* start() has still to handle.  Functors and timers come after them.
Polled == c.socket \in {"polled", "reset"}

-----------------------------------------------------------------------------
(* TcpConnector *)

ResetSocket(s) == [s EXCEPT !.socket = "none"]

OnRetryOnce(s) == [ResetSocket(s) EXCEPT !.status = "kDisconnected"]

\* onRetryInLoop does not look at _stopping.
OnRetry(s) ==
    [ResetSocket(s) EXCEPT !.status = "kDisconnected",
                           !.timers = IF s.delay THEN @ + 1 ELSE @]

\* What connect(2) may say: go on, try again, never.
Answer == {"progress", "retry"} \cup ({"fatal"} \cap uses)

ConnectAlways(s, answer) ==
    CASE answer = "progress" -> [s EXCEPT !.socket = "pending", !.status = "kConnecting"]
      [] answer = "retry" -> OnRetry(s)
      [] OTHER -> ResetSocket(s)

\* connectInLoop.  After an errno that is not retried the status stays.
ConnectInLoop(s, answer) ==
    CASE s.stopping -> s
      [] ~s.stopping /\ answer = "progress" ->
            [s EXCEPT !.socket = "pending", !.status = "kConnecting"]
      [] ~s.stopping /\ answer = "retry" -> OnRetry(s)
      [] OTHER -> ResetSocket(s)

DisconnectInLoop(s) ==
    [ResetSocket(s) EXCEPT !.stopping = TRUE, !.status = "kDisconnected"]

\* The assertion that fails in ~TcpConnector.
ConnectorVerdict(s) ==
    CASE ~s.stopping -> "!!_stopping"
      [] s.stopping /\ s.socket # "none" -> "!_socket"
      [] OTHER -> "none"

-----------------------------------------------------------------------------
(* TcpConnection, as far as the client sees it *)

Owned(s, x) == x = s.connection \/ x \in s.kept

\* A shared_ptr to x is gone: the object goes with the last one.
Release(s, x) == IF x = None \/ Owned(s, x) THEN s ELSE [s EXCEPT !.conns[x] = "none"]

\* The assertion that fails in ~TcpConnection or ~IOFd if x goes now, in a
\* handler of its socket or not.
Verdict(s, x, handling) ==
    CASE x = None \/ Owned(s, x) -> "none"
      [] ~(x = None \/ Owned(s, x)) /\ s.conns[x] # "kDisconnected" -> "_status == kDisconnected"
      [] OTHER -> IF handling THEN "!_handling" ELSE "none"

\* close() and closeInLoop: the status changes if it was kConnected.
CloseConnection(s, x) ==
    [s EXCEPT !.conns[x] = IF @ = "kConnected" THEN "kDisconnected" ELSE @]

-----------------------------------------------------------------------------
(* Client *)

\* notifyConnectionEstablished, which binds the callbacks first.
Establish(s, x) == [s EXCEPT !.bound = @ \cup {x}, !.conns[x] = "kConnected"]

Unbind(s, x) == [s EXCEPT !.bound = @ \ {x}]

-----------------------------------------------------------------------------
(* TcpClient *)

\* The lambda of connect().
DoConnect(s, answer) == ConnectInLoop([s EXCEPT !.stopping = FALSE], answer)

LetGoBound(s) ==
    LET d == DisconnectInLoop(s)
        x == d.connection
    IN  IF x = None THEN d ELSE [CloseConnection(d, x) EXCEPT !.connection = None]

\* The lambda of disconnect() up to _connection.reset() ...
LetGo(s) ==
    LET d == DisconnectInLoop(s)
        x == d.connection
    IN  IF x = None THEN d
        ELSE [CloseConnection(Unbind(d, x), x) EXCEPT !.connection = None]

\* ... and the whole of it.
DoDisconnect(s) == Release(LetGo(s), s.connection)

\* newConnectionInLoop, called by TcpConnector::handleWriteInLoop, with the
\* connect change callback in which the application may keep the connection.
TakeSocket(s, x, keep) ==
    [Establish(s, x) EXCEPT !.socket = "none", !.status = "kConnected", !.connection = x,
                            !.kept = IF keep THEN @ \cup {x} ELSE @]

\* onClosedInConnection and removeConnectionInLoop.
Removed(s, x) ==
    [Unbind(s, x) EXCEPT !.connection = None,
                         !.queue = IF s.connecting /\ s.delay THEN Append(@, "reconnect") ELSE @]

-----------------------------------------------------------------------------
(* Calls on the loop thread *)

\* Nothing of an earlier connect() is left.
Quiet == c.stopping /\ c.timers = 0 /\ c.queue = <<>>

\* Bound: calls and objects.
MayConnect ==
    /\ connects < MaxConnects /\ \E x \in Conn : c.conns[x] = "none"
    /\ Quiet \/ "early" \in uses

MayDisconnect == Contains(c.queue, "reconnect") => "race" \in uses

\* Both calls give up the connector's socket, of which start() keeps the address.
MayOvertake == Polled => uses \cap {"overtake", "mixed"} # {}
Overtakes == IF Polled THEN "danglingFd" ELSE "none"

LoopConnect(answer) ==
    /\ Running /\ "loop" \in threads /\ MayConnect /\ MayOvertake /\ ~c.connecting
    /\ c' = DoConnect([c EXCEPT !.connecting = TRUE], answer)
    /\ faulty' = Overtakes
    /\ wanted' = "connect" /\ connects' = connects + 1
    /\ UNCHANGED <<uses, threads, user>>

\* Anywhere, or in a callback of the connection.
LoopDisconnect(handling) ==
    /\ Running /\ "loop" \in threads /\ MayDisconnect /\ MayOvertake
    /\ handling => c.connection # None
    /\ LET s == LetGo([c EXCEPT !.connecting = FALSE])
           v == Verdict(s, c.connection, handling)
       IN  /\ c' = Release(s, c.connection)
           /\ faulty' = IF v # "none" THEN v ELSE Overtakes
    /\ wanted' = "disconnect"
    /\ UNCHANGED <<uses, threads, user, connects>>

\* shutdown() of the connection.
Shutdown ==
    /\ Running /\ c.connection # None /\ c.conns[c.connection] = "kConnected"
    /\ c' = [c EXCEPT !.conns[c.connection] = "kDisconnecting"]
    /\ UNCHANGED <<uses, threads, user, wanted, connects, faulty>>

\* The application drops its shared_ptr.
Drop(x) ==
    /\ Sound /\ x \in c.kept
    /\ c.conns[x] = "kDisconnected" \/ "forget" \in uses
    /\ LET s == [c EXCEPT !.kept = @ \ {x}]
       IN  c' = Release(s, x) /\ faulty' = Verdict(s, x, FALSE)
    /\ UNCHANGED <<uses, threads, user, wanted, connects>>

\* The last shared_ptr to the client: ~TcpClient, and ~TcpConnector unless a timer
\* still has a shared_ptr to the connector.  The functors of disconnect() and of the
\* end of a connection have one to the client, those of connect() and of the end of
\* an attempt have only the address of the client or the connector.
\* So has the close callback of a connection that the application keeps.
DestroyClient ==
    /\ Running /\ wanted = "disconnect" /\ user = "idle"
    /\ ~Contains(c.queue, "disconnect") /\ ~Contains(c.queue, "reconnect")
    /\ c.queue # <<>> => "loop" \in threads /\ uses \cap {"outlive", "mixed"} # {}
    /\ c' = [c EXCEPT !.alive = FALSE]
    /\ faulty' = CASE c.connecting -> "!_connecting"
                   [] ~c.connecting /\ c.timers = 0 -> ConnectorVerdict(c)
                   [] OTHER -> "none"
    /\ UNCHANGED <<uses, threads, user, wanted, connects>>

-----------------------------------------------------------------------------
(* Calls on another thread *)

UserCalls(call) ==
    /\ Running /\ "user" \in threads /\ user = "idle" /\ Len(c.queue) < MaxQueue
    /\ call = "connect" => MayConnect /\ ~c.connecting
    /\ user' = call
    /\ UNCHANGED <<c, uses, threads, wanted, connects, faulty>>

UserStores ==
    /\ Running /\ user \in {"connect", "disconnect"}
    /\ user = "disconnect" => MayDisconnect
    /\ wanted' = user
    /\ c' = [c EXCEPT !.connecting = user = "connect"]
    /\ connects' = IF user = "connect" THEN connects + 1 ELSE connects
    /\ user' = IF user = "connect" THEN "queueConnect" ELSE "queueDisconnect"
    /\ UNCHANGED <<uses, threads, faulty>>

UserQueues ==
    /\ Running /\ user \in {"queueConnect", "queueDisconnect"}
    /\ c' = [c EXCEPT !.queue = Append(@, IF user = "queueConnect" THEN "connect"
                                          ELSE "disconnect")]
    /\ user' = "idle"
    /\ UNCHANGED <<uses, threads, wanted, connects, faulty>>

-----------------------------------------------------------------------------
(* The loop: functors and timers *)

\* A functor that is left when the client is gone uses it, or its connector.
Execute(answer) ==
    /\ Sound /\ ~Polled /\ c.queue # <<>>
    /\ LET s == [c EXCEPT !.queue = Tail(@)]
           f == Head(c.queue)
       IN  /\ c' = CASE f = "connect" -> DoConnect(s, answer)
                     [] f = "disconnect" -> DoDisconnect(s)
                     [] f = "retry" -> OnRetry(s)
                     [] f = "reconnect" ->
                          IF s.connecting THEN s
                          ELSE DoConnect([s EXCEPT !.connecting = TRUE], answer)
           /\ faulty' = CASE ~c.alive -> "dangling"
                          [] c.alive /\ f = "disconnect" ->
                               Verdict(LetGo(s), s.connection, FALSE)
                          [] OTHER -> "none"
    /\ UNCHANGED <<uses, threads, user, wanted, connects>>

\* The timer owns the connector, which has the address of the client (_master).
TimerFires(answer) ==
    /\ Sound /\ ~Polled /\ c.timers > 0
    /\ c' = ConnectInLoop([c EXCEPT !.timers = @ - 1], answer)
    /\ faulty' = CASE ~c.alive /\ ~c.stopping /\ answer = "retry" -> "dangling"
                   [] ~c.alive /\ c'.timers = 0 -> ConnectorVerdict(c')
                   [] OTHER -> "none"
    /\ UNCHANGED <<uses, threads, user, wanted, connects>>

-----------------------------------------------------------------------------
(* The loop: events of the connector's socket *)

\* Network.
ConnectEnds(outcome) ==
    /\ Sound /\ c.socket = "pending"
    /\ c' = [c EXCEPT !.socket = outcome]
    /\ UNCHANGED <<uses, threads, user, wanted, connects, faulty>>

PollWritable ==
    /\ Sound /\ c.socket = "up" /\ c.status = "kConnecting"
    /\ c' = [c EXCEPT !.socket = "polled"]
    /\ UNCHANGED <<uses, threads, user, wanted, connects, faulty>>

PeerResets ==
    /\ Sound /\ "lateReset" \in uses /\ c.socket = "polled"
    /\ c' = [c EXCEPT !.socket = "reset"]
    /\ UNCHANGED <<uses, threads, user, wanted, connects, faulty>>

\* The connected callback has the address of the client.
HandleWrite(x, keep) ==
    /\ Sound /\ c.socket = "polled"
    /\ c.conns[x] = "none"
    /\ ~keep => "forget" \in uses
    /\ LET s == TakeSocket(c, x, keep)
       IN  /\ c' = Release(s, c.connection)
           /\ faulty' = IF c.alive THEN Verdict(s, c.connection, FALSE) ELSE "dangling"
    /\ UNCHANGED <<uses, threads, user, wanted, connects>>

\* getSocketError() finds one: onRetryInLoop destroys the socket in its handler.
HandleWriteError ==
    /\ Sound /\ c.socket = "reset"
    /\ c' = OnRetry(c)
    /\ faulty' = "!_handling"
    /\ UNCHANGED <<uses, threads, user, wanted, connects>>

\* The end of a failed attempt is reported as POLLHUP without POLLIN.  The
\* functor is executed in the same turn of the loop, so there is one at a time.
HandleConnectorClose ==
    /\ Sound /\ c.socket = "dead" /\ c.status = "kConnecting" /\ ~Contains(c.queue, "retry")
    /\ c' = [c EXCEPT !.queue = Append(@, "retry")]
    /\ UNCHANGED <<uses, threads, user, wanted, connects, faulty>>

-----------------------------------------------------------------------------
(* The loop: the end of a connection *)

\* TcpConnection::closeInLoop, in a handler of its socket.
PeerCloses(x) ==
    /\ Sound /\ c.conns[x] \in {"kConnected", "kDisconnecting"}
    /\ wanted' = IF x = c.connection THEN "ended" ELSE wanted
    /\ LET closed == [c EXCEPT !.conns[x] = "kDisconnected"]
           s == Removed(closed, x)
       IN  IF x \notin c.bound
           THEN c' = closed /\ faulty' = "none"
           ELSE /\ c' = Release(s, x)
                /\ faulty' = IF ~c.alive THEN "dangling"
                             ELSE IF c.connection # x THEN "conn.get() == _connection.get()"
                             ELSE Verdict(s, x, TRUE)
    /\ UNCHANGED <<uses, threads, user, connects>>

-----------------------------------------------------------------------------

ClientNext ==
    \/ \E answer \in Answer : LoopConnect(answer) \/ Execute(answer) \/ TimerFires(answer)
    \/ \E handling \in BOOLEAN : LoopDisconnect(handling)
    \/ Shutdown
    \/ \E x \in Conn : Drop(x) \/ PeerCloses(x)
    \/ \E x \in Conn, keep \in BOOLEAN : HandleWrite(x, keep)
    \/ DestroyClient
    \/ \E call \in {"connect", "disconnect"} : UserCalls(call)
    \/ UserStores \/ UserQueues
    \/ \E outcome \in {"up", "dead"} : ConnectEnds(outcome)
    \/ PollWritable \/ PeerResets \/ HandleWriteError \/ HandleConnectorClose

\* A call of connect() or disconnect() that has begun is completed.  The loop
\* executes its functors and timers and handles events; the network decides every
\* attempt, and for the client at last if it is asked again and again.
ClientFairness ==
    /\ WF_clientvars(UserQueues)
    /\ WF_clientvars(\E answer \in Answer : Execute(answer))
    /\ WF_clientvars(\E answer \in Answer : TimerFires(answer))
    /\ WF_clientvars(\E outcome \in {"up", "dead"} : ConnectEnds(outcome))
    /\ WF_clientvars(PollWritable \/ HandleConnectorClose)
    /\ WF_clientvars(\E x \in Conn, keep \in BOOLEAN : HandleWrite(x, keep))
    /\ WF_clientvars(HandleWriteError)
    /\ SF_clientvars(ConnectEnds("up"))
    /\ SF_clientvars(TimerFires("progress"))

ClientSpec == ClientInit /\ [][ClientNext]_clientvars /\ ClientFairness

-----------------------------------------------------------------------------
(* Properties *)

\* An assertion fails only under the use that is its cause; an application that
\* calls from one thread, keeps its connections until they have ended and waits
\* before it connects again meets none (~IOFd, ~TcpConnection, ~TcpClient,
\* ~TcpConnector and TcpClient::removeConnectionInLoop).
ClientAsserts ==
    LET under(causes) == uses \cap causes # {}
    IN  /\ faulty = "!_handling" => under({"forget", "lateReset"})
        /\ faulty = "_status == kDisconnected" => under({"forget"})
        /\ faulty = "conn.get() == _connection.get()" => under({"early", "mixed"})
        /\ faulty \in {"!_connecting", "!!_stopping", "!_socket"} => under({"race", "mixed"})
        /\ faulty = "dangling" => under({"outlive", "early", "mixed"})
        /\ faulty = "danglingFd" => under({"overtake", "mixed"})

\* disconnect() is final: from the time its functor is executed until the next
\* connect() there is no socket, no connection and no wish for one, whatever
\* timers and functors of the attempt before are still to come
\* (TcpConnector::onRetryInLoop adds a timer without looking at _stopping, only
\* connectInLoop looks at it).
DisconnectIsFinal ==
    /\ c.stopping => c.socket = "none" /\ c.connection = None
    /\ (uses \cap {"race", "mixed"} = {} /\ wanted = "disconnect" /\ user = "idle" /\ c.queue = <<>>)
          => c.stopping /\ ~c.connecting

\* With a reconnect delay, connect() leads to a connection however many attempts
\* fail, unless disconnect() comes before; what comes after the end of a
\* connection is left out: onClosedInConnection queues connect(), which returns at
\* once since _connecting is still set (TcpConnector::handleCloseInLoop,
\* onRetryInLoop).
TriesUntilConnected ==
    (c.delay /\ wanted = "connect" /\ uses \cap {"fatal", "mixed"} = {})
       ~> (c.connection # None \/ wanted # "connect" \/ faulty # "none")

\* When the peer closes the connection, the handler of its socket is not the last
\* to own it: ~IOFd asserts !_handling (TcpClient::removeConnectionInLoop is
\* called inline by TcpConnection::closeInLoop).
EndedAssertion == wanted = "ended" => faulty # "!_handling"
=============================================================================
