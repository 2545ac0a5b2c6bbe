------------------------------- MODULE TcpServer -------------------------------
(***************************************************************************)
(* TcpServer with TcpAcceptor (src/src/net/tcp/TcpServer.cpp,              *)
(* TcpAcceptor.cpp): connections accepted on the server's loop, living on  *)
(* the loops of the cluster, ended by their peers or by the application.   *)
(***************************************************************************)
EXTENDS Server

TcpInit == ServerInit("tcp")

\* TcpAcceptor: between listenInLoop and stopInLoop.
Listening == run = "running"

\* TcpAcceptor::handleReadInLoop calls accept(); while it listens, the callback
\* of the server is set.
Accepts == Ok /\ Listening

\* TcpServer::newConnectionInLoop.
Accept(x, k, w) ==
    /\ Accepts
    /\ NewConnection(x, k, w, <<>>)
    /\ UNCHANGED <<proto, uses, call, mainvars, mainq, closing, ups, downs, crash>>

\* Socket::accept logs at level FATAL, so the handling of EMFILE that follows in
\* handleReadInLoop is never reached.
AcceptFails ==
    /\ Accepts /\ "limit" \in uses
    /\ crash' = "abort"
    /\ UNCHANGED <<proto, uses, call, mainvars, table, conns, bound, mainq, wq, closing, ups, downs>>

\* The peer ends the connection, or the application calls close() in a callback:
\* closeInLoop in a handler of the socket, which holds no shared_ptr and runs until
\* closeInLoop has detached the socket.
TcpEnds(w, x) ==
    /\ Ok /\ closing[w] = None /\ conns[x].loop = w /\ run # "stopped"
    /\ conns[x].status \in {"kConnected", "kDisconnecting"} /\ x \notin downs
    /\ run = "stopping" => Hurried
    /\ CloseInLoop(w, x, FALSE)
    /\ UNCHANGED <<proto, uses, call, mainvars, table, bound, mainq, wq, ups, crash>>

TcpNext ==
    \/ ServerNext
    \/ \E x \in Conn, k \in Key, w \in Worker : Accept(x, k, w)
    \/ AcceptFails
    \/ \E x \in Conn, w \in Worker : TcpEnds(w, x)
=============================================================================
