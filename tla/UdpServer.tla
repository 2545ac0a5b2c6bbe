------------------------------- MODULE UdpServer -------------------------------
(***************************************************************************)
(* UdpServer with UdpAcceptor and UdpConnection (src/src/net/udp): a       *)
(* datagram from a new address makes a connection, later ones are handed   *)
(* to its loop; connections that nothing was heard of for ExpiredTime are  *)
(* closed by a repeated timer.  The application answers datagrams or       *)
(* closes connections in its message callback.                             *)
(*                                                                         *)
(* sendto() takes a datagram as a whole or fails; the branch of            *)
(* handleWriteInLoop for a partial write has no case.                      *)
(***************************************************************************)
EXTENDS Server

CONSTANTS MaxDatagrams,         \* bound: datagrams that arrive
          MaxDatagramsCalled    \* the same when another thread calls the connections

\* An address is an IPv4 address and a port.
ASSUME AddressAssumption == IsFiniteSet(Key)

VARIABLES
    datagrams,  \* number of datagrams received
    idle,       \* connections whose _activedTime is more than ExpiredTime ago
    output,     \* those with an _outputBuffer that is not empty
    writing,    \* _writing
    failed      \* history: those with a failed sendto()

udpvars == <<datagrams, idle, output, writing, failed>>

UdpInit ==
    /\ datagrams = 0 /\ idle = {} /\ output = {} /\ writing = {} /\ failed = {}

-----------------------------------------------------------------------------
(* Main thread *)

\* UdpAcceptor: between listenInLoop and stopInLoop, which closes the descriptor
\* that the connections have as their _senderFd.
Receiving == run = "running"

\* The repeated timer is there from start() to stop().
expiredChecker == run = "running"

Arrives ==
    /\ Ok /\ Receiving
    /\ datagrams < IF uses \cap {"closeUser", "shutdownUser"} = {}
                  THEN MaxDatagrams ELSE MaxDatagramsCalled
    /\ datagrams' = datagrams + 1

\* UdpAcceptor::handleReadInLoop and UdpServer::recvMessageInLoop.
RecvNew(x, k, w) ==
    /\ Arrives /\ table[k] = None
    /\ NewConnection(x, k, w, <<[op |-> "read", conn |-> x]>>)
    /\ UNCHANGED <<proto, uses, call, mainvars, mainq, closing, ups, downs, crash,
                   idle, output, writing, failed>>

RecvKnown(k) ==
    /\ Arrives /\ table[k] # None
    /\ Post(conns[table[k]].loop, "read", table[k])
    /\ UNCHANGED <<proto, uses, call, mainvars, table, conns, bound, mainq, closing, ups, downs,
                   crash, idle, output, writing, failed>>

\* A loop gets on with what it has to do long before ExpiredTime is over.
TimePasses(x) ==
    /\ Ok /\ x \in Held \ idle
    /\ \A f \in ToSet(wq[conns[x].loop]) : f.conn # x
    /\ closing[conns[x].loop] = None /\ ~Contains(mainq, x)
    /\ idle' = idle \cup {x}
    /\ UNCHANGED <<servervars, datagrams, output, writing, failed>>

CheckExpiredSilently ==
    LET expired == Held \cap idle
    IN  /\ Ok /\ expiredChecker /\ expired # {}
        /\ table' = [k \in Key |-> IF table[k] \in expired THEN None ELSE table[k]]
        /\ UNCHANGED <<proto, uses, call, mainvars, conns, wq, bound, mainq, closing, ups, downs,
                       crash, udpvars>>

\* checkExpiredInLoop: out of the table first, then close().
CheckExpired ==
    LET expired == Held \cap idle
        closes(w) == SetToSeq({[op |-> "close", conn |-> x] :
                                 x \in {y \in expired : conns[y].loop = w}})
    IN  /\ Ok /\ expiredChecker /\ expired # {}
        /\ table' = [k \in Key |-> IF table[k] \in expired THEN None ELSE table[k]]
        /\ conns' = [x \in Conn |-> IF x \in expired
                                    THEN [conns[x] EXCEPT !.status = "kDisconnected"]
                                    ELSE conns[x]]
        /\ wq' = [w \in Worker |-> wq[w] \o closes(w)]
        /\ UNCHANGED <<proto, uses, call, mainvars, bound, mainq, closing, ups, downs, crash,
                       udpvars>>

-----------------------------------------------------------------------------
(* The loop of a connection: UdpConnection::handleReadInLoop and the callback *)

Reads(w, x) ==
    /\ Ok /\ Due(w, "read") /\ x = Head(wq[w]).conn
    /\ wq' = [wq EXCEPT ![w] = Tail(@)]
    /\ idle' = idle \ {x}
    /\ UNCHANGED <<proto, uses, call, mainvars, table, bound, mainq, ups, datagrams>>

HandleRead(w, x) ==
    /\ Reads(w, x)
    /\ UNCHANGED <<conns, closing, downs, crash, output, writing, failed>>

\* close() in the callback; the functor under way holds the connection.  Unlike
\* that of TcpConnection, close() does not look whether it has been called before.
HandleReadCloses(w, x) ==
    /\ Reads(w, x)
    /\ conns[x].status = "kConnected" \/ "again" \in uses
    /\ CloseInLoop(w, x, TRUE)
    /\ UNCHANGED <<crash, output, writing, failed>>

HandleReadSendsStuck(w, x, sent) ==
    /\ Reads(w, x)
    /\ LET tries == x \notin writing /\ x \in bound
       IN  /\ output' = IF tries /\ sent THEN output \ {x} ELSE output \cup {x}
           /\ writing' = writing \cup {x}
           /\ failed' = IF tries /\ ~sent THEN failed \cup {x} ELSE failed
           /\ crash' = IF tries /\ ~Receiving THEN "descriptor" ELSE "none"
    /\ UNCHANGED <<conns, closing, downs>>

\* send(): sendInLoop and handleWriteInLoop.  After a failure _writing stays set,
\* and nothing is sent any more; after stop() has closed the acceptor's socket and
\* before it comes to this connection, _senderFd is the number of a closed
\* descriptor, or of another file.
HandleReadSends(w, x, sent) ==
    /\ Reads(w, x)
    /\ LET tries == x \notin writing /\ x \in bound
       IN  /\ output' = IF tries /\ sent THEN output \ {x} ELSE output \cup {x}
           /\ writing' = IF tries /\ sent THEN writing \ {x} ELSE writing \cup {x}
           /\ failed' = IF tries /\ ~sent THEN failed \cup {x} ELSE failed
           /\ crash' = IF tries /\ ~Receiving THEN "descriptor" ELSE "none"
    /\ UNCHANGED <<conns, closing, downs>>

-----------------------------------------------------------------------------

UdpWorker(w) ==
    \E x \in Conn : \/ HandleRead(w, x) \/ HandleReadCloses(w, x)
                    \/ \E sent \in BOOLEAN : HandleReadSends(w, x, sent)

UdpNext ==
    \/ ServerNext /\ UNCHANGED udpvars
    \/ \E x \in Conn, k \in Key, w \in Worker : RecvNew(x, k, w)
    \/ \E k \in Key : RecvKnown(k)
    \/ \E x \in Conn : TimePasses(x)
    \/ CheckExpired
    \/ \E w \in Worker, x \in Conn : \/ HandleRead(w, x) \/ HandleReadCloses(w, x)
                                     \/ \E sent \in BOOLEAN : HandleReadSends(w, x, sent)

-----------------------------------------------------------------------------
(* Properties *)

\* What the application sends leaves at once; output is held back only on a
\* connection with a failed sendto() or one that was unbound, and there for ever
\* (UdpConnection::handleWriteInLoop does not reset _writing).
UdpOutputLeaves == \A x \in output : x \in failed \/ x \notin bound
=============================================================================
