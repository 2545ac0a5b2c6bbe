------------------------------ MODULE MCServers ------------------------------
(***************************************************************************)
(* Both servers, one per behaviour, with the fairness of their loops.      *)
(***************************************************************************)
EXTENDS TcpServer, UdpServer

allvars == <<servervars, udpvars>>

MCInit == (TcpInit \/ ServerInit("udp")) /\ UdpInit

MCNext ==
    \/ proto = "tcp" /\ TcpNext /\ UNCHANGED udpvars
    \/ proto = "udp" /\ UdpNext

\* Every loop executes its functors and gets on with what it has begun, and so does
\* a call of the application; nothing has to arrive, to be closed or to be stopped.
MCFairness ==
    /\ WF_allvars(ServerMain /\ UNCHANGED udpvars)
    /\ \A x \in Conn : WF_allvars(ServerApp(x) /\ UNCHANGED udpvars)
    /\ \A w \in Worker :
          WF_allvars((ServerWorker(w) /\ UNCHANGED udpvars) \/ UdpWorker(w))

MCSpec == MCInit /\ [][MCNext]_allvars /\ MCFairness

=============================================================================
