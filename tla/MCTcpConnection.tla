--------------------------- MODULE MCTcpConnection ---------------------------
(***************************************************************************)
(* TcpConnection for TLC: the messages are interchangeable, and the        *)
(* applications of a run: each goes without the causes of some faults.     *)
(***************************************************************************)
EXTENDS TcpConnection, TLC

Symmetry == Permutations(Msg)

\* two threads, without a server that stops
TwoThreads ==
    {"send", "sendLate", "sendUser", "shutdown", "shutdownUser", "closeUser", "writeFails"}

\* one thread but for shutdown(), and stop() at any time
Stopping ==
    {"send", "shutdown", "shutdownUser", "close", "closePolled", "stop", "stopAny"}

\* one thread but for close(), and a quiet stop()
Closing ==
    {"send", "sendLate", "shutdown", "close", "closePolled", "closeUser", "stop"}

SomeApplications == {TwoThreads, Stopping, Closing}
=============================================================================
