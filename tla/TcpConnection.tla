---------------------------- MODULE TcpConnection ----------------------------
(***************************************************************************)
(* One accepted connection (src/src/net/tcp/TcpConnection.cpp and          *)
(* Connection.cpp) with the part of TcpServer that owns it, from           *)
(* newConnectionInLoop to its destructor.  The server's cluster has no     *)
(* further loops, so the connection lives on the server's loop.  There are *)
(* three actors: the loop thread with the callbacks of the application     *)
(* that run on it, one other thread of the application that uses a         *)
(* shared_ptr to the connection, and the peer.                             *)
(*                                                                         *)
(* The build has assertions on.  A failed assertion or an access through a *)
(* dead or null pointer ends the program: fault says which, and no action  *)
(* follows.  The application sets every callback and ignores SIGPIPE, else *)
(* the EPIPE branch of sendInLoop is never reached.  LOG_FATAL aborts.     *)
(***************************************************************************)
EXTENDS Integers, Sequences

CONSTANTS Msg,          \* messages the application sends, each once
          Applications  \* the applications, each the set of its uses

\* The application is on the loop thread, in a callback, or (the three names that
\* end in User) on its other thread.  The comments are the conditions under which it makes
\* the call; the same call without them is a use of its own.
Use == {"send",         \* send() while the connection isConnected()
        "sendLate",     \* send() at other times
        "close",        \* close(), no event of the socket waits to be handled
        "closePolled",  \* close() from a callback of another object, one waits
        "shutdown",     \* shutdown()
        "stop",         \* TcpServer::stop() from a callback of another object,
                        \*   no event waits, not kConnecting or kDisconnecting
        "stopAny",      \* TcpServer::stop() at other times
        "sendUser", "closeUser", "shutdownUser",
        "writeFails"}   \* none of its calls: the kernel refuses a write() with
                        \*   an error other than EPIPE and ECONNRESET

ASSUME ApplicationsAssumption == Applications \subseteq SUBSET Use

VARIABLES
    status,     \* _status
    attached,   \* the socket has a _looper; it is then reading
    writing,    \* the socket's kWriteEvent
    output,     \* _outputBuffer
    wire,       \* kernel: what write() took
    fin,        \* kernel: our side was shut down
    peer,       \* "open", "closed", "reset", or "dead": reset and SO_ERROR fetched
    unread,     \* kernel: there is data to read
    alive,      \* the connection object exists
    held,       \* it is in TcpServer::_connections
    bound,      \* _closeCallback is set
    server,     \* TcpServer::stop(): "running", "stopping", "stopped"
    queue,      \* the loop's _functors, as far as they are about this connection
    batch,      \* the functors of this runFunctors() still to be executed
    pinned,     \* an executed one that holds a shared_ptr is still in the vector
    phase,      \* of the loop: "poll", "events", "functors"
    polled,     \* events reported for the socket and not handled yet
    handling,   \* IOFd::_handling
    frames,     \* callbacks and calls under way on the loop thread, innermost last
    others,     \* a callback of another object ran in this iteration
    user,       \* where the other thread is
    userRef,    \* the application keeps a shared_ptr to the connection
    fault,      \* what ended the program, or "none"
    sent,       \* messages given to send()
    uses,       \* the application's uses, chosen once
    accepted,   \* history: what sendInLoop took on, in order
    notes       \* history: connect change callbacks, "up" and "down"

sock == <<attached, writing, fin>>
data == <<output, wire, accepted>>
net == <<peer, unread>>
own == <<alive, held, bound, server>>
loop == <<phase, polled, handling, others>>
line == <<queue, batch, pinned>>
app == <<user, userRef, sent, uses>>
vars == <<status, attached, writing, output, wire, fin, peer, unread, alive, held,
          bound, server, queue, batch, pinned, phase, polled, handling, frames,
          others, user, userRef, fault, sent, uses, accepted, notes>>

SendFunctor == {"send"} \X Msg
PlainFunctor == {"establish", "close", "shutdown", "complete", "remove"} \X {"this"}
Functor == SendFunctor \cup PlainFunctor
F(kind) == <<kind, "this">>

\* frames: user code in a callback of the connection ("own"), in its last
\* connect change callback ("down") or in a callback of something else on the
\* loop ("other"); close() or shutdown() past their check of the status.
Frame == {"own", "down", "other", "closing", "shutting"}
Top == IF frames = <<>> THEN "none" ELSE frames[Len(frames)]
Pop == SubSeq(frames, 1, Len(frames) - 1)

SeqToSet(s) == {s[i] : i \in 1..Len(s)}

\* Somebody holds a shared_ptr.  Only the functor send() queues does not.
Referenced ==
    \/ held \/ userRef \/ pinned
    \/ (SeqToSet(queue) \cup SeqToSet(batch)) \cap PlainFunctor # {}
    \/ SeqToSet(frames) \ {"other"} # {}

\* The last shared_ptr that goes takes the object with it, before anything else.
Running == fault = "none" /\ (alive => Referenced)

\* The loop thread is in no callback.
LoopFree == Running /\ frames = <<>>

\* TcpServer::newConnectionInLoop has just run, in the acceptor's callback.
Init ==
    /\ status = "kConnecting" /\ attached = FALSE /\ writing = FALSE
    /\ output = <<>> /\ wire = <<>> /\ accepted = <<>>
    /\ fin = FALSE /\ peer = "open" /\ unread = FALSE
    /\ alive = TRUE /\ held = TRUE /\ bound = TRUE /\ server = "running"
    /\ queue = <<F("establish")>> /\ batch = <<>> /\ pinned = FALSE
    /\ phase = "events" /\ polled = {} /\ handling = FALSE /\ others = FALSE
    /\ frames = <<"other">>
    /\ user = "idle" /\ userRef = FALSE /\ sent = {} /\ uses \in Applications
    /\ fault = "none" /\ notes = <<>>

-----------------------------------------------------------------------------
(* What the handlers are made of *)

\* write() fails with EPIPE or ECONNRESET.
Broken == fin \/ peer \in {"reset", "dead"}

\* The pending error of a reset is reported once.
Fetched == IF peer = "reset" THEN "dead" ELSE peer

\* sendInLoop writes past the buffer only when nothing waits in it.
DirectUnlessWriting == ~writing

Direct == ~writing /\ output = <<>>

\* A message is two units long, so that a write can be partial.  k = 0 is
\* EWOULDBLOCK.  enableWriteInLoop goes through _looper.
SendInLoop(m) ==
    LET units == <<<<m, 1>>, <<m, 2>>>>
    IN  \/ /\ Direct /\ Broken
           /\ peer' = Fetched
           /\ UNCHANGED <<data, writing, queue, fault>>
        \/ /\ ~(Direct /\ Broken)
           /\ \E k \in IF Direct THEN 0..2 ELSE {0} :
                 /\ wire' = wire \o SubSeq(units, 1, k)
                 /\ output' = output \o SubSeq(units, k + 1, 2)
                 /\ accepted' = accepted \o units
                 /\ writing' = (writing \/ k < 2)
                 /\ queue' = IF k < 2 THEN queue ELSE Append(queue, F("complete"))
                 /\ fault' = IF k < 2 /\ ~writing /\ ~attached THEN "nullLooper" ELSE fault
           /\ UNCHANGED peer

CloseKeepsSocket(under) ==
    /\ writing' = FALSE /\ UNCHANGED attached
    /\ status' = "kDisconnected"
    /\ notes' = Append(notes, "down")
    /\ frames' = Append(under, "down")

\* closeInLoop up to the connect change callback, which is entered; the close
\* callback follows when that one returns.
CloseInLoop(under) ==
    /\ attached' = FALSE /\ writing' = FALSE
    /\ status' = "kDisconnected"
    /\ notes' = Append(notes, "down")
    /\ frames' = Append(under, "down")

\* What shutdown() leaves to the loop.  ::shutdown() fails with ENOTCONN once
\* the kernel's connection is gone, after a reset or when both sides have sent
\* their end, and Socket::shutdown answers with LOG_FATAL.
ShutdownSocket ==
    \/ writing /\ UNCHANGED <<fin, fault>>
    \/ ~writing /\ peer \in {"open", "closed"} /\ fin' = TRUE /\ UNCHANGED fault
    \/ /\ ~writing /\ (peer \in {"reset", "dead"} \/ (peer = "closed" /\ fin))
       /\ fault' = "abort" /\ UNCHANGED fin

-----------------------------------------------------------------------------
(* Application code on the loop thread *)

\* A timer, a functor or an event of another object: its callback runs.  At
\* most one in an iteration.
OtherCallback ==
    /\ LoopFree /\ alive /\ ~handling /\ ~others
    /\ others' = TRUE
    /\ frames' = <<"other">>
    /\ UNCHANGED <<status, sock, data, net, own, line, phase, polled, handling, app,
                   fault, notes>>

\* The code that runs can call the connection.
Calls == Running /\ (Top \in {"own", "down"} \/ (Top = "other" /\ userRef))

CbSend(m) ==
    /\ Calls /\ m \notin sent
    /\ (IF status = "kConnected" THEN "send" ELSE "sendLate") \in uses
    /\ sent' = sent \cup {m}
    /\ SendInLoop(m)
    /\ UNCHANGED <<status, attached, fin, unread, own, batch, pinned, loop, frames,
                   user, userRef, uses, notes>>

\* close(): the status is read ...
CbClose ==
    /\ Calls /\ status = "kConnected"
    /\ (IF Top = "other" /\ polled # {} THEN "closePolled" ELSE "close") \in uses
    /\ frames' = Append(frames, "closing")
    /\ UNCHANGED <<status, sock, data, net, own, line, loop, app, fault, notes>>

\* ... and then changed, and runInLoop executes closeInLoop on the spot.
CbCloseProceeds ==
    /\ Running /\ Top = "closing"
    /\ CloseInLoop(Pop)
    /\ UNCHANGED <<fin, data, net, own, line, loop, app, fault>>

CbShutdown ==
    /\ Calls /\ status = "kConnected" /\ "shutdown" \in uses
    /\ frames' = Append(frames, "shutting")
    /\ UNCHANGED <<status, sock, data, net, own, line, loop, app, fault, notes>>

CbShutdownProceeds ==
    /\ Running /\ Top = "shutting"
    /\ status' = "kDisconnecting"
    /\ ShutdownSocket
    /\ frames' = Pop
    /\ UNCHANGED <<attached, writing, data, net, own, line, loop, app, notes>>

\* TcpServer::stop() on the loop thread: the connection is unbound and closed
\* if it is connected, and the table is cleared.
CbStop ==
    /\ Running /\ Top \in {"own", "down", "other"} /\ server = "running"
    /\ LET careful == Top = "other" /\ polled = {}
                       /\ status \in {"kConnected", "kDisconnected"}
       IN  (IF careful THEN "stop" ELSE "stopAny") \in uses
    /\ bound' = (bound /\ ~held)
    /\ IF held /\ status = "kConnected"
         THEN /\ server' = "stopping" /\ held' = held
              /\ frames' = Append(frames, "closing")
         ELSE /\ server' = "stopped" /\ held' = FALSE
              /\ UNCHANGED frames
    /\ UNCHANGED <<status, sock, data, net, alive, line, loop, app, fault, notes>>

ReturnRemovesAtOnce ==
    /\ Running /\ Top \in {"own", "down", "other"}
    /\ frames' = Pop
    /\ held' = (held /\ Top # "down")
    /\ UNCHANGED <<status, sock, data, net, alive, bound, server, line, loop, app,
                   fault, notes>>

ReturnForgetsClosed ==
    /\ Running /\ Top \in {"own", "down", "other"}
    /\ frames' = Pop
    /\ UNCHANGED <<status, sock, data, net, own, line, loop, app, fault, notes>>

\* A callback returns.  After "down" closeInLoop goes on with the close
\* callback, which is TcpServer::onClosedInConnection, and stop() with clear().
Return ==
    /\ Running /\ Top \in {"own", "down", "other"}
    /\ frames' = Pop
    /\ queue' = IF Top = "down" /\ bound THEN Append(queue, F("remove")) ELSE queue
    /\ IF Top = "down" /\ server = "stopping"
         THEN server' = "stopped" /\ held' = FALSE
         ELSE UNCHANGED <<server, held>>
    /\ UNCHANGED <<status, sock, data, net, alive, bound, batch, pinned, loop, app,
                   fault, notes>>

-----------------------------------------------------------------------------
(* The loop thread: events of the socket *)

\* epoll_wait is level triggered: what there is to read or an error is
\* reported, room for writing when there is some.
Poll(room) ==
    /\ LoopFree /\ phase = "poll"
    /\ room => writing
    /\ polled' = (IF attached /\ peer = "reset" THEN {"error"} ELSE {})
                  \cup (IF attached /\ (unread \/ peer # "open") THEN {"read"} ELSE {})
                  \cup (IF room THEN {"write"} ELSE {})
    /\ phase' = "events"
    /\ others' = FALSE
    /\ UNCHANGED <<status, sock, data, net, own, line, handling, frames, app, fault,
                   notes>>

\* A hangup without anything to read; no more than it says.
PollHangup ==
    /\ LoopFree /\ phase = "poll"
    /\ attached /\ ~unread
    /\ peer = "dead" \/ (peer = "closed" /\ fin)
    /\ polled' = {"close"} /\ phase' = "events" /\ others' = FALSE
    /\ UNCHANGED <<status, sock, data, net, own, line, handling, frames, app, fault,
                   notes>>

\* fd->handleEvent() through the address kept in activeFds
HandleEvent ==
    /\ LoopFree /\ phase = "events" /\ polled # {} /\ ~handling
    /\ IF ~alive
         THEN fault' = "danglingFd" /\ UNCHANGED handling
         ELSE handling' = TRUE /\ UNCHANGED fault
    /\ UNCHANGED <<status, sock, data, net, own, line, phase, polled, frames, others,
                   app, notes>>

HandleCloseLogs == UNCHANGED <<status, attached, writing, notes, frames, fault>>

\* handleCloseInLoop
HandleClose ==
    IF status \in {"kConnected", "kDisconnecting"}
      THEN CloseInLoop(frames) /\ UNCHANGED fault
      ELSE /\ fault' = "closeAssert"
           /\ UNCHANGED <<status, attached, writing, notes, frames>>

\* _handling is FALSE again when the close callback is made.
HandleHangup ==
    /\ LoopFree /\ handling /\ polled = {"close"}
    /\ polled' = {} /\ handling' = FALSE
    /\ HandleClose
    /\ UNCHANGED <<fin, data, net, own, line, phase, others, app>>

HandleError ==
    /\ LoopFree /\ handling /\ "error" \in polled
    /\ polled' = polled \ {"error"}
    /\ peer' = Fetched
    /\ UNCHANGED <<status, sock, data, unread, own, line, phase, handling, frames,
                   others, app, fault, notes>>

\* handleReadInLoop: data, the end of the stream, or an error
HandleRead ==
    /\ LoopFree /\ handling /\ "read" \in polled /\ "error" \notin polled
    /\ polled' = polled \ {"read"}
    /\ \/ /\ unread
          /\ unread' = FALSE /\ peer' = peer
          /\ frames' = <<"own">>
          /\ UNCHANGED <<status, attached, writing, notes, fault>>
       \/ /\ ~unread /\ peer \in {"closed", "dead"}
          /\ HandleClose
          /\ UNCHANGED net
       \/ /\ ~unread /\ peer = "reset"
          /\ peer' = Fetched
          /\ UNCHANGED <<status, attached, writing, notes, frames, fault, unread>>
    /\ UNCHANGED <<fin, data, own, line, phase, handling, others, app>>

HandleWriteOnce ==
    /\ LoopFree /\ handling /\ polled = {"write"}
    /\ polled' = {}
    /\ writing' = FALSE
    /\ \E k \in 1..Len(output) :
          /\ wire' = wire \o SubSeq(output, 1, k)
          /\ output' = SubSeq(output, k + 1, Len(output))
    /\ UNCHANGED <<status, attached, fin, accepted, net, own, line, phase, handling,
                   frames, others, app, fault, notes>>

\* handleWriteInLoop: with room, write() takes at least one unit or fails, and
\* then whatever the error nothing asks for room any more.
HandleWrite ==
    /\ LoopFree /\ handling /\ polled = {"write"}
    /\ polled' = {}
    /\ \/ /\ ~writing
          /\ UNCHANGED <<writing, output, wire, frames, peer>>
       \/ /\ writing /\ (Broken \/ "writeFails" \in uses)
          /\ writing' = FALSE /\ peer' = Fetched
          /\ UNCHANGED <<output, wire, frames>>
       \/ /\ writing /\ ~Broken
          /\ \E k \in 1..Len(output) :
                /\ wire' = wire \o SubSeq(output, 1, k)
                /\ output' = SubSeq(output, k + 1, Len(output))
                /\ writing' = (k < Len(output))
                /\ frames' = IF k < Len(output) THEN frames ELSE <<"own">>
          /\ UNCHANGED peer
    /\ UNCHANGED <<status, attached, fin, accepted, unread, own, line, phase, handling,
                   others, app, fault, notes>>

HandleEventEnds ==
    /\ LoopFree /\ handling /\ polled = {}
    /\ handling' = FALSE
    /\ UNCHANGED <<status, sock, data, net, own, line, phase, polled, frames, others,
                   app, fault, notes>>

-----------------------------------------------------------------------------
(* The loop thread: functors *)

SwapFunctors ==
    /\ LoopFree /\ phase = "events" /\ polled = {} /\ ~handling
    /\ phase' = "functors"
    /\ batch' = queue /\ queue' = <<>>
    /\ UNCHANGED <<status, sock, data, net, own, pinned, polled, handling, frames,
                   others, app, fault, notes>>

\* An executed functor stays in the vector until the batch is done.
Execute(f) ==
    /\ LoopFree /\ phase = "functors" /\ batch # <<>> /\ Head(batch) = f
    /\ batch' = Tail(batch)
    /\ pinned' = (pinned \/ f \in PlainFunctor)

\* onConnectEstablishedInLoop; the application keeps the connection it is given.
RunEstablish ==
    /\ Execute(F("establish"))
    /\ status' = "kConnected" /\ attached' = TRUE
    /\ notes' = Append(notes, "up")
    /\ frames' = <<"own">> /\ userRef' = TRUE
    /\ UNCHANGED <<writing, fin, data, net, own, queue, loop, user, sent, uses,
                   fault>>

RunClose ==
    /\ Execute(F("close"))
    /\ CloseInLoop(frames)
    /\ UNCHANGED <<fin, data, net, own, queue, loop, app, fault>>

RunShutdown ==
    /\ Execute(F("shutdown"))
    /\ ShutdownSocket
    /\ UNCHANGED <<status, attached, writing, data, net, own, queue, loop, frames, app,
                   notes>>

\* the functor of Connection::send(), which captured a bare this
RunSend(m) ==
    /\ Execute(<<"send", m>>)
    /\ IF alive
         THEN SendInLoop(m)
         ELSE /\ fault' = "danglingThis"
              /\ UNCHANGED <<data, writing, peer, queue>>
    /\ UNCHANGED <<status, attached, fin, unread, own, loop, frames, app, notes>>

RunComplete ==
    /\ Execute(F("complete"))
    /\ frames' = <<"own">>
    /\ UNCHANGED <<status, sock, data, net, own, queue, loop, app, fault, notes>>

\* TcpServer::removeConnectionInLoop
RunRemove ==
    /\ Execute(F("remove"))
    /\ bound' = FALSE /\ held' = FALSE
    /\ UNCHANGED <<status, sock, data, net, alive, server, queue, loop, frames, app,
                   fault, notes>>

BatchEnds ==
    /\ LoopFree /\ phase = "functors" /\ batch = <<>>
    /\ pinned' = FALSE
    /\ phase' = "poll"
    /\ UNCHANGED <<status, sock, data, net, own, queue, batch, polled, handling, frames,
                   others, app, fault, notes>>

-----------------------------------------------------------------------------
(* The other thread *)

UserFree == Running /\ userRef /\ user = "idle"

UserSend(m) ==
    /\ UserFree /\ m \notin sent /\ "sendUser" \in uses
    /\ sent' = sent \cup {m}
    /\ queue' = Append(queue, <<"send", m>>)
    /\ UNCHANGED <<status, sock, data, net, own, batch, pinned, loop, frames, user,
                   userRef, uses, fault, notes>>

\* close() and shutdown(): check the status, change it, queue the rest
UserChecks(call) ==
    /\ UserFree /\ status = "kConnected"
    /\ (IF call = "close" THEN "closeUser" ELSE "shutdownUser") \in uses
    /\ user' = call
    /\ UNCHANGED <<status, sock, data, net, own, line, loop, frames, userRef, sent,
                   uses, fault, notes>>

UserChanges(call) ==
    /\ Running /\ user = call
    /\ status' = "kDisconnecting"
    /\ user' = IF call = "close" THEN "closing" ELSE "shutting"
    /\ UNCHANGED <<sock, data, net, own, line, loop, frames, userRef, sent, uses,
                   fault, notes>>

UserQueuesNothing ==
    /\ Running /\ user \in {"closing", "shutting"}
    /\ user' = "idle"
    /\ UNCHANGED <<status, sock, data, net, own, line, loop, frames, userRef, sent,
                   uses, fault, notes>>

UserQueues ==
    /\ Running /\ user \in {"closing", "shutting"}
    /\ queue' = Append(queue, F(IF user = "closing" THEN "close" ELSE "shutdown"))
    /\ user' = "idle"
    /\ UNCHANGED <<status, sock, data, net, own, batch, pinned, loop, frames, userRef,
                   sent, uses, fault, notes>>

\* The application lets go of the connection.
DropRef ==
    /\ UserFree
    /\ userRef' = FALSE
    /\ UNCHANGED <<status, sock, data, net, own, line, loop, frames, user, sent, uses,
                   fault, notes>>

-----------------------------------------------------------------------------
(* The end of the object, and the peer *)

\* ~TcpConnection, ~Socket, ~IOFd
Destroy ==
    /\ fault = "none" /\ alive /\ ~Referenced
    /\ alive' = FALSE
    /\ fault' = IF status # "kDisconnected" THEN "status"
                ELSE IF handling THEN "handling" ELSE "none"
    /\ UNCHANGED <<status, sock, data, net, held, bound, server, line, loop, frames, app,
                   notes>>

PeerSend ==
    /\ Running /\ alive /\ peer = "open" /\ ~unread
    /\ unread' = TRUE
    /\ UNCHANGED <<status, sock, data, peer, own, line, loop, frames, app, fault, notes>>

PeerClose ==
    /\ Running /\ alive /\ peer = "open"
    /\ peer' = "closed"
    /\ UNCHANGED <<status, sock, data, unread, own, line, loop, frames, app, fault,
                   notes>>

PeerReset ==
    /\ Running /\ alive /\ peer \in {"open", "closed"}
    /\ peer' = "reset"
    /\ UNCHANGED <<status, sock, data, unread, own, line, loop, frames, app, fault,
                   notes>>

\* What the loop thread does by itself; a callback returns sooner or later.
LoopThread ==
    \/ CbCloseProceeds \/ CbShutdownProceeds \/ Return
    \/ Poll(FALSE) \/ Poll(TRUE) \/ PollHangup
    \/ HandleEvent \/ HandleHangup \/ HandleError \/ HandleRead \/ HandleWrite
    \/ HandleEventEnds \/ SwapFunctors
    \/ RunEstablish \/ RunClose \/ RunShutdown \/ RunComplete \/ RunRemove
    \/ \E m \in Msg : RunSend(m)
    \/ BatchEnds

Callbacks ==
    \/ OtherCallback \/ CbClose \/ CbShutdown \/ CbStop
    \/ \E m \in Msg : CbSend(m)

UserThread == UserQueues \/ \E call \in {"close", "shutdown"} : UserChanges(call)

UserCalls ==
    \/ DropRef
    \/ \E m \in Msg : UserSend(m)
    \/ \E call \in {"close", "shutdown"} : UserChecks(call)

Peer == PeerSend \/ PeerClose \/ PeerReset

Next == LoopThread \/ Callbacks \/ UserThread \/ UserCalls \/ Destroy \/ Peer

Spec == Init /\ [][Next]_vars

\* The system runs both threads, calls are finished once begun, and the peer
\* makes room again and again.  Nobody is obliged to call anything.
FairSpec ==
    /\ Spec
    /\ WF_vars(LoopThread) /\ WF_vars(UserThread) /\ WF_vars(Destroy)
    /\ SF_vars(Poll(TRUE))
-----------------------------------------------------------------------------
(* Properties *)

Units == Msg \X {1, 2}

\* Every variable keeps its type, and the calls on the loop thread nest no
\* deeper than a callback and a close() in it: the last connect change callback
\* cannot start another close().
TypeOK ==
    /\ status \in {"kConnecting", "kConnected", "kDisconnecting", "kDisconnected"}
    /\ attached \in BOOLEAN /\ writing \in BOOLEAN /\ fin \in BOOLEAN
    /\ output \in Seq(Units) /\ wire \in Seq(Units) /\ accepted \in Seq(Units)
    /\ peer \in {"open", "closed", "reset", "dead"} /\ unread \in BOOLEAN
    /\ alive \in BOOLEAN /\ held \in BOOLEAN /\ bound \in BOOLEAN
    /\ server \in {"running", "stopping", "stopped"}
    /\ queue \in Seq(Functor) /\ batch \in Seq(Functor) /\ pinned \in BOOLEAN
    /\ phase \in {"poll", "events", "functors"}
    /\ polled \in SUBSET {"error", "read", "write", "close"}
    /\ handling \in BOOLEAN /\ others \in BOOLEAN
    /\ frames \in Seq(Frame) /\ Len(frames) <= 2
    /\ user \in {"idle", "close", "shutdown", "closing", "shutting"}
    /\ userRef \in BOOLEAN /\ sent \in SUBSET Msg /\ uses \in SUBSET Use
    /\ fault \in {"none", "status", "handling", "danglingFd", "danglingThis",
                   "nullLooper", "closeAssert", "abort"}
    /\ notes \in Seq({"up", "down"})

\* What sendInLoop took on goes to the kernel complete and in order: what was
\* written, by sendInLoop itself or by handleWriteInLoop, followed by the output
\* buffer, is what was accepted.
StreamIntegrity == accepted = wire \o output

\* The connect change callback says "up" once, first, and "down" only after the
\* socket was taken off the loop, where it stays; until then the connection does
\* not count as disconnected.  ("down" may be said again: close() on another
\* thread and the end of the stream each say it.)
NotificationOrder ==
    /\ \A i \in 1..Len(notes) : notes[i] = IF i = 1 THEN "up" ELSE "down"
    /\ attached <=> notes = <<"up">>
    /\ status = "kDisconnected" => Len(notes) > 1

\* The ways to end the program, each with all of its causes.  Even the careful
\* call of shutdown() aborts when the peer's reset has arrived; a dead or null
\* pointer and a failed assertion take a call at the wrong time.
OnlyKnownFaults ==
    /\ fault = "abort" =>
          \/ peer \in {"reset", "dead"} /\ uses \cap {"shutdown", "shutdownUser"} # {}
          \/ peer = "closed" /\ "shutdownUser" \in uses
    /\ fault = "closeAssert" => uses \cap {"closePolled", "stopAny"} # {}
    /\ fault = "nullLooper" => uses \cap {"sendLate", "sendUser"} # {}
    /\ fault = "danglingThis" => "sendUser" \in uses
    /\ fault \in {"danglingFd", "handling"} => "stopAny" \in uses
    /\ fault = "status" => uses \cap {"shutdownUser", "stopAny"} # {}

Ended == fault # "none" \/ ~alive

\* A peer that closes or resets is noticed: the socket comes off the loop.
PeerEndNoticed == (attached /\ peer # "open") ~> (~attached \/ Ended)

\* close() on the other thread gets done, whatever the loop is doing.
CloseDone == (user \in {"close", "closing"}) ~> (~attached \/ Ended)

\* Output that waits for room is written, unless the connection ends first.
OutputFlushed == writing ~> (output = <<>> \/ ~attached \/ Broken \/ Ended)

\* After its last "down" the connection is released once the application let
\* go: the server's removal is not forgotten, no functor keeps it for ever.
Released == (Len(notes) > 1 /\ ~userRef) ~> Ended

\* "/// Thread-Safed Methods" of Connection.h and TcpConnection.h: send() and
\* shutdown(), on another thread, may be called at any time; no null or dead
\* pointer is used and ~TcpConnection finds its connection kDisconnected.
ThreadSafeMethods == fault \notin {"nullLooper", "danglingThis", "status"}
=============================================================================
