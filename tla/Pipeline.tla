------------------------------- MODULE Pipeline -------------------------------
(***************************************************************************)
(* Pipeline and UnpackHandler (src/src/net/Pipeline.cpp, Handler.h,        *)
(* handler/UnpackHandler.cpp) on the input buffer of a connection: a       *)
(* stream of length-prefixed frames arrives in pieces of any size, and the *)
(* application calls process(), which passes one frame from handler to     *)
(* handler.                                                                *)
(*                                                                         *)
(* A handler must return a new HandlerData: process() resets the           *)
(* shared_ptr that holds the argument, so a handler that returns its       *)
(* argument, as UnpackHandler does when no frame is complete, has it       *)
(* deleted before its status is read and once more at the end.  The        *)
(* outcome is undefined; crashed ends the behaviour there.                 *)
(***************************************************************************)
EXTENDS Buffer

CONSTANTS Width,        \* sizeof(int32_t)
          Payload,      \* payloads of frames
          MaxFrames     \* bound: frames on the stream

HeaderBits == Bits * Width      \* UnpackHandler::HeaderBits, used as a number of bytes

\* A payload is made of bytes, and its length is an int32_t.
ASSUME PayloadAssumption ==
    /\ Width \in Nat \ {0}
    /\ \A p \in Payload : p \in Seq(Byte) /\ 2 * Len(p) < Base^Width

\* That much of arithmetic the proofs need of numbers written in base Base.
ASSUME PositionAssumption ==
    /\ \A n \in 0..Width : Base^n \in Nat \ {0}
    /\ \A p \in Payload :
          LET n == Len(p)
          IN  BigEndian([i \in 1..Width |-> (n \div Base^(Width - i)) % Base]) = n

VARIABLES
    handlers,   \* Pipeline::_handlers
    stream,     \* bytes sent by the peer and not yet read
    frames,     \* history: payloads sent
    handled,    \* history: payloads that reached the application's handler
    crashed     \* process() used a deleted HandlerData

pipevars == <<buf, handlers, stream, frames, handled, crashed>>

PipelineInit ==
    /\ BufferInit
    /\ handlers = <<>> /\ stream = <<>> /\ frames = <<>> /\ handled = <<>> /\ crashed = FALSE

-----------------------------------------------------------------------------
(* Assembly: the application's handler, "record", wants what "unpack" returns *)

Handlers == {"unpack", "record"}
Assembled == handlers = <<"unpack", "record">>

AddFirst(h) ==
    /\ h \in Handlers \ ToSet(handlers)
    /\ handlers' = <<h>> \o handlers
    /\ UNCHANGED <<buf, stream, frames, handled, crashed>>

AddLast(h) ==
    /\ h \in Handlers \ ToSet(handlers)
    /\ handlers' = Append(handlers, h)
    /\ UNCHANGED <<buf, stream, frames, handled, crashed>>

-----------------------------------------------------------------------------
(* The stream *)

\* A header of HeaderBits bytes begins with the length.
Frame(p) == IntBytes(Len(p), Width) \o [i \in 1..(HeaderBits - Width) |-> 0] \o p

PeerSendsFrame(p) ==
    /\ Assembled /\ Len(frames) < MaxFrames
    /\ stream' = stream \o Frame(p)
    /\ frames' = Append(frames, p)
    /\ UNCHANGED <<buf, handlers, handled, crashed>>

\* TcpConnection::handleReadInLoop reads what has arrived.
StreamRead(n) ==
    /\ Assembled /\ ~crashed
    /\ n \in 1..Len(stream) /\ n <= ReadLimit(buf)
    /\ buf' = readFd(buf, SubSeq(stream, 1, n))
    /\ stream' = SubSeq(stream, n + 1, Len(stream))
    /\ UNCHANGED <<handlers, frames, handled, crashed>>

-----------------------------------------------------------------------------
(* Pipeline::process *)

\* UnpackHandler::process: whether it returns a package.
FrameReady(b) ==
    /\ readableBytes(b) > HeaderBits
    /\ peekInt(b, Width) > 0
    /\ readableBytes(b) >= peekInt(b, Width) + HeaderBits

\* The package is a pointer into the buffer, good until something is appended:
\* the next handler reads what is there after both calls of retrieve().
Process ==
    /\ Assembled /\ ~crashed /\ FrameReady(buf)
    /\ LET size == peekInt(buf, Width)
           body == retrieve(buf, HeaderBits)
       IN  /\ buf' = retrieve(body, size)
           /\ handled' = Append(handled, SubSeq(buf'.bytes, body.r + 1, body.r + size))
    /\ UNCHANGED <<handlers, stream, frames, crashed>>

\* The data comes back with status FAILED.
ProcessFails ==
    /\ Assembled /\ ~crashed /\ ~FrameReady(buf)
    /\ crashed' = TRUE
    /\ UNCHANGED <<buf, handlers, stream, frames, handled>>

-----------------------------------------------------------------------------

PipelineNext ==
    \/ \E h \in Handlers : AddFirst(h) \/ AddLast(h)
    \/ \E p \in Payload : PeerSendsFrame(p)
    \/ \E n \in 1..Len(stream) : StreamRead(n)
    \/ Process
    \/ ProcessFails

PipelineSpec == PipelineInit /\ [][PipelineNext]_pipevars

-----------------------------------------------------------------------------
(* Properties *)

\* However the stream is cut into pieces and the content of the buffer moved,
\* the application's handler gets the payloads whole and in the order they were
\* sent; and process() fails only while a frame is incomplete or the next frame
\* is empty, which the header's check (size > 0) never lets through
\* (UnpackHandler::process, Buffer::peekInt32).
FramesInOrder ==
    /\ IsPrefix(handled, frames)
    /\ crashed => LET n == Len(handled) + 1
                  IN  \/ n > Len(frames)
                      \/ frames[n] = <<>>
                      \/ readableBytes(buf) < Len(Frame(frames[n]))
=============================================================================
