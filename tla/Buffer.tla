-------------------------------- MODULE Buffer --------------------------------
(***************************************************************************)
(* Buffer (src/src/net/Buffer.h, Buffer.cpp): bytes appended at the        *)
(* writer's index and retrieved at the reader's index of one vector, whose *)
(* content is moved to the front or which is resized when room is needed.  *)
(* The operations are operators on a record of the three fields; the       *)
(* actions are the calls of the interface on one buffer.                   *)
(*                                                                         *)
(* Scaled: a byte has Base values, an integer of n bytes is taken for      *)
(* Bits * n bytes when it is retrieved (64, 32, 16 and 8 where n is 8, 4,  *)
(* 2 and 1).                                                               *)
(***************************************************************************)
EXTENDS Integers, Sequences, SequencesExt

CONSTANTS Base,         \* values of a byte, 256
          Bits,         \* bits of a byte, 8
          InitialSize,  \* kInitialSize, 1024
          Extra,        \* gExtraBufferLen and readLen, 65536
          MaxContent    \* bound: readable bytes

ASSUME BufferAssumption ==
    /\ Base \in Nat \ {0, 1} /\ Bits \in Nat \ {0}
    /\ InitialSize \in Nat /\ Extra \in Nat /\ MaxContent \in Nat

\* That much of arithmetic the proofs need of the powers of Base.
ASSUME PowerAssumption == \A n \in 0..2 : Base^n \in Nat \ {0}

Byte == 0..(Base - 1)

VARIABLE buf            \* a buffer: _buffer, _readerIndex and _writerIndex

NewBuffer == [bytes |-> [i \in 1..InitialSize |-> 0], r |-> 0, w |-> 0]

readableBytes(b) == b.w - b.r
writableBytes(b) == Len(b.bytes) - b.w
prependableBytes(b) == b.r

\* What asString, asNetString and the retrieveAs... methods give.
Content(b) == SubSeq(b.bytes, b.r + 1, b.w)

-----------------------------------------------------------------------------
(* Retrieving *)

retrieveAll(b) == [b EXCEPT !.r = 0, !.w = 0]

\* The caller must not ask for more than is readable: an assertion.
retrieve(b, len) ==
    IF len < readableBytes(b) THEN [b EXCEPT !.r = @ + len] ELSE retrieveAll(b)

-----------------------------------------------------------------------------
(* Appending *)

makeSpaceNoCopy(b, len) ==
    IF writableBytes(b) + prependableBytes(b) < len
    THEN [b EXCEPT !.bytes = [i \in 1..(b.w + len) |-> IF i <= Len(@) THEN @[i] ELSE 0]]
    ELSE [b EXCEPT !.r = 0, !.w = readableBytes(b)]

\* Grow, keeping what is left in front of the content, or move the content to
\* the front.
makeSpace(b, len) ==
    IF writableBytes(b) + prependableBytes(b) < len
    THEN [b EXCEPT !.bytes = [i \in 1..(b.w + len) |-> IF i <= Len(@) THEN @[i] ELSE 0]]
    ELSE [bytes |-> [i \in 1..Len(b.bytes) |->
                       IF i <= readableBytes(b) THEN b.bytes[b.r + i] ELSE b.bytes[i]],
          r |-> 0, w |-> readableBytes(b)]

ensureWritableBytesLess(b, len) == IF writableBytes(b) + 1 < len THEN makeSpace(b, len) ELSE b

ensureWritableBytes(b, len) == IF writableBytes(b) < len THEN makeSpace(b, len) ELSE b

\* Bytes stored at beginWrite(), and the writer's index moved past them.
Store(b, data) ==
    [b EXCEPT !.bytes = [i \in 1..Len(@) |-> IF i > b.w /\ i <= b.w + Len(data)
                                             THEN data[i - b.w] ELSE @[i]],
              !.w = @ + Len(data)]

append(b, data) == Store(ensureWritableBytes(b, Len(data)), data)

\* readv() into the room that is left and, if that is short of Extra, into an
\* array on the stack, which is then appended.
ReadLimit(b) == writableBytes(b) + IF writableBytes(b) < Extra THEN Extra ELSE 0

readFd(b, data) ==
    LET n == writableBytes(b)
    IN  IF Len(data) <= n
        THEN Store(b, data)
        ELSE append(Store(b, SubSeq(data, 1, n)), SubSeq(data, n + 1, Len(data)))

\* recvfrom() for at most Extra bytes.
readFrom(b, data) == Store(ensureWritableBytes(b, Extra), data)

-----------------------------------------------------------------------------
(* Integers, in network order *)

IntBytesLittle(x, n) == [i \in 1..n |-> ((x % Base^n) \div Base^(i - 1)) % Base]

\* hostToNetwork: the most significant byte first, in two's complement.
IntBytes(x, n) == [i \in 1..n |-> ((x % Base^n) \div Base^(n - i)) % Base]

BigEndian(s) == FoldLeft(LAMBDA v, d : v * Base + d, 0, s)

\* networkToHost of the first n bytes, taken for a signed integer.
peekInt(b, n) ==
    LET u == BigEndian(SubSeq(Content(b), 1, n))
    IN  IF 2 * u < Base^n THEN u ELSE u - Base^n

appendInt(b, x, n) == append(b, IntBytes(x, n))

\* readInt64() and the others retrieve as many bytes as the integer has bits.
RetrieveInt(b, n) == retrieve(b, Bits * n)

-----------------------------------------------------------------------------
(* Calls of the interface *)

BufferInit == buf = NewBuffer

Fits(n) == readableBytes(buf) + n <= MaxContent

AppendData(data) == Fits(Len(data)) /\ buf' = append(buf, data)

AppendInt(x, n) == Fits(n) /\ buf' = appendInt(buf, x, n)

Retrieve(len) == len <= readableBytes(buf) /\ buf' = retrieve(buf, len)

ReadInt(n) == Bits * n <= readableBytes(buf) /\ buf' = RetrieveInt(buf, n)

RetrieveAll == buf' = retrieveAll(buf)

ReadFd(data) ==
    Fits(Len(data)) /\ Len(data) <= ReadLimit(buf) /\ buf' = readFd(buf, data)

ReadFrom(data) == Fits(Len(data)) /\ Len(data) <= Extra /\ buf' = readFrom(buf, data)

\* Data of every length up to the bound.
Data == UNION {[1..n -> {1, Base - 1}] : n \in 0..MaxContent}

BufferNext ==
    \/ \E data \in Data : AppendData(data) \/ ReadFd(data) \/ ReadFrom(data)
    \/ \E x \in {-1, 1}, n \in {1, 2} : AppendInt(x, n)
    \/ \E n \in {1, 2} : ReadInt(n)
    \/ \E len \in 0..MaxContent : Retrieve(len)
    \/ RetrieveAll

BufferSpec == BufferInit /\ [][BufferNext]_buf

-----------------------------------------------------------------------------
(* Properties *)

\* 0 <= readerIndex <= writerIndex <= size, as the class's comment draws it,
\* through every sequence of calls (Buffer::ensureWritableBytes, makeSpace,
\* readFd and readFrom move both indices and resize the vector).
IndexOrder ==
    /\ buf.bytes \in Seq(Byte)
    /\ buf.r \in Nat /\ buf.w \in Nat
    /\ buf.r <= buf.w /\ buf.w <= Len(buf.bytes)

\* The buffer is a queue of bytes: whatever a call does inside, it adds bytes
\* behind the content or takes bytes off its front, and moving and resizing do
\* not change the content (Buffer::append, retrieve, makeSpace, readFd, readFrom).
BufferIsQueue ==
    [][\/ IsPrefix(Content(buf), Content(buf'))
       \/ IsSuffix(Content(buf'), Content(buf))]_buf
=============================================================================
