-------------------------- MODULE TcpConnectionProofs --------------------------
(***************************************************************************)
(* A connection's stream and its notifications, however the application    *)
(* uses it, and what can end the program when it keeps to careful uses,    *)
(* for any set of messages and any interleaving of the loop thread, the    *)
(* other thread and the peer.                                              *)
(***************************************************************************)
EXTENDS TcpConnection, SequenceTheorems, TLAPS

-----------------------------------------------------------------------------
(* The inductive invariant for every use *)

DataTypes == output \in Seq(Units) /\ wire \in Seq(Units) /\ accepted \in Seq(Units)
LineTypes == /\ queue \in Seq(Functor) /\ batch \in Seq(Functor)
             /\ notes \in Seq({"up", "down"})

In(f, s) == \E i \in 1..Len(s) : s[i] = f

\* A callback, and in it at most one call that is under way
Stack ==
    {<<>>} \cup {<<a>> : a \in {"own", "down", "other"}}
           \cup {<<a, b>> : a \in {"own", "other"}, b \in {"down", "closing", "shutting"}}

\* The last connect change callback comes after the "down" it is for.
CallStack == frames \in Stack /\ (In("down", frames) => Len(notes) > 1)

\* Until onConnectEstablishedInLoop has run nothing but its functor is there,
\* and after it the functor never comes back.
Establishing ==
    IF notes = <<>>
      THEN /\ status = "kConnecting" /\ ~attached /\ ~writing /\ output = <<>>
           /\ user = "idle" /\ ~userRef /\ ~handling /\ polled = {} /\ ~pinned
           /\ frames = <<>> \/ frames = <<"other">>
           /\ \/ queue = <<F("establish")>> /\ batch = <<>>
              \/ queue = <<>> /\ batch = <<F("establish")>> /\ phase = "functors"
      ELSE /\ status # "kConnecting"
           /\ ~In(F("establish"), queue) /\ ~In(F("establish"), batch)

NoteInv ==
    /\ NotificationOrder /\ Establishing /\ CallStack
    /\ status = "kConnected" => Len(notes) = 1

IndInv == DataTypes /\ LineTypes /\ StreamIntegrity /\ NoteInv

-----------------------------------------------------------------------------
(* What it takes to stay without fault, given careful uses only *)

CarefulUses == {"send", "close", "shutdown", "stop", "closeUser", "writeFails"}

NoFault == fault = "none"

\* The loop thread is in a callback of another object.
InOther == frames # <<>> /\ frames[1] = "other"

\* Whoever is about to look at the socket finds it attached, or the connection
\* kept alive by what will remove it in the functors of this iteration.
EventsSafe ==
    /\ polled # {} \/ handling =>
           /\ alive /\ bound /\ phase = "events"
           /\ attached \/ In("down", frames) \/ In(F("remove"), queue)
    /\ polled \cap {"read", "close", "error"} # {} => attached /\ (frames = <<>> \/ InOther)
    /\ "close" \in polled => polled = {"close"}
    /\ InOther => ~handling /\ (In("closing", frames) => polled = {})

\* The server keeps a connection that is not closed, and is told of its end
\* unless it is closing it itself.
Owned ==
    /\ Len(notes) <= 1 => held /\ (bound \/ In("closing", frames))
    /\ In("shutting", frames) => attached
    /\ writing => attached

\* The functors on their way: none that shuts down or sends, none that removes
\* a connection that is not closed.
Harmless(q) ==
    /\ ~In(F("shutdown"), q) /\ \A m \in Msg : ~In(<<"send", m>>, q)
    /\ In(F("remove"), q) => Len(notes) > 1

Pending == Harmless(queue) /\ Harmless(batch) /\ (phase = "functors" \/ batch = <<>>)

\* A close() that began on the other thread comes to its closeInLoop.
Closing ==
    /\ user \in {"idle", "close", "closing"}
    /\ user # "idle" => userRef
    /\ status = "kDisconnecting" =>
           attached \/ user = "closing" \/ In(F("close"), queue) \/ In(F("close"), batch)

\* A destroyed connection is not heard of again.
Gone ==
    alive \/ /\ ~held /\ ~userRef /\ ~pinned /\ queue = <<>> /\ batch = <<>>
             /\ frames = <<>> \/ frames = <<"other">>

Careful == NoFault /\ EventsSafe /\ Owned /\ Pending /\ Closing /\ Gone

\* Every shutdown() on its way has its use, and unless the other thread makes
\* such calls the socket is shut down once: by the time it is, no further call
\* gets past the check of the status.
ShutdownUser == "shutdownUser" \in uses

Shutting ==
    /\ In("shutting", frames) => "shutdown" \in uses
    /\ \/ In(F("shutdown"), queue) \/ In(F("shutdown"), batch)
       \/ user \in {"shutdown", "shutting"}
       => ShutdownUser
    /\ fin => \/ ShutdownUser
              \/ status \notin {"kConnecting", "kConnected"} /\ ~In("shutting", frames)
    /\ fault = "abort" =>
          \/ peer \in {"reset", "dead"} /\ uses \cap {"shutdown", "shutdownUser"} # {}
          \/ peer = "closed" /\ ShutdownUser

-----------------------------------------------------------------------------
(* Lemmas on functors and sequences *)

\* The kinds of functors, and that they differ.
LEMMA FunctorFacts ==
    /\ \A k \in {"establish", "close", "shutdown", "complete", "remove"} :
          F(k) \in Functor /\ F(k) \in PlainFunctor
    /\ \A m \in Msg : <<"send", m>> \in Functor /\ <<"send", m>> \notin PlainFunctor
    /\ \A f \in Functor : f \notin PlainFunctor => \E m \in Msg : f = <<"send", m>>
    /\ \A j, k \in STRING : F(j) = F(k) => j = k
    /\ \A m \in Msg, k \in STRING : k # "send" => <<"send", m>> # F(k)
  BY DEF F, Functor, PlainFunctor, SendFunctor

\* A functor is queued behind the others.
LEMMA InAppend ==
    ASSUME NEW S, NEW s \in Seq(S), NEW e \in S, NEW f
    PROVE  /\ In(f, Append(s, e)) <=> (In(f, s) \/ f = e)
           /\ Append(s, e) \in Seq(S) /\ Len(Append(s, e)) = Len(s) + 1 /\ Append(s, e) # <<>>
  BY DEF In

\* What is left of a batch was in it.
LEMMA InTail ==
    ASSUME NEW S, NEW s \in Seq(S), s # <<>>, NEW f
    PROVE  /\ In(f, Tail(s)) => In(f, s)
           /\ In(f, s) => (f = Head(s) \/ In(f, Tail(s)))
           /\ Tail(s) \in Seq(S) /\ In(Head(s), s) /\ Head(s) \in S
  BY DEF In

\* Nothing is in an empty sequence.
LEMMA InEmpty == \A f : ~In(f, <<>>)
  BY DEF In

\* The sequences that are stacks.
LEMMA Shapes ==
    ASSUME NEW a, NEW b
    PROVE  /\ Len(<<>>) = 0 /\ Len(<<a>>) = 1 /\ Len(<<a, b>>) = 2
           /\ <<a>>[1] = a /\ <<a, b>>[1] = a /\ <<a, b>>[2] = b
           /\ <<a>> # <<>> /\ <<a, b>> # <<>>
           /\ SubSeq(<<a>>, 1, 0) = <<>> /\ SubSeq(<<a, b>>, 1, 1) = <<a>>
           /\ Append(<<>>, a) = <<a>> /\ Append(<<a>>, b) = <<a, b>>
           /\ \A f : ~In(f, <<>>) /\ (In(f, <<a>>) <=> f = a) /\ (In(f, <<a, b>>) <=> f = a \/ f = b)
  <1>1. SubSeq(<<a, b>>, 1, 1) = <<a>>
    <2> DEFINE g == SubSeq(<<a, b>>, 1, 1)
    <2>1. \A i \in 1..1 : <<a, b>>[i] \in {a}
      OBVIOUS
    <2>2. g \in Seq({a}) /\ Len(g) = 1 /\ \A i \in 1..1 : g[i] = a
      BY <2>1, SubSeqProperties
    <2> HIDE DEF g
    <2>3. g = <<a>>
      BY <2>2
    <2> QED BY <2>3 DEF g
  <1>2. \A f : ~In(f, <<>>) /\ (In(f, <<a>>) <=> f = a) /\ (In(f, <<a, b>>) <=> f = a \/ f = b)
    BY DEF In
  <1>3. /\ Len(<<>>) = 0 /\ Len(<<a>>) = 1 /\ Len(<<a, b>>) = 2
        /\ <<a>>[1] = a /\ <<a, b>>[1] = a /\ <<a, b>>[2] = b
        /\ <<a>> # <<>> /\ <<a, b>> # <<>>
    OBVIOUS
  <1>4. SubSeq(<<a>>, 1, 0) = <<>>
    BY SubSeqEmpty
  <1>5. Append(<<>>, a) = <<a>> /\ Append(<<a>>, b) = <<a, b>>
    <2> DEFINE g == Append(<<>>, a)
    <2> DEFINE h == Append(<<a>>, b)
    <2>1. /\ g \in Seq({a, b}) /\ Len(g) = 1 /\ g[1] = a
          /\ h \in Seq({a, b}) /\ Len(h) = 2 /\ h[1] = a /\ h[2] = b
      BY AppendProperties
    <2> HIDE DEF g, h
    <2>2. g = <<a>> /\ h = <<a, b>>
      BY <2>1
    <2> QED BY <2>2 DEF g, h
  <1> QED BY <1>1, <1>2, <1>3, <1>4, <1>5

\* What the top of a stack says about the rest.
LEMMA Stacks ==
    ASSUME frames \in Stack
    PROVE  /\ Top = "none" <=> frames = <<>>
           /\ Top \in {"own", "other"} => frames = <<Top>> /\ Pop = <<>>
           /\ Top = "down" => /\ In("down", frames)
                              /\ \/ frames = <<"down">> /\ Pop = <<>>
                                 \/ \E a \in {"own", "other"} : frames = <<a, "down">> /\ Pop = <<a>>
           /\ Top \in {"closing", "shutting"} =>
                 \E a \in {"own", "other"} : frames = <<a, Top>> /\ Pop = <<a>>
           /\ Top \in {"none", "own", "other", "down", "closing", "shutting"}
  <1>1. CASE frames = <<>>
    BY <1>1 DEF Top
  <1>2. ASSUME NEW a \in {"own", "down", "other"}, frames = <<a>>
        PROVE  Top = a /\ Pop = <<>> /\ frames # <<>> /\ In(a, frames)
    <2>1. Len(<<a>>) = 1 /\ <<a>>[1] = a /\ <<a>> # <<>> /\ SubSeq(<<a>>, 1, 0) = <<>> /\ In(a, <<a>>)
      BY Shapes
    <2> QED BY <1>2, <2>1 DEF Top, Pop
  <1>3. ASSUME NEW a \in {"own", "other"}, NEW b \in {"down", "closing", "shutting"}, frames = <<a, b>>
        PROVE  Top = b /\ Pop = <<a>> /\ frames # <<>> /\ In(b, frames)
    <2>1. /\ Len(<<a, b>>) = 2 /\ <<a, b>>[2] = b /\ <<a, b>> # <<>>
          /\ SubSeq(<<a, b>>, 1, 1) = <<a>> /\ In(b, <<a, b>>)
      BY Shapes
    <2> QED BY <1>3, <2>1 DEF Top, Pop
  <1> QED BY <1>1, <1>2, <1>3 DEF Stack

\* Stacks of one and of two frames.
LEMMA StackMembers ==
    /\ <<>> \in Stack /\ <<"own">> \in Stack /\ <<"other">> \in Stack /\ <<"down">> \in Stack
    /\ \A a \in {"own", "other"} : \A b \in {"down", "closing", "shutting"} :
          <<a>> \in Stack /\ <<a, b>> \in Stack
  BY DEF Stack

\* The stacks have the type of frames.
LEMMA StackTypes ==
    ASSUME NEW s \in Stack
    PROVE  s \in Seq(Frame) /\ Len(s) <= 2
  <1>1. CASE s = <<>>
    BY <1>1
  <1>2. ASSUME NEW a \in Frame, s = <<a>> PROVE s \in Seq(Frame) /\ Len(s) <= 2
    BY <1>2
  <1>3. ASSUME NEW a \in Frame, NEW b \in Frame, s = <<a, b>> PROVE s \in Seq(Frame) /\ Len(s) <= 2
    BY <1>3
  <1> QED BY <1>1, <1>2, <1>3 DEF Stack, Frame

\* Cutting a sequence in two loses nothing.
LEMMA Cut ==
    ASSUME NEW S, NEW s \in Seq(S), NEW k \in 0..Len(s)
    PROVE  /\ SubSeq(s, 1, k) \in Seq(S) /\ SubSeq(s, k + 1, Len(s)) \in Seq(S)
           /\ SubSeq(s, 1, k) \o SubSeq(s, k + 1, Len(s)) = s
           /\ k = 0 => SubSeq(s, 1, k) = <<>> /\ SubSeq(s, k + 1, Len(s)) = s
  <1>1. SubSeq(s, 1, k) \in Seq(S) /\ SubSeq(s, k + 1, Len(s)) \in Seq(S)
    BY SubSeqProperties
  <1>2. SubSeq(s, 1, Len(s)) = s
    BY SubSeqFull
  <1>3. SubSeq(s, 1, k) \o SubSeq(s, k + 1, Len(s)) = s
    <2>1. \A n \in Nat : \A j \in 0..n : 1 \in 1..n+1 /\ j \in 1-1..n /\ n \in j..n
      OBVIOUS
    <2>2. 1 \in 1..Len(s)+1 /\ k \in 1-1..Len(s) /\ Len(s) \in k..Len(s)
      BY <2>1, LenProperties
    <2> QED BY <1>2, <2>2, ConcatAdjacentSubSeq
  <1>4. ASSUME k = 0 PROVE SubSeq(s, 1, k) = <<>> /\ SubSeq(s, k + 1, Len(s)) = s
    <2>1. SubSeq(s, 1, 0) = <<>>
      BY SubSeqEmpty
    <2>2. k + 1 = 1
      BY <1>4
    <2> QED BY <1>2, <1>4, <2>1, <2>2, Zenon
  <1> QED BY <1>1, <1>3, <1>4, Zenon

\* Moving the front of a buffer to the end of what was written changes nothing.
LEMMA MoveFront ==
    ASSUME NEW S, NEW w \in Seq(S), NEW o \in Seq(S), NEW k \in 0..Len(o)
    PROVE  /\ (w \o SubSeq(o, 1, k)) \o SubSeq(o, k + 1, Len(o)) = w \o o
           /\ w \o SubSeq(o, 1, k) \in Seq(S) /\ SubSeq(o, k + 1, Len(o)) \in Seq(S)
  <1> DEFINE a == SubSeq(o, 1, k)
  <1> DEFINE b == SubSeq(o, k + 1, Len(o))
  <1>1. a \in Seq(S) /\ b \in Seq(S)
    BY Cut
  <1>2. a \o b = o
    BY Cut
  <1> HIDE DEF a, b
  <1>3. (w \o a) \o b = w \o (a \o b)
    BY <1>1, ConcatAssociative
  <1>4. w \o a \in Seq(S)
    BY <1>1, ConcatProperties
  <1> QED BY <1>1, <1>2, <1>3, <1>4 DEF a, b

\* A message is written in part or buffered in part, never out of order.
LEMMA SendKeepsStream ==
    ASSUME DataTypes, queue \in Seq(Functor), StreamIntegrity, NEW m \in Msg, SendInLoop(m)
    PROVE  /\ StreamIntegrity' /\ DataTypes'
           /\ peer' = peer \/ peer' = Fetched
           /\ writing \in BOOLEAN => writing' \in BOOLEAN
           /\ queue' \in Seq(Functor)
           /\ queue' = queue \/ queue' = Append(queue, F("complete"))
           /\ fault' = fault \/ (fault' = "nullLooper" /\ ~attached)
  <1> DEFINE units == <<<<m, 1>>, <<m, 2>>>>
  <1>1. units \in Seq(Units) /\ Len(units) = 2
    BY DEF Units
  <1> HIDE DEF units
  <1>2. CASE Direct /\ Broken
    <2>1. peer' = Fetched /\ UNCHANGED <<output, wire, accepted, writing, queue, fault>>
      BY <1>2 DEF SendInLoop, data
    <2> QED BY <2>1 DEF StreamIntegrity, DataTypes
  <1>3. CASE ~(Direct /\ Broken)
    <2>1. PICK k \in (IF Direct THEN 0..2 ELSE {0}) :
                 /\ wire' = wire \o SubSeq(units, 1, k)
                 /\ output' = output \o SubSeq(units, k + 1, 2)
                 /\ accepted' = accepted \o units
                 /\ writing' = (writing \/ k < 2)
                 /\ queue' = IF k < 2 THEN queue ELSE Append(queue, F("complete"))
                 /\ fault' = IF k < 2 /\ ~writing /\ ~attached THEN "nullLooper" ELSE fault
      BY <1>3 DEF SendInLoop, units
    <2>2. output \in Seq(Units) /\ wire \in Seq(Units) /\ accepted \in Seq(Units)
      BY DEF DataTypes
    <2>3. k \in 0..Len(units) /\ Len(units) = 2
      BY <1>1
    <2> DEFINE a == SubSeq(units, 1, k)
    <2> DEFINE b == SubSeq(units, k + 1, 2)
    <2>4. (wire \o a) \o b = wire \o units /\ wire \o a \in Seq(Units) /\ b \in Seq(Units)
      <3>1. /\ (wire \o SubSeq(units, 1, k)) \o SubSeq(units, k + 1, Len(units)) = wire \o units
            /\ wire \o SubSeq(units, 1, k) \in Seq(Units) /\ SubSeq(units, k + 1, Len(units)) \in Seq(Units)
        BY <1>1, <2>2, <2>3, MoveFront
      <3> QED BY <2>3, <3>1
    <2>5. k = 0 => a = <<>> /\ b = units
      BY <1>1, <2>3, Cut
    <2>6. wire' = wire \o a /\ output' = output \o b /\ accepted' = accepted \o units
      BY <2>1
    <2> HIDE DEF a, b
    <2>7. DataTypes'
      BY <1>1, <2>2, <2>4, <2>6, ConcatProperties DEF DataTypes
    <2>8. accepted' = wire' \o output'
      <3>1. CASE Direct
        <4>1. output = <<>> /\ accepted = wire
          BY <2>2, <3>1, ConcatEmptySeq DEF Direct, StreamIntegrity
        <4>2. output' = b
          BY <2>4, <2>6, <4>1, ConcatEmptySeq
        <4> QED BY <2>4, <2>6, <4>1, <4>2
      <3>2. CASE ~Direct
        <4>1. a = <<>> /\ b = units
          BY <2>1, <2>5, <3>2
        <4>2. wire' = wire
          BY <2>2, <2>6, <4>1, ConcatEmptySeq
        <4>3. (wire \o output) \o units = wire \o (output \o units)
          BY <1>1, <2>2, ConcatAssociative
        <4> QED BY <2>6, <4>1, <4>2, <4>3 DEF StreamIntegrity
      <3> QED BY <3>1, <3>2
    <2>9. queue' \in Seq(Functor)
      BY <2>1, FunctorFacts
    <2>10. (writing \in BOOLEAN => writing' \in BOOLEAN) /\ peer' = peer
      BY <1>3, <2>1 DEF SendInLoop
    <2> QED BY <2>1, <2>7, <2>8, <2>9, <2>10 DEF StreamIntegrity
  <1> QED BY <1>2, <1>3

\* What handleWriteInLoop writes comes off the front of the buffer.
LEMMA WriteKeepsStream ==
    ASSUME DataTypes, StreamIntegrity, NEW k \in 1..Len(output), accepted' = accepted,
           wire' = wire \o SubSeq(output, 1, k),
           output' = SubSeq(output, k + 1, Len(output))
    PROVE  StreamIntegrity' /\ output' \in Seq(Units) /\ wire' \in Seq(Units)
  <1>1. output \in Seq(Units) /\ wire \in Seq(Units) /\ k \in 0..Len(output)
    <2>1. output \in Seq(Units) /\ wire \in Seq(Units) /\ Len(output) \in Nat
      BY DEF DataTypes
    <2>2. \A n \in Nat : \A j \in 1..n : j \in 0..n
      OBVIOUS
    <2> QED BY <2>1, <2>2
  <1> QED BY <1>1, MoveFront, Zenon DEF StreamIntegrity

-----------------------------------------------------------------------------
(* Notifications *)

\* The state after TcpServer::newConnectionInLoop.
LEMMA InitIndInv == Init => IndInv
  <1> SUFFICES ASSUME Init PROVE IndInv
    OBVIOUS
  <1>1. DataTypes /\ StreamIntegrity
    BY DEF Init, DataTypes, StreamIntegrity
  <1>2. LineTypes
    BY FunctorFacts DEF Init, LineTypes
  <1>3. CallStack
    BY StackMembers, Shapes DEF Init, CallStack
  <1>4. NotificationOrder
    BY DEF Init, NotificationOrder
  <1>5. Establishing /\ (status = "kConnected" => Len(notes) = 1)
    BY DEF Init, Establishing
  <1> QED BY <1>1, <1>2, <1>3, <1>4, <1>5 DEF IndInv, NoteInv

\* Before "up" no code of the application has got hold of the connection.
LEMMA Started ==
    ASSUME NoteInv,
           \/ userRef \/ handling \/ user # "idle" \/ polled # {} \/ status # "kConnecting"
           \/ Top \in {"own", "down", "closing", "shutting"}
    PROVE  notes # <<>>
  <1> SUFFICES ASSUME notes = <<>> PROVE FALSE
    OBVIOUS
  <1>1. Establishing /\ CallStack
    BY DEF NoteInv
  <1>2. Top = "none" \/ Top = "other"
    <2>1. CASE frames = <<>>
      BY <2>1 DEF Top
    <2>2. CASE frames = <<"other">>
      BY <2>2, Shapes DEF Top
    <2> QED BY <1>1, <2>1, <2>2 DEF Establishing
  <1> QED BY <1>1, <1>2 DEF Establishing

\* A step that says nothing, after "up".
LEMMA Quiet ==
    ASSUME LineTypes, NoteInv, notes # <<>>, UNCHANGED <<status, attached, notes>>,
           frames' \in Stack, In("down", frames') => In("down", frames),
           In(F("establish"), queue') => In(F("establish"), queue) \/ In(F("establish"), batch),
           In(F("establish"), batch') => In(F("establish"), queue) \/ In(F("establish"), batch)
    PROVE  NoteInv'
  <1>1. NotificationOrder' /\ (status' = "kConnected" => Len(notes') = 1)
    BY DEF NoteInv, NotificationOrder
  <1>2. CallStack'
    BY DEF NoteInv, CallStack
  <1>3. Establishing'
    BY DEF NoteInv, Establishing
  <1> QED BY <1>1, <1>2, <1>3 DEF NoteInv

\* The same with the line of functors as it was, or one more in it.
LEMMA QuietLine ==
    ASSUME LineTypes, NoteInv, notes # <<>>, UNCHANGED <<status, attached, notes, batch>>,
           frames' \in Stack, In("down", frames') => In("down", frames),
           \/ queue' = queue
           \/ \E k \in {"close", "shutdown", "complete", "remove"} : queue' = Append(queue, F(k))
           \/ \E m \in Msg : queue' = Append(queue, <<"send", m>>)
    PROVE  NoteInv' /\ LineTypes'
  <1>1. queue' \in Seq(Functor) /\ (In(F("establish"), queue') => In(F("establish"), queue))
    <2>1. CASE queue' = queue
      BY <2>1 DEF LineTypes
    <2>2. ASSUME NEW f \in Functor, f # F("establish"), queue' = Append(queue, f)
          PROVE  queue' \in Seq(Functor) /\ (In(F("establish"), queue') => In(F("establish"), queue))
      BY <2>2, InAppend DEF LineTypes
    <2>3. \A k \in {"close", "shutdown", "complete", "remove"} : F(k) \in Functor /\ F(k) # F("establish")
      <3>1. F("close") # F("establish") /\ F("shutdown") # F("establish")
            /\ F("complete") # F("establish") /\ F("remove") # F("establish")
        BY DEF F
      <3> QED BY <3>1, FunctorFacts
    <2>4. \A m \in Msg : <<"send", m>> \in Functor /\ <<"send", m>> # F("establish")
      BY FunctorFacts
    <2> QED BY <2>1, <2>2, <2>3, <2>4
  <1>2. LineTypes'
    BY <1>1 DEF LineTypes
  <1> QED BY <1>1, <1>2, Quiet

\* closeInLoop says "down" behind "up" and takes the socket off the loop.
LEMMA SayDown ==
    ASSUME LineTypes, NoteInv, notes # <<>>, NEW under, CloseInLoop(under),
           Append(under, "down") \in Stack,
           queue' = queue, batch' = batch \/ (batch # <<>> /\ batch' = Tail(batch))
    PROVE  NoteInv' /\ LineTypes'
  <1>1. notes \in Seq({"up", "down"}) /\ \A i \in 1..Len(notes) : notes[i] = IF i = 1 THEN "up" ELSE "down"
    BY DEF LineTypes, NoteInv, NotificationOrder
  <1>2. notes' = Append(notes, "down") /\ Len(notes) \in Nat \ {0}
    BY <1>1 DEF CloseInLoop
  <1>3. /\ notes' \in Seq({"up", "down"}) /\ Len(notes') = Len(notes) + 1
        /\ \A i \in 1..Len(notes) : notes'[i] = notes[i]
        /\ notes'[Len(notes) + 1] = "down"
    BY <1>1, <1>2, AppendProperties
  <1>4. Len(notes') > 1 /\ notes' # <<>> /\ notes' # <<"up">>
    BY <1>2, <1>3
  <1>5. \A i \in 1..Len(notes') : notes'[i] = IF i = 1 THEN "up" ELSE "down"
    BY <1>1, <1>2, <1>3
  <1>6. NotificationOrder'
    BY <1>4, <1>5 DEF NotificationOrder, CloseInLoop
  <1>7. CallStack'
    BY <1>4 DEF CallStack, CloseInLoop
  <1>8. batch' \in Seq(Functor) /\ (In(F("establish"), batch') => In(F("establish"), batch))
    <2>1. batch \in Seq(Functor)
      BY DEF LineTypes
    <2>2. CASE batch # <<>> /\ batch' = Tail(batch)
      BY <2>1, <2>2, InTail
    <2> QED BY <2>1, <2>2
  <1>9. Establishing' /\ status' # "kConnected"
    BY <1>4, <1>8 DEF Establishing, NoteInv, CloseInLoop
  <1> QED BY <1>3, <1>6, <1>7, <1>8, <1>9 DEF NoteInv, LineTypes

\* Steps on the loop thread that call into the application, and its calls.
LEMMA CallbackNotes ==
    ASSUME IndInv, Callbacks
    PROVE  NoteInv' /\ LineTypes'
  <1> USE DEF sock, data, net, own, loop, line, app
  <1>0. LineTypes /\ DataTypes /\ StreamIntegrity /\ NoteInv /\ frames \in Stack
    BY DEF IndInv, NoteInv, CallStack
  <1>1. ASSUME status = "kConnected", Top \in {"own", "down", "other"}
        PROVE  /\ notes # <<>>
               /\ \E a \in {"own", "other"} :
                     /\ frames = <<a>>
                     /\ \A b \in {"closing", "shutting"} :
                           Append(frames, b) \in Stack /\ ~In("down", Append(frames, b))
    <2>1. Len(notes) = 1 /\ notes # <<>>
      BY <1>0, <1>1, Started DEF NoteInv
    <2>2. Top \in {"own", "other"}
      BY <1>0, <1>1, <2>1, Stacks DEF NoteInv, CallStack
    <2>3. frames = <<Top>>
      BY <1>0, <2>2, Stacks
    <2>4. \A b : Append(<<Top>>, b) = <<Top, b>> /\ (In("down", <<Top, b>>) <=> "down" = Top \/ "down" = b)
      BY Shapes
    <2> QED BY <2>1, <2>2, <2>3, <2>4, StackMembers
  <1>2. CASE OtherCallback
    <2>1. frames' = <<"other">> /\ frames = <<>>
          /\ UNCHANGED <<status, attached, writing, output, user, userRef, handling, polled, pinned,
                         phase, queue, batch, notes>>
      BY <1>2 DEF OtherCallback, LoopFree
    <2>2. ~In("down", frames') /\ frames' \in Stack
      BY <2>1, Shapes, StackMembers
    <2>3. LineTypes'
      BY <1>0, <2>1 DEF LineTypes
    <2>4. CallStack' /\ NotificationOrder' /\ (status' = "kConnected" => Len(notes') = 1)
      BY <1>0, <2>1, <2>2 DEF CallStack, NoteInv, NotificationOrder
    <2>5. Establishing'
      BY <1>0, <2>1 DEF Establishing, NoteInv
    <2> QED BY <2>3, <2>4, <2>5 DEF NoteInv
  <1>3. CASE CbClose
    <2>1. /\ status = "kConnected" /\ Top \in {"own", "down", "other"}
          /\ frames' = Append(frames, "closing")
          /\ UNCHANGED <<status, attached, queue, batch, notes>>
      BY <1>3 DEF CbClose, Calls
    <2> QED BY <1>0, <1>1, <2>1, QuietLine
  <1>4. CASE CbShutdown
    <2>1. /\ status = "kConnected" /\ Top \in {"own", "down", "other"}
          /\ frames' = Append(frames, "shutting")
          /\ UNCHANGED <<status, attached, queue, batch, notes>>
      BY <1>4 DEF CbShutdown, Calls
    <2> QED BY <1>0, <1>1, <2>1, QuietLine
  <1>5. CASE CbStop
    <2>1. UNCHANGED <<status, attached, writing, output, user, userRef, handling, polled, pinned,
                      phase, queue, batch, notes>>
      BY <1>5 DEF CbStop
    <2>2. CASE held /\ status = "kConnected"
      <3>1. Top \in {"own", "down", "other"} /\ frames' = Append(frames, "closing")
        BY <1>5, <2>2 DEF CbStop
      <3> QED BY <1>0, <1>1, <2>1, <2>2, <3>1, QuietLine
    <2>3. CASE ~(held /\ status = "kConnected")
      <3>1. frames' = frames
        BY <1>5, <2>3 DEF CbStop
      <3> QED
        BY <1>0, <2>1, <3>1 DEF NoteInv, LineTypes, NotificationOrder, Establishing, CallStack
    <2> QED BY <2>2, <2>3
  <1>6. ASSUME NEW m \in Msg, CbSend(m) PROVE NoteInv' /\ LineTypes'
    <2>1. SendInLoop(m) /\ Calls /\ UNCHANGED <<status, attached, notes, batch, frames>>
      BY <1>6 DEF CbSend
    <2>2. queue' = queue \/ queue' = Append(queue, F("complete"))
      BY <1>0, <2>1, SendKeepsStream DEF LineTypes
    <2>3. notes # <<>>
      BY <1>0, <2>1, Started DEF Calls
    <2> QED BY <1>0, <2>1, <2>2, <2>3, QuietLine
  <1> QED BY <1>2, <1>3, <1>4, <1>5, <1>6 DEF Callbacks

\* Calls and callbacks that go on or return.
LEMMA ProceedNotes ==
    ASSUME IndInv, CbCloseProceeds \/ CbShutdownProceeds \/ Return
    PROVE  NoteInv' /\ LineTypes'
  <1> USE DEF sock, data, net, own, loop, line, app
  <1>0. LineTypes /\ NoteInv /\ frames \in Stack
    BY DEF IndInv, NoteInv, CallStack
  <1>1. CASE CbCloseProceeds
    <2>1. Top = "closing" /\ CloseInLoop(Pop) /\ queue' = queue /\ batch' = batch
      BY <1>1 DEF CbCloseProceeds
    <2>2. PICK a \in {"own", "other"} : Pop = <<a>>
      BY <1>0, <2>1, Stacks
    <2>3. Append(Pop, "down") \in Stack
      <3>1. Append(<<a>>, "down") = <<a, "down">> /\ <<a, "down">> \in Stack
        BY Shapes, StackMembers
      <3> QED BY <2>2, <3>1
    <2>4. notes # <<>>
      BY <1>0, <2>1, Started
    <2> QED BY <1>0, <2>1, <2>3, <2>4, SayDown
  <1>2. CASE CbShutdownProceeds
    <2>1. /\ Top = "shutting" /\ frames' = Pop /\ status' = "kDisconnecting"
          /\ UNCHANGED <<attached, queue, batch, notes>>
      BY <1>2 DEF CbShutdownProceeds
    <2>2. PICK a \in {"own", "other"} : Pop = <<a>>
      BY <1>0, <2>1, Stacks
    <2>3. frames' \in Stack /\ ~In("down", frames')
      BY <2>1, <2>2, Shapes, StackMembers
    <2>4. notes # <<>>
      BY <1>0, <2>1, Started
    <2>5. CallStack' /\ NotificationOrder'
      BY <1>0, <2>1, <2>3 DEF CallStack, NotificationOrder, NoteInv
    <2>6. Establishing' /\ LineTypes' /\ status' # "kConnected"
      BY <1>0, <2>1, <2>4 DEF Establishing, NoteInv, LineTypes
    <2> QED BY <2>5, <2>6 DEF NoteInv
  <1>3. CASE Return
    <2>1. /\ Top \in {"own", "down", "other"} /\ frames' = Pop
          /\ queue' = (IF Top = "down" /\ bound THEN Append(queue, F("remove")) ELSE queue)
          /\ UNCHANGED <<status, attached, writing, output, user, userRef, handling, polled, pinned,
                         phase, batch, notes>>
      BY <1>3 DEF Return
    <2>2. frames' = <<>> \/ \E a \in {"own", "other"} : frames' = <<a>>
      BY <1>0, <2>1, Stacks
    <2>3. frames' \in Stack /\ ~In("down", frames')
      BY <2>2, Shapes, StackMembers
    <2>4. CASE notes # <<>>
      BY <1>0, <2>1, <2>3, <2>4, QuietLine
    <2>5. CASE notes = <<>>
      <3>1. Top = "other"
        BY <1>0, <2>1, <2>5, Started
      <3>2. frames' = <<>> /\ queue' = queue
        BY <1>0, <2>1, <3>1, Stacks
      <3>3. Establishing' /\ LineTypes' /\ NotificationOrder' /\ status' # "kConnected"
        BY <1>0, <2>1, <2>5, <3>2 DEF Establishing, NoteInv, LineTypes, NotificationOrder
      <3>4. CallStack'
        BY <2>3 DEF CallStack
      <3> QED BY <3>3, <3>4 DEF NoteInv
    <2> QED BY <2>4, <2>5
  <1> QED BY <1>1, <1>2, <1>3

Handling ==
    \/ Poll(FALSE) \/ Poll(TRUE) \/ PollHangup
    \/ HandleEvent \/ HandleHangup \/ HandleError \/ HandleRead \/ HandleWrite
    \/ HandleEventEnds

\* Polling, and the handlers of the socket's events.
LEMMA HandlingNotes ==
    ASSUME IndInv, Handling
    PROVE  NoteInv' /\ LineTypes'
  <1> USE DEF sock, data, net, own, loop, line, app
  <1>0. LineTypes /\ NoteInv /\ frames \in Stack
    BY DEF IndInv, NoteInv, CallStack
  <1>1. ASSUME NEW room \in BOOLEAN, Poll(room) PROVE NoteInv' /\ LineTypes'
    <2>1. /\ UNCHANGED <<status, attached, writing, output, user, userRef, handling, pinned,
                         queue, batch, notes, frames>>
          /\ room => writing
          /\ phase = "poll"
          /\ polled' = (IF attached /\ peer = "reset" THEN {"error"} ELSE {})
                  \cup (IF attached /\ (unread \/ peer # "open") THEN {"read"} ELSE {})
                  \cup (IF room THEN {"write"} ELSE {})
      BY <1>1 DEF Poll
    <2>2. CASE notes # <<>>
      BY <1>0, <2>1, <2>2, QuietLine
    <2>3. CASE notes = <<>>
      <3>1. polled' = {}
        BY <1>0, <2>1, <2>3 DEF NoteInv, Establishing
      <3>2. Establishing' /\ LineTypes' /\ NotificationOrder' /\ status' # "kConnected" /\ CallStack'
        BY <1>0, <2>1, <2>3, <3>1 DEF Establishing, NoteInv, LineTypes, NotificationOrder, CallStack
      <3> QED BY <3>2 DEF NoteInv
    <2> QED BY <2>2, <2>3
  <1>2. ASSUME handling \/ polled # {} \/ attached PROVE notes # <<>>
    <2>1. CASE attached
      <3>1. notes = <<"up">>
        BY <1>0, <2>1 DEF NoteInv, NotificationOrder
      <3> QED BY <3>1
    <2> QED BY <1>0, <1>2, <2>1, Started
  <1>3. CASE PollHangup \/ HandleEvent \/ HandleError \/ HandleEventEnds
    <2>1. /\ UNCHANGED <<status, attached, queue, batch, notes, frames>>
          /\ handling \/ polled # {} \/ attached
      BY <1>3 DEF PollHangup, HandleEvent, HandleError, HandleEventEnds
    <2> QED BY <1>0, <1>2, <2>1, QuietLine
  <1>4. ASSUME LoopFree, HandleClose, notes # <<>>, queue' = queue, batch' = batch
        PROVE  NoteInv' /\ LineTypes'
    <2>1. frames = <<>>
      BY <1>4 DEF LoopFree
    <2>2. Append(<<>>, "down") = <<"down">>
      BY Shapes
    <2>3. CASE CloseInLoop(frames)
      BY <1>0, <1>4, <2>1, <2>2, <2>3, StackMembers, SayDown
    <2>4. CASE UNCHANGED <<status, attached, notes, frames>>
      BY <1>0, <1>4, <2>4, QuietLine
    <2> QED BY <1>4, <2>3, <2>4 DEF HandleClose
  <1>5. CASE HandleHangup
    BY <1>2, <1>4, <1>5 DEF HandleHangup
  <1>6. ASSUME frames' = <<"own">> \/ frames' = frames, notes # <<>>,
               UNCHANGED <<status, attached, queue, batch, notes>>
        PROVE  NoteInv' /\ LineTypes'
    <2>1. <<"own">> \in Stack /\ ~In("down", <<"own">>)
      BY Shapes, StackMembers
    <2> QED BY <1>0, <1>6, <2>1, QuietLine
  <1>7. CASE HandleRead
    <2>1. notes # <<>> /\ LoopFree /\ queue' = queue /\ batch' = batch
      BY <1>2, <1>7 DEF HandleRead
    <2>2. \/ HandleClose
          \/ (frames' = <<"own">> \/ frames' = frames) /\ UNCHANGED <<status, attached, notes>>
      BY <1>7 DEF HandleRead
    <2> QED BY <1>4, <1>6, <2>1, <2>2
  <1>8. CASE HandleWrite
    <2>1. notes # <<>> /\ UNCHANGED <<status, attached, queue, batch, notes>>
      BY <1>2, <1>8 DEF HandleWrite
    <2>2. frames' = <<"own">> \/ frames' = frames
      BY <1>8 DEF HandleWrite
    <2> QED BY <1>6, <2>1, <2>2
  <1> QED BY <1>1, <1>3, <1>5, <1>7, <1>8 DEF Handling

Functors ==
    \/ SwapFunctors
    \/ RunEstablish \/ RunClose \/ RunShutdown \/ RunComplete \/ RunRemove
    \/ \E m \in Msg : RunSend(m)
    \/ BatchEnds

\* The functors of the loop.
LEMMA FunctorNotes ==
    ASSUME IndInv, Functors
    PROVE  NoteInv' /\ LineTypes'
  <1> USE DEF sock, data, net, own, loop, line, app
  <1>0. LineTypes /\ DataTypes /\ StreamIntegrity /\ NoteInv /\ frames \in Stack
    BY DEF IndInv, NoteInv, CallStack
  <1>1. CASE SwapFunctors
    <2>1. /\ batch' = queue /\ queue' = <<>>
          /\ UNCHANGED <<status, attached, writing, output, user, userRef, handling, polled, pinned,
                         notes, frames>>
      BY <1>1 DEF SwapFunctors
    <2>2. LineTypes' /\ ~In(F("establish"), <<>>)
      BY <1>0, <2>1, InEmpty DEF LineTypes
    <2>3. CASE notes # <<>>
      BY <1>0, <2>1, <2>2, <2>3, Quiet
    <2>4. CASE notes = <<>>
      <3>1. queue = <<F("establish")>> /\ batch = <<>>
        BY <1>0, <1>1, <2>4 DEF NoteInv, Establishing, SwapFunctors
      <3>2. phase' = "functors"
        BY <1>1 DEF SwapFunctors
      <3>3. Establishing' /\ NotificationOrder' /\ CallStack' /\ status' # "kConnected"
        BY <1>0, <2>1, <2>4, <3>1, <3>2 DEF NoteInv, Establishing, NotificationOrder, CallStack
      <3> QED BY <2>2, <3>3 DEF NoteInv
    <2> QED BY <2>3, <2>4
  <1>2. ASSUME NEW f, Execute(f)
        PROVE  /\ batch \in Seq(Functor) /\ batch # <<>> /\ frames = <<>> /\ batch' = Tail(batch)
               /\ batch' \in Seq(Functor) /\ f \in Functor
               /\ In(F("establish"), batch') => In(F("establish"), batch)
               /\ f # F("establish") => notes # <<>>
               /\ f = F("establish") => notes = <<>> /\ queue = <<>> /\ batch' = <<>>
    <2>1. batch \in Seq(Functor) /\ batch # <<>> /\ frames = <<>> /\ batch' = Tail(batch) /\ Head(batch) = f
      BY <1>0, <1>2 DEF Execute, LoopFree, LineTypes
    <2>2. /\ In(F("establish"), Tail(batch)) => In(F("establish"), batch)
          /\ Tail(batch) \in Seq(Functor) /\ In(f, batch) /\ f \in Functor
      BY <2>1, InTail
    <2>3. notes = <<>> => batch = <<F("establish")>> /\ queue = <<>>
      BY <1>0, <2>1 DEF NoteInv, Establishing
    <2>4. f = F("establish") => notes = <<>>
      BY <1>0, <2>2 DEF NoteInv, Establishing
    <2>5. Tail(<<F("establish")>>) = <<>> /\ Head(<<F("establish")>>) = F("establish")
      OBVIOUS
    <2> QED BY <2>1, <2>2, <2>3, <2>4, <2>5
  <1>3. ASSUME NEW f, Execute(f), f # F("establish"), UNCHANGED <<status, attached, notes>>,
               frames' = frames \/ frames' = <<"own">>,
               queue' = queue \/ queue' = Append(queue, F("complete"))
        PROVE  NoteInv' /\ LineTypes'
    <2>1. <<"own">> \in Stack /\ ~In("down", <<"own">>)
      BY Shapes, StackMembers
    <2>2. queue' \in Seq(Functor) /\ (In(F("establish"), queue') => In(F("establish"), queue))
      <3>1. queue \in Seq(Functor) /\ F("complete") \in Functor
        BY <1>0, FunctorFacts DEF LineTypes
      <3>2. F("complete") # F("establish")
        BY DEF F
      <3>3. CASE queue' = queue
        BY <3>1, <3>3
      <3>4. CASE queue' = Append(queue, F("complete"))
        BY <3>1, <3>2, <3>4, InAppend
      <3> QED BY <1>3, <3>3, <3>4
    <2>3. notes # <<>> /\ batch' \in Seq(Functor) /\ (In(F("establish"), batch') => In(F("establish"), batch))
      BY <1>2, <1>3
    <2>4. LineTypes'
      BY <1>0, <1>3, <2>2, <2>3 DEF LineTypes
    <2> QED BY <1>0, <1>3, <2>1, <2>2, <2>3, <2>4, Quiet
  <1>4. CASE RunEstablish
    <2>1. notes = <<>> /\ queue = <<>> /\ batch' = <<>>
      BY <1>2, <1>4 DEF RunEstablish
    <2>2. /\ status' = "kConnected" /\ attached' = TRUE /\ notes' = Append(<<>>, "up")
          /\ frames' = <<"own">> /\ queue' = <<>>
      BY <1>4, <2>1 DEF RunEstablish
    <2>3. notes' = <<"up">> /\ ~In("down", frames') /\ frames' \in Stack /\ Len(notes') = 1
      BY <2>2, Shapes, StackMembers
    <2>4. CallStack' /\ LineTypes' /\ Establishing'
      BY <2>1, <2>2, <2>3, InEmpty DEF CallStack, LineTypes, Establishing
    <2>5. NotificationOrder'
      BY <2>2, <2>3 DEF NotificationOrder
    <2> QED BY <2>3, <2>4, <2>5 DEF NoteInv
  <1>5. CASE RunClose
    <2>1. Execute(F("close")) /\ CloseInLoop(frames) /\ queue' = queue
      BY <1>5 DEF RunClose
    <2>2. F("close") # F("establish")
      BY DEF F
    <2>3. notes # <<>> /\ frames = <<>> /\ batch # <<>> /\ batch' = Tail(batch)
      BY <1>2, <2>1, <2>2
    <2>4. Append(<<>>, "down") = <<"down">>
      BY Shapes
    <2>5. Append(frames, "down") \in Stack
      BY <2>3, <2>4, StackMembers
    <2> QED BY <1>0, <2>1, <2>3, <2>5, SayDown
  <1>6. CASE RunShutdown \/ RunComplete \/ RunRemove
    <2>1. F("shutdown") # F("establish") /\ F("complete") # F("establish") /\ F("remove") # F("establish")
      BY DEF F
    <2>2. /\ Execute(F("shutdown")) \/ Execute(F("complete")) \/ Execute(F("remove"))
          /\ UNCHANGED <<status, attached, notes, queue>>
          /\ frames' = frames \/ frames' = <<"own">>
      BY <1>6 DEF RunShutdown, RunComplete, RunRemove
    <2> QED BY <1>3, <2>1, <2>2
  <1>7. ASSUME NEW m \in Msg, RunSend(m) PROVE NoteInv' /\ LineTypes'
    <2>1. Execute(<<"send", m>>) /\ UNCHANGED <<status, attached, notes, frames>>
      BY <1>7 DEF RunSend
    <2>2. queue' = queue \/ queue' = Append(queue, F("complete"))
      <3>1. CASE alive
        <4>1. SendInLoop(m)
          BY <1>7, <3>1 DEF RunSend
        <4> QED BY <1>0, <4>1, SendKeepsStream DEF LineTypes
      <3>2. CASE ~alive
        BY <1>7, <3>2 DEF RunSend
      <3> QED BY <3>1, <3>2
    <2>3. <<"send", m>> # F("establish")
      BY FunctorFacts
    <2> QED BY <1>3, <2>1, <2>2, <2>3
  <1>8. CASE BatchEnds
    <2>1. /\ batch = <<>>
          /\ UNCHANGED <<status, attached, writing, output, user, userRef, handling, polled,
                         queue, batch, notes, frames>>
          /\ pinned' = FALSE
      BY <1>8 DEF BatchEnds
    <2>2. CASE notes # <<>>
      BY <1>0, <2>1, <2>2, QuietLine
    <2>3. CASE notes = <<>>
      <3>1. Establishing' /\ NotificationOrder' /\ CallStack' /\ LineTypes' /\ status' # "kConnected"
        BY <1>0, <2>1, <2>3 DEF NoteInv, Establishing, NotificationOrder, CallStack, LineTypes
      <3> QED BY <3>1 DEF NoteInv
    <2> QED BY <2>2, <2>3
  <1> QED BY <1>1, <1>4, <1>5, <1>6, <1>7, <1>8 DEF Functors

\* The other thread, the end of the object and the peer.
LEMMA OutsideNotes ==
    ASSUME IndInv, UserThread \/ UserCalls \/ Destroy \/ Peer
    PROVE  NoteInv' /\ LineTypes'
  <1> USE DEF sock, data, net, own, loop, line, app
  <1>0. LineTypes /\ NoteInv /\ frames \in Stack
    BY DEF IndInv, NoteInv, CallStack
  <1>1. ASSUME userRef \/ user # "idle" PROVE notes # <<>>
    BY <1>0, <1>1, Started
  <1>2. CASE UserCalls
    <2>1. /\ userRef /\ UNCHANGED <<status, attached, notes, batch, frames>>
          /\ queue' = queue \/ \E m \in Msg : queue' = Append(queue, <<"send", m>>)
      BY <1>2 DEF UserCalls, DropRef, UserSend, UserChecks, UserFree
    <2> QED BY <1>0, <1>1, <2>1, QuietLine
  <1>3. CASE UserQueues
    <2>1. /\ user # "idle" /\ UNCHANGED <<status, attached, notes, batch, frames>>
          /\ queue' = Append(queue, F("close")) \/ queue' = Append(queue, F("shutdown"))
      BY <1>3 DEF UserQueues
    <2> QED BY <1>0, <1>1, <2>1, QuietLine
  <1>4. ASSUME NEW call \in {"close", "shutdown"}, UserChanges(call) PROVE NoteInv' /\ LineTypes'
    <2>1. /\ user # "idle" /\ status' = "kDisconnecting"
          /\ UNCHANGED <<attached, notes, queue, batch, frames>>
      BY <1>4 DEF UserChanges
    <2>2. notes # <<>>
      BY <1>1, <2>1
    <2>3. NotificationOrder' /\ CallStack' /\ LineTypes'
      BY <1>0, <2>1 DEF NoteInv, NotificationOrder, CallStack, LineTypes
    <2>4. Establishing' /\ status' # "kConnected"
      BY <1>0, <2>1, <2>2 DEF NoteInv, Establishing
    <2> QED BY <2>3, <2>4 DEF NoteInv
  <1>5. CASE Destroy \/ Peer
    <2>1. UNCHANGED <<status, attached, writing, output, user, userRef, handling, polled, pinned,
                      phase, queue, batch, notes, frames>>
      BY <1>5 DEF Destroy, Peer, PeerSend, PeerClose, PeerReset
    <2> QED BY <1>0, <2>1 DEF NoteInv, Establishing, NotificationOrder, CallStack, LineTypes
  <1> QED BY <1>2, <1>3, <1>4, <1>5 DEF UserThread

\* No step puts bytes out of order.
LEMMA StreamStep ==
    ASSUME IndInv, Next
    PROVE  StreamIntegrity' /\ DataTypes'
  <1> USE DEF sock, data, net, own, loop, line, app
  <1>0. DataTypes /\ StreamIntegrity /\ queue \in Seq(Functor)
    BY DEF IndInv, LineTypes
  <1>1. ASSUME UNCHANGED data PROVE StreamIntegrity' /\ DataTypes'
    BY <1>0, <1>1 DEF StreamIntegrity, DataTypes
  <1>2. ASSUME NEW m \in Msg, CbSend(m) PROVE StreamIntegrity' /\ DataTypes'
    <2>1. SendInLoop(m)
      BY <1>2 DEF CbSend
    <2> QED BY <1>0, <2>1, SendKeepsStream
  <1>3. ASSUME NEW m \in Msg, RunSend(m) PROVE StreamIntegrity' /\ DataTypes'
    <2>1. CASE alive
      <3>1. SendInLoop(m)
        BY <1>3, <2>1 DEF RunSend
      <3> QED BY <1>0, <3>1, SendKeepsStream
    <2>2. CASE ~alive
      BY <1>1, <1>3, <2>2 DEF RunSend
    <2> QED BY <2>1, <2>2
  <1>4. CASE HandleWrite
    <2>1. accepted' = accepted
      BY <1>4 DEF HandleWrite
    <2>2. ASSUME NEW k \in 1..Len(output),
                 wire' = wire \o SubSeq(output, 1, k),
                 output' = SubSeq(output, k + 1, Len(output))
          PROVE  StreamIntegrity' /\ DataTypes'
      BY <1>0, <2>1, <2>2, WriteKeepsStream DEF DataTypes
    <2>3. \/ UNCHANGED <<output, wire>>
          \/ \E k \in 1..Len(output) : /\ wire' = wire \o SubSeq(output, 1, k)
                                       /\ output' = SubSeq(output, k + 1, Len(output))
      BY <1>4 DEF HandleWrite
    <2> QED BY <1>1, <2>1, <2>2, <2>3
  <1>5. ASSUME \/ CbCloseProceeds \/ CbShutdownProceeds \/ Return
               \/ Poll(FALSE) \/ Poll(TRUE) \/ PollHangup
               \/ HandleEvent \/ HandleHangup \/ HandleError \/ HandleRead
               \/ HandleEventEnds \/ SwapFunctors
               \/ RunEstablish \/ RunClose \/ RunShutdown \/ RunComplete \/ RunRemove
               \/ BatchEnds \/ OtherCallback \/ CbClose \/ CbShutdown \/ CbStop
               \/ UserThread \/ UserCalls \/ Destroy \/ Peer
        PROVE  UNCHANGED data
    BY <1>5 DEF CbCloseProceeds, CbShutdownProceeds, Return, Poll, PollHangup, HandleEvent,
       HandleHangup, HandleError, HandleRead, HandleEventEnds, SwapFunctors, RunEstablish,
       RunClose, RunShutdown, RunComplete, RunRemove, BatchEnds, OtherCallback, CbClose,
       CbShutdown, CbStop, UserThread, UserQueues, UserChanges, UserCalls, DropRef, UserSend,
       UserChecks, Destroy, Peer, PeerSend, PeerClose, PeerReset
  <1> QED BY <1>1, <1>2, <1>3, <1>4, <1>5 DEF Next, LoopThread, Callbacks

\* No step breaks the invariant.
LEMMA NextIndInv == IndInv /\ [Next]_vars => IndInv'
  <1> SUFFICES ASSUME IndInv, [Next]_vars PROVE IndInv'
    OBVIOUS
  <1>1. CASE Next
    <2>1. NoteInv' /\ LineTypes'
      BY <1>1, CallbackNotes, ProceedNotes, HandlingNotes, FunctorNotes, OutsideNotes
      DEF Next, LoopThread, Handling, Functors
    <2> QED BY <1>1, <2>1, StreamStep DEF IndInv
  <1>2. CASE UNCHANGED vars
    BY <1>2 DEF vars, IndInv, DataTypes, LineTypes, StreamIntegrity, NoteInv, Establishing,
       NotificationOrder, CallStack
  <1> QED BY <1>1, <1>2

\* The inductive invariant holds throughout, whatever the application does.
THEOREM Invariance == Spec => []IndInv
  BY InitIndInv, NextIndInv, PTL DEF Spec

\* What was written and what is in the output buffer is what was accepted.
THEOREM StreamIsIntact == Spec => []StreamIntegrity
  BY Invariance, PTL DEF IndInv

\* "up" once and first, "down" only after the socket was taken off the loop.
THEOREM NotificationsInOrder == Spec => []NotificationOrder
  BY Invariance, PTL DEF IndInv, NoteInv

-----------------------------------------------------------------------------
(* Types *)

SocketFlags == attached \in BOOLEAN /\ writing \in BOOLEAN /\ fin \in BOOLEAN /\ unread \in BOOLEAN
OwnerFlags == alive \in BOOLEAN /\ held \in BOOLEAN /\ bound \in BOOLEAN /\ pinned \in BOOLEAN
LoopFlags == handling \in BOOLEAN /\ others \in BOOLEAN /\ userRef \in BOOLEAN
FlagTypes == SocketFlags /\ OwnerFlags /\ LoopFlags

StateTypes ==
    /\ status \in {"kConnecting", "kConnected", "kDisconnecting", "kDisconnected"}
    /\ peer \in {"open", "closed", "reset", "dead"}
    /\ server \in {"running", "stopping", "stopped"}
    /\ phase \in {"poll", "events", "functors"}
    /\ user \in {"idle", "close", "shutdown", "closing", "shutting"}
    /\ fault \in {"none", "status", "handling", "danglingFd", "danglingThis",
                   "nullLooper", "closeAssert", "abort"}

SetTypes == /\ polled \in SUBSET {"error", "read", "write", "close"}
            /\ sent \in SUBSET Msg /\ uses \in SUBSET Use

TypeParts == FlagTypes /\ StateTypes /\ SetTypes

\* sendInLoop, on the loop thread or from the functor.
LEMMA SendTypes ==
    ASSUME IndInv, FlagTypes, StateTypes, NEW m \in Msg, SendInLoop(m)
    PROVE  /\ writing' \in BOOLEAN /\ peer' \in {"open", "closed", "reset", "dead"}
           /\ fault' \in {"none", "status", "handling", "danglingFd", "danglingThis",
                           "nullLooper", "closeAssert", "abort"}
  <1>1. /\ peer' = peer \/ peer' = Fetched
        /\ writing' \in BOOLEAN
        /\ fault' = fault \/ fault' = "nullLooper"
    BY SendKeepsStream DEF IndInv, LineTypes, FlagTypes, SocketFlags
  <1> QED BY <1>1 DEF StateTypes, Fetched

\* The flags of the socket stay Booleans.
LEMMA SocketFlagStep ==
    ASSUME IndInv, FlagTypes, StateTypes, Next
    PROVE  SocketFlags'
  <1> USE DEF sock, data, net, own, loop, line, app, SocketFlags
  <1>0. SocketFlags
    BY DEF FlagTypes
  <1>1. CASE OtherCallback \/ CbClose \/ CbShutdown \/ CbStop
    BY <1>0, <1>1 DEF OtherCallback, CbClose, CbShutdown, CbStop
  <1>2. CASE CbCloseProceeds \/ CbShutdownProceeds \/ Return
    BY <1>0, <1>2 DEF CbCloseProceeds, CloseInLoop, CbShutdownProceeds, ShutdownSocket, Return
  <1>3. CASE Poll(FALSE) \/ Poll(TRUE) \/ PollHangup \/ HandleEvent \/ HandleError \/ HandleEventEnds
    BY <1>0, <1>3 DEF Poll, PollHangup, HandleEvent, HandleError, HandleEventEnds
  <1>4. CASE HandleHangup \/ HandleRead
    BY <1>0, <1>4 DEF HandleHangup, HandleRead, HandleClose, CloseInLoop
  <1>5. CASE SwapFunctors \/ BatchEnds
    BY <1>0, <1>5 DEF SwapFunctors, BatchEnds
  <1>6. CASE RunEstablish \/ RunClose \/ RunShutdown \/ RunComplete \/ RunRemove
    BY <1>0, <1>6 DEF Execute, RunEstablish, RunClose, CloseInLoop, RunShutdown, ShutdownSocket,
       RunComplete, RunRemove
  <1>7. CASE UserThread \/ UserCalls
    BY <1>0, <1>7 DEF UserThread, UserQueues, UserChanges, UserCalls, DropRef, UserSend, UserChecks
  <1>8. CASE Destroy \/ Peer
    BY <1>0, <1>8 DEF Destroy, Peer, PeerSend, PeerClose, PeerReset
  <1>9. ASSUME NEW m \in Msg, CbSend(m) PROVE SocketFlags'
    <2>1. SendInLoop(m) /\ UNCHANGED <<attached, fin, unread>>
      BY <1>9 DEF CbSend
    <2> QED BY <1>0, <2>1, SendTypes
  <1>10. CASE HandleWrite
    <2>1. UNCHANGED <<attached, fin, unread>>
      BY <1>10 DEF HandleWrite
    <2>2. \/ writing' = writing \/ writing' = FALSE
          \/ \E k \in 1..Len(output) : writing' = (k < Len(output))
      BY <1>10 DEF HandleWrite
    <2>3. ASSUME NEW k \in 1..Len(output), writing' = (k < Len(output))
          PROVE  writing' = TRUE \/ writing' = FALSE
      <3>1. CASE k < Len(output)
        <4>1. (k < Len(output)) = TRUE
          BY <3>1
        <4> QED BY <2>3, <4>1
      <3>2. CASE ~(k < Len(output))
        <4>1. (k < Len(output)) = FALSE
          BY <3>2
        <4> QED BY <2>3, <4>1
      <3> QED BY <3>1, <3>2
    <2>4. writing' \in BOOLEAN
      BY <1>0, <2>2, <2>3
    <2> QED BY <1>0, <2>1, <2>4
  <1>11. ASSUME NEW m \in Msg, RunSend(m) PROVE SocketFlags'
    <2>1. UNCHANGED <<attached, fin, unread>> /\ (SendInLoop(m) \/ UNCHANGED writing)
      BY <1>11 DEF RunSend
    <2> QED BY <1>0, <2>1, SendTypes
  <1> QED BY <1>1, <1>2, <1>3, <1>4, <1>5, <1>6, <1>7, <1>8, <1>9, <1>10, <1>11
      DEF Next, LoopThread, Callbacks

\* So do those about who keeps the connection,
LEMMA OwnerFlagStep ==
    ASSUME IndInv, FlagTypes, StateTypes, Next
    PROVE  OwnerFlags'
  <1> USE DEF sock, data, net, own, loop, line, app, OwnerFlags
  <1>0. OwnerFlags
    BY DEF FlagTypes
  <1>1. CASE OtherCallback \/ CbClose \/ CbShutdown \/ CbStop
    BY <1>0, <1>1 DEF OtherCallback, CbClose, CbShutdown, CbStop
  <1>2. CASE CbCloseProceeds \/ CbShutdownProceeds \/ Return
    BY <1>0, <1>2 DEF CbCloseProceeds, CloseInLoop, CbShutdownProceeds, ShutdownSocket, Return
  <1>3. CASE Poll(FALSE) \/ Poll(TRUE) \/ PollHangup \/ HandleEvent \/ HandleError \/ HandleEventEnds
    BY <1>0, <1>3 DEF Poll, PollHangup, HandleEvent, HandleError, HandleEventEnds
  <1>4. CASE HandleHangup \/ HandleRead
    BY <1>0, <1>4 DEF HandleHangup, HandleRead, HandleClose, CloseInLoop
  <1>5. CASE SwapFunctors \/ BatchEnds
    BY <1>0, <1>5 DEF SwapFunctors, BatchEnds
  <1>6. CASE RunEstablish \/ RunClose \/ RunShutdown \/ RunComplete \/ RunRemove
    BY <1>0, <1>6 DEF Execute, RunEstablish, RunClose, CloseInLoop, RunShutdown, ShutdownSocket,
       RunComplete, RunRemove
  <1>7. CASE UserThread \/ UserCalls
    BY <1>0, <1>7 DEF UserThread, UserQueues, UserChanges, UserCalls, DropRef, UserSend, UserChecks
  <1>8. CASE Destroy \/ Peer
    BY <1>0, <1>8 DEF Destroy, Peer, PeerSend, PeerClose, PeerReset
  <1>9. CASE \E m \in Msg : CbSend(m)
    BY <1>0, <1>9 DEF CbSend
  <1>10. CASE HandleWrite
    BY <1>0, <1>10 DEF HandleWrite
  <1>11. CASE \E m \in Msg : RunSend(m)
    BY <1>0, <1>11 DEF RunSend, Execute
  <1> QED BY <1>1, <1>2, <1>3, <1>4, <1>5, <1>6, <1>7, <1>8, <1>9, <1>10, <1>11
      DEF Next, LoopThread, Callbacks

\* and those of the loop.
LEMMA LoopFlagStep ==
    ASSUME IndInv, FlagTypes, StateTypes, Next
    PROVE  LoopFlags'
  <1> USE DEF sock, data, net, own, loop, line, app, LoopFlags
  <1>0. LoopFlags
    BY DEF FlagTypes
  <1>1. CASE OtherCallback \/ CbClose \/ CbShutdown \/ CbStop
    BY <1>0, <1>1 DEF OtherCallback, CbClose, CbShutdown, CbStop
  <1>2. CASE CbCloseProceeds \/ CbShutdownProceeds \/ Return
    BY <1>0, <1>2 DEF CbCloseProceeds, CloseInLoop, CbShutdownProceeds, ShutdownSocket, Return
  <1>3. CASE Poll(FALSE) \/ Poll(TRUE) \/ PollHangup \/ HandleEvent \/ HandleError \/ HandleEventEnds
    BY <1>0, <1>3 DEF Poll, PollHangup, HandleEvent, HandleError, HandleEventEnds
  <1>4. CASE HandleHangup \/ HandleRead
    BY <1>0, <1>4 DEF HandleHangup, HandleRead, HandleClose, CloseInLoop
  <1>5. CASE SwapFunctors \/ BatchEnds
    BY <1>0, <1>5 DEF SwapFunctors, BatchEnds
  <1>6. CASE RunEstablish \/ RunClose \/ RunShutdown \/ RunComplete \/ RunRemove
    BY <1>0, <1>6 DEF Execute, RunEstablish, RunClose, CloseInLoop, RunShutdown, ShutdownSocket,
       RunComplete, RunRemove
  <1>7. CASE UserThread \/ UserCalls
    BY <1>0, <1>7 DEF UserThread, UserQueues, UserChanges, UserCalls, DropRef, UserSend, UserChecks
  <1>8. CASE Destroy \/ Peer
    BY <1>0, <1>8 DEF Destroy, Peer, PeerSend, PeerClose, PeerReset
  <1>9. CASE \E m \in Msg : CbSend(m)
    BY <1>0, <1>9 DEF CbSend
  <1>10. CASE HandleWrite
    BY <1>0, <1>10 DEF HandleWrite
  <1>11. CASE \E m \in Msg : RunSend(m)
    BY <1>0, <1>11 DEF RunSend
  <1> QED BY <1>1, <1>2, <1>3, <1>4, <1>5, <1>6, <1>7, <1>8, <1>9, <1>10, <1>11
      DEF Next, LoopThread, Callbacks

\* The enumerations keep to their values.
LEMMA StateStep ==
    ASSUME IndInv, FlagTypes, StateTypes, Next
    PROVE  StateTypes'
  <1> USE DEF sock, data, net, own, loop, line, app, StateTypes
  <1>1. CASE OtherCallback \/ CbClose \/ CbShutdown
    BY <1>1 DEF OtherCallback, CbClose, CbShutdown
  <1>2. CASE CbStop
    BY <1>2 DEF CbStop
  <1>3. ASSUME NEW m \in Msg, CbSend(m) PROVE StateTypes'
    <2>1. SendInLoop(m) /\ UNCHANGED <<status, server, phase, user>>
      BY <1>3 DEF CbSend
    <2> QED BY <2>1, SendTypes
  <1>4. CASE CbCloseProceeds \/ CbShutdownProceeds \/ Return
    BY <1>4 DEF CbCloseProceeds, CloseInLoop, CbShutdownProceeds, ShutdownSocket, Return
  <1>5. CASE Poll(FALSE) \/ Poll(TRUE) \/ PollHangup \/ HandleEvent \/ HandleError \/ HandleEventEnds
    BY <1>5 DEF Poll, PollHangup, HandleEvent, HandleError, HandleEventEnds, Fetched
  <1>6. CASE HandleHangup \/ HandleRead
    BY <1>6 DEF HandleHangup, HandleRead, HandleClose, CloseInLoop, Fetched
  <1>7. CASE HandleWrite
    <2>1. /\ peer' = peer \/ peer' = Fetched
          /\ UNCHANGED <<status, server, phase, user, fault>>
      BY <1>7 DEF HandleWrite
    <2> QED BY <2>1 DEF Fetched
  <1>8. CASE SwapFunctors \/ BatchEnds
    BY <1>8 DEF SwapFunctors, BatchEnds
  <1>9. CASE RunEstablish \/ RunClose \/ RunShutdown \/ RunComplete \/ RunRemove
    BY <1>9 DEF RunEstablish, RunClose, CloseInLoop, RunShutdown, ShutdownSocket,
       RunComplete, RunRemove
  <1>10. ASSUME NEW m \in Msg, RunSend(m) PROVE StateTypes'
    <2>1. /\ UNCHANGED <<status, server, phase, user>>
          /\ SendInLoop(m) \/ (fault' = "danglingThis" /\ UNCHANGED peer)
      BY <1>10 DEF RunSend
    <2> QED BY <2>1, SendTypes
  <1>11. CASE UserThread \/ UserCalls
    BY <1>11 DEF UserThread, UserQueues, UserChanges, UserCalls, DropRef, UserSend, UserChecks
  <1>12. CASE Destroy \/ Peer
    BY <1>12 DEF Destroy, Peer, PeerSend, PeerClose, PeerReset
  <1> QED BY <1>1, <1>2, <1>3, <1>4, <1>5, <1>6, <1>7, <1>8, <1>9, <1>10, <1>11, <1>12
      DEF Next, LoopThread, Callbacks

\* Only known events are reported, and messages sent.
LEMMA SetStep ==
    ASSUME SetTypes, Next
    PROVE  SetTypes'
  <1> USE DEF sock, data, net, own, loop, line, app, SetTypes
  <1>1. CASE OtherCallback \/ CbClose \/ CbShutdown \/ CbStop \/ \E m \in Msg : CbSend(m)
    BY <1>1 DEF OtherCallback, CbClose, CbShutdown, CbStop, CbSend
  <1>2. CASE CbCloseProceeds \/ CbShutdownProceeds \/ Return
    BY <1>2 DEF CbCloseProceeds, CbShutdownProceeds, Return
  <1>3. CASE Poll(FALSE) \/ Poll(TRUE) \/ PollHangup
    BY <1>3 DEF Poll, PollHangup
  <1>4. CASE HandleEvent \/ HandleError \/ HandleEventEnds \/ HandleHangup \/ HandleRead \/ HandleWrite
    BY <1>4 DEF HandleEvent, HandleError, HandleEventEnds, HandleHangup, HandleRead, HandleWrite
  <1>5. CASE \/ SwapFunctors \/ BatchEnds
             \/ RunEstablish \/ RunClose \/ RunShutdown \/ RunComplete \/ RunRemove
             \/ \E m \in Msg : RunSend(m)
    BY <1>5 DEF SwapFunctors, BatchEnds, RunEstablish, RunClose, RunShutdown, RunComplete,
       RunRemove, RunSend
  <1>6. CASE UserThread \/ UserCalls \/ Destroy \/ Peer
    BY <1>6 DEF UserThread, UserQueues, UserChanges, UserCalls, DropRef, UserSend, UserChecks,
       Destroy, Peer, PeerSend, PeerClose, PeerReset
  <1> QED BY <1>1, <1>2, <1>3, <1>4, <1>5, <1>6 DEF Next, LoopThread, Callbacks

\* Every variable keeps its type, and calls nest no deeper than two.
THEOREM TypeCorrect == Spec => []TypeOK
  <1>1. Init => TypeParts
    <2> SUFFICES ASSUME Init PROVE TypeParts
      OBVIOUS
    <2>1. FlagTypes
      BY DEF Init, FlagTypes, SocketFlags, OwnerFlags, LoopFlags
    <2>2. StateTypes
      BY DEF Init, StateTypes
    <2>3. SetTypes
      BY ApplicationsAssumption DEF Init, SetTypes
    <2> QED BY <2>1, <2>2, <2>3 DEF TypeParts
  <1>2. IndInv /\ TypeParts /\ [Next]_vars => TypeParts'
    <2> SUFFICES ASSUME IndInv, TypeParts, [Next]_vars PROVE TypeParts'
      OBVIOUS
    <2>1. CASE Next
      BY <2>1, SocketFlagStep, OwnerFlagStep, LoopFlagStep, StateStep, SetStep DEF TypeParts, FlagTypes
    <2>2. CASE UNCHANGED vars
      <3>1. FlagTypes'
        BY <2>2 DEF vars, TypeParts, FlagTypes, SocketFlags, OwnerFlags, LoopFlags
      <3>2. StateTypes'
        BY <2>2 DEF vars, TypeParts, StateTypes
      <3>3. SetTypes'
        BY <2>2 DEF vars, TypeParts, SetTypes
      <3> QED BY <3>1, <3>2, <3>3 DEF TypeParts
    <2> QED BY <2>1, <2>2
  <1>3. IndInv /\ TypeParts => TypeOK
    <2> SUFFICES ASSUME IndInv, TypeParts PROVE TypeOK
      OBVIOUS
    <2>1. frames \in Seq(Frame) /\ Len(frames) <= 2
      BY StackTypes DEF IndInv, NoteInv, CallStack
    <2> QED BY <2>1 DEF IndInv, TypeParts, DataTypes, LineTypes, FlagTypes, SocketFlags,
             OwnerFlags, LoopFlags, StateTypes, SetTypes, TypeOK
  <1> QED BY <1>1, <1>2, <1>3, Invariance, PTL DEF Spec

-----------------------------------------------------------------------------
(* No fault, given careful uses *)

\* What the invariant says of an attached socket and of the status.
LEMMA Attached ==
    ASSUME IndInv, Careful
    PROVE  /\ frames \in Stack /\ Len(notes) \in Nat
           /\ attached => Len(notes) = 1 /\ notes # <<>> /\ held /\ alive
           /\ status = "kConnected" => attached /\ Len(notes) = 1
           /\ In("down", frames) => Len(notes) > 1 /\ ~attached
           /\ status = "kDisconnected" => Len(notes) > 1 /\ ~attached
           /\ In("closing", frames) \/ In("shutting", frames) => notes # <<>>
           /\ notes # <<>> => Len(notes) >= 1
  <1>1. frames \in Stack /\ notes \in Seq({"up", "down"}) /\ Len(notes) \in Nat
    BY DEF IndInv, LineTypes, NoteInv, CallStack
  <1>2. attached => Len(notes) = 1 /\ notes # <<>>
    BY DEF IndInv, NoteInv, NotificationOrder
  <1>3. attached => held /\ alive
    <2>1. Len(notes) = 1 => Len(notes) <= 1
      OBVIOUS
    <2>2. attached => held
      BY <1>2, <2>1 DEF Careful, Owned
    <2> QED BY <2>2 DEF Careful, Gone
  <1>4. status = "kConnected" => attached /\ Len(notes) = 1
    <2> SUFFICES ASSUME status = "kConnected" PROVE attached /\ Len(notes) = 1
      OBVIOUS
    <2>1. Len(notes) = 1
      BY DEF IndInv, NoteInv
    <2>2. notes[1] = "up"
      BY <2>1 DEF IndInv, NoteInv, NotificationOrder
    <2>3. notes = <<"up">>
      BY <1>1, <2>1, <2>2
    <2> QED BY <2>1, <2>3 DEF IndInv, NoteInv, NotificationOrder
  <1>5. In("down", frames) => Len(notes) > 1
    BY DEF IndInv, NoteInv, CallStack
  <1>6. status = "kDisconnected" => Len(notes) > 1
    BY DEF IndInv, NoteInv, NotificationOrder
  <1>7. Len(notes) > 1 => ~attached
    BY <1>1, <1>2
  <1>8. notes = <<>> => ~In("closing", frames) /\ ~In("shutting", frames)
    <2>1. notes = <<>> => frames = <<>> \/ frames = <<"other">>
      BY DEF IndInv, NoteInv, Establishing
    <2>2. \A f : ~In(f, <<>>) /\ (In(f, <<"other">>) <=> f = "other")
      BY Shapes
    <2> QED BY <2>1, <2>2
  <1>9. notes # <<>> => Len(notes) >= 1
    BY <1>1
  <1> QED BY <1>1, <1>2, <1>3, <1>4, <1>5, <1>6, <1>7, <1>8, <1>9

\* What the stacks consist of.
LEMMA FrameFacts ==
    ASSUME NEW a \in Frame, NEW b \in Frame
    PROVE  /\ \A f : ~In(f, <<>>) /\ (In(f, <<a>>) <=> f = a) /\ (In(f, <<a, b>>) <=> f = a \/ f = b)
           /\ <<a>> # <<>> /\ <<a, b>> # <<>> /\ <<a>>[1] = a /\ <<a, b>>[1] = a
           /\ Append(<<>>, a) = <<a>> /\ Append(<<a>>, b) = <<a, b>>
  BY Shapes

\* The functors that stay, after one more was queued.
LEMMA QueueMore ==
    ASSUME IndInv, Harmless(queue), notes' = notes,
           NEW k \in {"close", "complete", "remove"}, k = "remove" => Len(notes) > 1,
           queue' = Append(queue, F(k))
    PROVE  /\ Harmless(queue)'
           /\ In(F(k), queue')
           /\ In(F("close"), queue) => In(F("close"), queue')
           /\ In(F("remove"), queue) => In(F("remove"), queue')
  <1>1. queue \in Seq(Functor) /\ F(k) \in Functor
    BY FunctorFacts DEF IndInv, LineTypes
  <1>2. \A f : In(f, queue') <=> In(f, queue) \/ f = F(k)
    BY <1>1, InAppend
  <1>3. F("shutdown") # F(k) /\ \A m \in Msg : <<"send", m>> # F(k)
    BY DEF F
  <1>4. F("remove") = F(k) => k = "remove"
    BY DEF F
  <1>5. ~In(F("shutdown"), queue') /\ \A m \in Msg : ~In(<<"send", m>>, queue')
    BY <1>2, <1>3 DEF Harmless
  <1>6. In(F("remove"), queue') => Len(notes') > 1
    BY <1>2, <1>4 DEF Harmless
  <1> QED BY <1>2, <1>5, <1>6 DEF Harmless

\* The functors are left alone.
LEMMA QueueSame ==
    ASSUME Pending, UNCHANGED <<queue, batch, phase>>, notes' = notes \/ Len(notes') > 1
    PROVE  Pending'
  BY DEF Pending, Harmless

\* The application, on the loop thread.
LEMMA CarefulCallbacks ==
    ASSUME IndInv, Careful, uses \subseteq CarefulUses, Callbacks
    PROVE  Careful'
  <1> USE DEF sock, data, net, own, loop, line, app
  <1>0. NoFault /\ EventsSafe /\ Owned /\ Pending /\ Closing /\ Gone
    BY DEF Careful
  <1>1. CASE OtherCallback
    <2>1. /\ frames = <<>> /\ frames' = <<"other">> /\ ~handling /\ alive
          /\ UNCHANGED <<status, attached, writing, alive, held, bound, queue, batch, pinned, phase,
                         polled, handling, user, userRef, fault, notes>>
      BY <1>1 DEF OtherCallback, LoopFree
    <2>2. \A f : ~In(f, <<>>) /\ (In(f, <<"other">>) <=> f = "other")
      BY Shapes
    <2>3. EventsSafe'
      <3>1. InOther' /\ ~handling' /\ ~In("closing", frames')
        BY <2>1, <2>2, Shapes DEF InOther
      <3> QED BY <1>0, <2>1, <2>2, <3>1 DEF EventsSafe
    <2>4. Owned'
      BY <1>0, <2>1, <2>2 DEF Owned
    <2>5. Pending'
      BY <1>0, <2>1, QueueSame
    <2>6. NoFault' /\ Closing' /\ Gone'
      BY <1>0, <2>1 DEF NoFault, Closing, Gone
    <2> QED BY <2>3, <2>4, <2>5, <2>6 DEF Careful
  <1>2. ASSUME NEW m \in Msg, CbSend(m) PROVE Careful'
    <2>1. status = "kConnected"
      BY <1>2 DEF CbSend, CarefulUses
    <2>2. attached /\ alive
      BY <2>1, Attached
    <2>3. /\ SendInLoop(m)
          /\ UNCHANGED <<status, attached, alive, held, bound, batch, pinned, phase,
                         polled, handling, user, userRef, frames, notes>>
      BY <1>2 DEF CbSend
    <2>4. (queue' = queue \/ queue' = Append(queue, F("complete"))) /\ fault' = fault
      BY <2>2, <2>3, SendKeepsStream DEF IndInv, LineTypes
    <2>5. /\ Harmless(queue)'
          /\ In(F("close"), queue) => In(F("close"), queue')
          /\ In(F("remove"), queue) => In(F("remove"), queue')
      <3>1. CASE queue' = queue
        BY <1>0, <2>3, <3>1 DEF Pending, Harmless
      <3>2. CASE queue' = Append(queue, F("complete"))
        BY <1>0, <2>3, <3>2, QueueMore DEF Pending
      <3> QED BY <2>4, <3>1, <3>2
    <2>6. EventsSafe'
      BY <1>0, <2>2, <2>3 DEF EventsSafe, InOther
    <2>7. Owned' /\ Closing'
      BY <1>0, <2>2, <2>3, <2>5 DEF Owned, Closing
    <2>8. Pending'
      BY <1>0, <2>3, <2>5 DEF Pending, Harmless
    <2>9. NoFault' /\ Gone'
      BY <1>0, <2>2, <2>3, <2>4 DEF NoFault, Gone
    <2> QED BY <2>6, <2>7, <2>8, <2>9 DEF Careful
  <1>3. CASE CbClose
    <2>1. /\ status = "kConnected" /\ frames' = Append(frames, "closing")
          /\ UNCHANGED <<status, attached, writing, alive, held, bound, queue, batch, pinned, phase,
                         polled, handling, user, userRef, fault, notes>>
          /\ Top \in {"own", "down", "other"}
      BY <1>3 DEF CbClose, Calls
    <2>2. Top = "other" => polled = {}
      BY <1>3 DEF CbClose, CarefulUses
    <2>3. attached /\ alive /\ ~In("down", frames) /\ frames \in Stack
      BY <2>1, Attached
    <2>4. PICK a \in {"own", "other"} : a = Top /\ frames = <<a>>
      BY <2>1, <2>3, Stacks
    <2>5. frames' = <<a, "closing">>
      BY <2>1, <2>4, FrameFacts DEF Frame
    <2>6. \A f : (In(f, <<a>>) <=> f = a) /\ (In(f, <<a, "closing">>) <=> f = a \/ f = "closing")
      BY FrameFacts DEF Frame
    <2>7. (InOther <=> a = "other") /\ (InOther' <=> a = "other") /\ frames # <<>>
      BY <2>4, <2>5, FrameFacts DEF InOther, Frame
    <2>8. EventsSafe'
      BY <1>0, <2>1, <2>2, <2>3, <2>4, <2>7 DEF EventsSafe
    <2>9. Owned'
      BY <1>0, <2>1, <2>3, <2>5, <2>6 DEF Owned
    <2>10. Pending'
      BY <1>0, <2>1, QueueSame
    <2>11. NoFault' /\ Closing' /\ Gone'
      BY <1>0, <2>1, <2>3 DEF NoFault, Closing, Gone
    <2> QED BY <2>8, <2>9, <2>10, <2>11 DEF Careful
  <1>4. CASE CbShutdown
    <2>1. /\ status = "kConnected" /\ frames' = Append(frames, "shutting")
          /\ UNCHANGED <<status, attached, writing, alive, held, bound, queue, batch, pinned, phase,
                         polled, handling, user, userRef, fault, notes>>
          /\ Top \in {"own", "down", "other"}
      BY <1>4 DEF CbShutdown, Calls
    <2>3. attached /\ alive /\ ~In("down", frames) /\ frames \in Stack
      BY <2>1, Attached
    <2>4. PICK a \in {"own", "other"} : a = Top /\ frames = <<a>>
      BY <2>1, <2>3, Stacks
    <2>5. frames' = <<a, "shutting">>
      BY <2>1, <2>4, FrameFacts DEF Frame
    <2>6. \A f : (In(f, <<a>>) <=> f = a) /\ (In(f, <<a, "shutting">>) <=> f = a \/ f = "shutting")
      <3>1. a \in Frame /\ "shutting" \in Frame
        BY DEF Frame
      <3> QED BY <3>1, FrameFacts
    <2>7. (InOther <=> a = "other") /\ (InOther' <=> a = "other") /\ frames # <<>>
      BY <2>4, <2>5, FrameFacts DEF InOther, Frame
    <2>8. ~In("closing", frames) /\ ~In("closing", frames')
      BY <2>4, <2>5, <2>6
    <2>9. EventsSafe'
      BY <1>0, <2>1, <2>3, <2>7, <2>8 DEF EventsSafe
    <2>10. Owned'
      BY <1>0, <2>1, <2>3, <2>8 DEF Owned
    <2>11. Pending'
      BY <1>0, <2>1, QueueSame
    <2>12. NoFault' /\ Closing' /\ Gone'
      BY <1>0, <2>1, <2>3 DEF NoFault, Closing, Gone
    <2> QED BY <2>9, <2>10, <2>11, <2>12 DEF Careful
  <1>5. CASE CbStop
    <2>1. /\ Top = "other" /\ polled = {} /\ status \in {"kConnected", "kDisconnected"}
          /\ UNCHANGED <<status, attached, writing, alive, queue, batch, pinned, phase,
                         polled, handling, user, userRef, fault, notes>>
      BY <1>5 DEF CbStop, CarefulUses
    <2>2. frames = <<"other">> /\ InOther
      BY <2>1, Attached, Stacks, FrameFacts DEF InOther, Frame
    <2>3. ~handling
      BY <1>0, <2>2 DEF EventsSafe
    <2>4. \A f : /\ In(f, <<"other">>) <=> f = "other"
                 /\ In(f, <<"other", "closing">>) <=> f = "other" \/ f = "closing"
      BY FrameFacts DEF Frame
    <2>5. EventsSafe'
      BY <2>1, <2>3 DEF EventsSafe
    <2>6. Pending'
      BY <1>0, <2>1, QueueSame
    <2>7. NoFault' /\ Closing'
      BY <1>0, <2>1 DEF NoFault, Closing
    <2>8. CASE held /\ status = "kConnected"
      <3>1. held' = held /\ frames' = Append(frames, "closing")
        BY <1>5, <2>8 DEF CbStop
      <3>2. frames' = <<"other", "closing">>
        BY <2>2, <3>1, FrameFacts DEF Frame
      <3>3. attached /\ alive
        BY <2>8, Attached
      <3>4. Owned'
        BY <2>1, <2>4, <2>8, <3>1, <3>2, <3>3 DEF Owned
      <3>5. Gone'
        BY <2>1, <3>3 DEF Gone
      <3> QED BY <2>5, <2>6, <2>7, <3>4, <3>5 DEF Careful
    <2>9. CASE ~(held /\ status = "kConnected")
      <3>1. held' = FALSE /\ frames' = frames
        BY <1>5, <2>9 DEF CbStop
      <3>2. Len(notes) > 1 /\ Len(notes) \in Nat /\ ~attached
        BY <1>0, <2>1, <2>9, Attached
      <3>3. Owned'
        BY <1>0, <2>1, <3>1, <3>2 DEF Owned
      <3>4. Gone'
        BY <1>0, <2>1, <3>1 DEF Gone
      <3> QED BY <2>5, <2>6, <2>7, <3>3, <3>4 DEF Careful
    <2> QED BY <2>8, <2>9
  <1> QED BY <1>1, <1>2, <1>3, <1>4, <1>5 DEF Callbacks

\* The calls and callbacks under way on the loop thread go on.
LEMMA CarefulProceeds ==
    ASSUME IndInv, Careful, CbCloseProceeds \/ CbShutdownProceeds \/ Return
    PROVE  Careful' \/ fault' = "abort"
  <1> USE DEF sock, data, net, own, loop, line, app
  <1>0. NoFault /\ EventsSafe /\ Owned /\ Pending /\ Closing /\ Gone /\ frames \in Stack
    BY Attached DEF Careful
  <1>1. CASE CbCloseProceeds
    <2>1. /\ Top = "closing" /\ frames' = Append(Pop, "down") /\ notes' = Append(notes, "down")
          /\ ~attached' /\ ~writing' /\ status' = "kDisconnected"
          /\ UNCHANGED <<alive, held, bound, queue, batch, pinned, phase,
                         polled, handling, user, userRef, fault>>
      BY <1>1 DEF CbCloseProceeds, CloseInLoop
    <2>2. PICK a \in {"own", "other"} : frames = <<a, "closing">> /\ Pop = <<a>>
      BY <1>0, <2>1, Stacks
    <2>3. frames' = <<a, "down">>
      <3>1. a \in Frame /\ "down" \in Frame
        BY DEF Frame
      <3>2. Append(<<a>>, "down") = <<a, "down">>
        BY <3>1, FrameFacts
      <3> QED BY <2>1, <2>2, <3>2
    <2>4. \A f : /\ In(f, <<a, "closing">>) <=> (f = a \/ f = "closing")
                 /\ In(f, <<a, "down">>) <=> (f = a \/ f = "down")
      <3>1. \A f : In(f, <<a, "closing">>) <=> (f = a \/ f = "closing")
        <4>1. a \in Frame /\ "closing" \in Frame
          BY DEF Frame
        <4> QED BY <4>1, FrameFacts
      <3>2. \A f : In(f, <<a, "down">>) <=> (f = a \/ f = "down")
        BY FrameFacts DEF Frame
      <3> QED BY <3>1, <3>2
    <2>5. (InOther <=> a = "other") /\ (InOther' <=> a = "other") /\ frames # <<>>
      BY <2>2, <2>3, FrameFacts DEF InOther, Frame
    <2>6. Len(notes) \in Nat /\ Len(notes) >= 1
      BY <2>2, <2>4, Attached
    <2>7. Len(notes') > 1
      BY <2>1, <2>6 DEF IndInv, LineTypes
    <2>8. EventsSafe'
      <3>1. CASE a = "other"
        BY <1>0, <2>1, <2>2, <2>4, <2>5, <3>1 DEF EventsSafe
      <3>2. CASE a = "own"
        <4>1. polled \cap {"read", "close", "error"} = {}
          BY <1>0, <2>5, <3>2 DEF EventsSafe
        <4> QED BY <1>0, <2>1, <2>3, <2>4, <2>5, <3>2, <4>1 DEF EventsSafe
      <3> QED BY <3>1, <3>2
    <2>9. Owned'
      <3>1. ~In("shutting", frames')
        BY <2>3, <2>4
      <3>2. ~(Len(notes') <= 1)
        <4>1. Len(notes') = Len(notes) + 1
          BY <2>1 DEF IndInv, LineTypes
        <4> QED BY <2>6, <4>1
      <3> QED BY <2>1, <3>1, <3>2 DEF Owned
    <2>10. Pending'
      BY <1>0, <2>1, <2>7, QueueSame
    <2>11. alive
      BY <1>0, <2>2, <2>4, FrameFacts DEF Gone, Frame
    <2>12. NoFault' /\ Closing' /\ Gone'
      BY <1>0, <2>1, <2>11 DEF NoFault, Closing, Gone
    <2> QED BY <2>8, <2>9, <2>10, <2>12 DEF Careful
  <1>2. ASSUME CbShutdownProceeds, fault' # "abort" PROVE Careful'
    <2>1. /\ Top = "shutting" /\ frames' = Pop
          /\ UNCHANGED <<attached, writing, alive, held, bound, queue, batch, pinned, phase,
                         polled, handling, user, userRef, fault, notes>>
      BY <1>2 DEF CbShutdownProceeds, ShutdownSocket
    <2>2. PICK a \in {"own", "other"} : frames = <<a, "shutting">> /\ Pop = <<a>>
      BY <1>0, <2>1, Stacks
    <2>4. \A f : (In(f, <<a, "shutting">>) <=> f = a \/ f = "shutting") /\ (In(f, <<a>>) <=> f = a)
      <3>1. a \in Frame /\ "shutting" \in Frame
        BY DEF Frame
      <3> QED BY <3>1, FrameFacts
    <2>5. (InOther <=> a = "other") /\ (InOther' <=> a = "other") /\ frames # <<>>
      BY <2>1, <2>2, FrameFacts DEF InOther, Frame
    <2>6. attached /\ alive
      BY <1>0, <2>2, <2>4, Attached DEF Owned
    <2>7. ~In("closing", frames) /\ ~In("closing", frames')
      BY <2>1, <2>2, <2>4
    <2>8. EventsSafe'
      BY <1>0, <2>1, <2>5, <2>6, <2>7 DEF EventsSafe
    <2>9. Owned'
      BY <1>0, <2>1, <2>6, <2>7 DEF Owned
    <2>10. Pending'
      BY <1>0, <2>1, QueueSame
    <2>11. NoFault' /\ Closing' /\ Gone'
      BY <1>0, <2>1, <2>6 DEF NoFault, Closing, Gone
    <2> QED BY <2>8, <2>9, <2>10, <2>11 DEF Careful
  <1>3. CASE Return
    <2>1. /\ Top \in {"own", "down", "other"} /\ frames' = Pop
          /\ UNCHANGED <<status, attached, writing, alive, bound, batch, pinned, phase,
                         polled, handling, user, userRef, fault, notes>>
      BY <1>3 DEF Return
    <2>2. PICK a \in {"none", "own", "other"} :
                 /\ frames' = IF a = "none" THEN <<>> ELSE <<a>>
                 /\ \/ Top = "down" /\ frames = (IF a = "none" THEN <<"down">> ELSE <<a, "down">>)
                    \/ Top # "down" /\ a = "none" /\ frames = <<Top>>
      BY <1>0, <2>1, Stacks
    <2>3. \A f : In(f, frames') <=> a # "none" /\ f = a
      BY <2>2, FrameFacts DEF Frame
    <2>4. InOther' <=> a = "other"
      BY <2>2, FrameFacts DEF Frame, InOther
    <2>5. a = "other" => InOther
      BY <2>2, FrameFacts DEF Frame, InOther
    <2>6. CASE Top = "down"
      <3>1. In("down", frames) /\ Len(notes) > 1 /\ Len(notes) \in Nat /\ ~attached
        BY <1>0, <2>6, Stacks, Attached
      <3>2. queue' = IF bound THEN Append(queue, F("remove")) ELSE queue
        BY <1>3, <2>6 DEF Return
      <3>3. /\ Harmless(queue)'
            /\ In(F("close"), queue) => In(F("close"), queue')
            /\ bound => In(F("remove"), queue')
        <4>1. CASE bound
          BY <1>0, <2>1, <3>1, <3>2, <4>1, QueueMore DEF Pending
        <4>2. CASE ~bound
          BY <1>0, <2>1, <3>2, <4>2 DEF Pending, Harmless
        <4> QED BY <4>1, <4>2
      <3>4. alive
        <4>1. "down" # "other" /\ frames # <<>> /\ frames # <<"other">>
          BY <2>2, <2>6, <3>1, FrameFacts DEF Frame
        <4> QED BY <1>0, <4>1 DEF Gone
      <3>5. EventsSafe'
        BY <1>0, <2>1, <2>3, <2>4, <2>5, <3>1, <3>3 DEF EventsSafe
      <3>6. Owned'
        BY <1>0, <2>1, <2>3, <3>1 DEF Owned
      <3>7. Pending'
        BY <1>0, <2>1, <3>3 DEF Pending, Harmless
      <3>8. NoFault' /\ Closing' /\ Gone'
        BY <1>0, <2>1, <3>3, <3>4 DEF NoFault, Closing, Gone
      <3> QED BY <3>5, <3>6, <3>7, <3>8 DEF Careful
    <2>7. CASE Top # "down"
      <3>1. UNCHANGED <<held, queue>> /\ frames' = <<>>
        BY <1>3, <2>2, <2>7 DEF Return
      <3>2. ~In("down", frames) /\ ~In("closing", frames)
        BY <2>1, <2>2, <2>7, FrameFacts DEF Frame
      <3>3. EventsSafe'
        BY <1>0, <2>1, <2>2, <2>3, <2>4, <3>1, <3>2 DEF EventsSafe
      <3>4. Owned'
        BY <1>0, <2>1, <2>3, <3>1, <3>2 DEF Owned
      <3>5. Pending'
        BY <1>0, <2>1, <3>1, QueueSame
      <3>6. NoFault' /\ Closing' /\ Gone'
        BY <1>0, <2>1, <3>1 DEF NoFault, Closing, Gone
      <3> QED BY <3>3, <3>4, <3>5, <3>6 DEF Careful
    <2> QED BY <2>6, <2>7
  <1> QED BY <1>1, <1>2, <1>3

\* handleCloseInLoop finds the connection connected, and closes it.
LEMMA CarefulClose ==
    ASSUME IndInv, Careful, StateTypes, attached, frames = <<>>, HandleClose
    PROVE  /\ ~attached' /\ ~writing' /\ status' = "kDisconnected" /\ fault' = fault
           /\ Len(notes') > 1 /\ ~(Len(notes') <= 1)
           /\ frames' # <<>> /\ ~InOther' /\ \A f : In(f, frames') <=> f = "down"
  <1>1. notes # <<>> /\ Len(notes) = 1 /\ status # "kDisconnected"
    BY Attached
  <1>2. status # "kConnecting"
    BY <1>1 DEF IndInv, NoteInv, Establishing
  <1>3. status \in {"kConnected", "kDisconnecting"}
    BY <1>1, <1>2 DEF StateTypes
  <1>4. /\ ~attached' /\ ~writing' /\ status' = "kDisconnected" /\ fault' = fault
        /\ notes' = Append(notes, "down") /\ frames' = Append(frames, "down")
    BY <1>3 DEF HandleClose, CloseInLoop
  <1>5. Len(notes') = 2
    <2>1. notes \in Seq({"up", "down"})
      BY DEF IndInv, LineTypes
    <2>2. Len(Append(notes, "down")) = Len(notes) + 1
      BY <2>1
    <2> QED BY <1>1, <1>4, <2>2
  <1>6. Len(notes') > 1 /\ ~(Len(notes') <= 1)
    BY <1>5
  <1>7. frames' = <<"down">>
    BY <1>4, FrameFacts DEF Frame
  <1>8. frames' # <<>> /\ ~InOther' /\ \A f : In(f, frames') <=> f = "down"
    BY <1>7, FrameFacts DEF Frame, InOther
  <1> QED BY <1>4, <1>6, <1>8

\* Events of the socket.
LEMMA CarefulHandling ==
    ASSUME IndInv, Careful, StateTypes, Handling
    PROVE  Careful'
  <1> USE DEF sock, data, net, own, loop, line, app
  <1>0. NoFault /\ EventsSafe /\ Owned /\ Pending /\ Closing /\ Gone
    BY DEF Careful
  <1>a. LoopFree /\ frames = <<>>
    <2>1. CASE Poll(FALSE) \/ Poll(TRUE) \/ PollHangup
      BY <2>1 DEF Poll, PollHangup, LoopFree
    <2>2. CASE HandleEvent \/ HandleHangup \/ HandleError \/ HandleRead \/ HandleWrite \/ HandleEventEnds
      BY <2>2 DEF HandleEvent, HandleHangup, HandleError, HandleRead, HandleWrite, HandleEventEnds,
         LoopFree
    <2> QED BY <2>1, <2>2 DEF Handling
  <1>b. ~InOther /\ \A f : ~In(f, frames)
    BY <1>a, InEmpty DEF InOther
  <1>1. CASE Poll(FALSE) \/ Poll(TRUE) \/ PollHangup
    <2>1. /\ phase = "poll" /\ phase' = "events"
          /\ UNCHANGED <<status, attached, writing, alive, held, bound, queue, batch, pinned,
                         handling, user, userRef, fault, notes, frames>>
      BY <1>1 DEF Poll, PollHangup
    <2>2. polled' # {} => attached
      <3>1. writing => attached
        BY <1>0 DEF Owned
      <3> QED BY <1>1, <3>1 DEF Poll, PollHangup
    <2>3. "close" \in polled' => polled' = {"close"}
      BY <1>1 DEF Poll, PollHangup
    <2>4. ~handling
      BY <1>0, <2>1 DEF EventsSafe
    <2>5. attached => alive /\ bound
      <3>1. ASSUME attached PROVE alive /\ Len(notes) <= 1
        BY <3>1, Attached
      <3> QED BY <1>0, <1>b, <3>1 DEF Owned
    <2>6. EventsSafe'
      BY <1>a, <1>b, <2>1, <2>2, <2>3, <2>4, <2>5 DEF EventsSafe, InOther
    <2>7. Owned' /\ NoFault' /\ Closing' /\ Gone'
      BY <1>0, <2>1 DEF Owned, NoFault, Closing, Gone
    <2>8. Pending'
      BY <1>0, <2>1 DEF Pending, Harmless
    <2> QED BY <2>6, <2>7, <2>8 DEF Careful
  <1>2. CASE HandleEvent
    <2>1. polled # {} /\ phase = "events"
      BY <1>2 DEF HandleEvent
    <2>2. alive
      BY <1>0, <2>1 DEF EventsSafe
    <2>3. UNCHANGED <<status, attached, writing, alive, held, bound, queue, batch, pinned, phase,
                      polled, user, userRef, fault, notes, frames>>
      BY <1>2, <2>2 DEF HandleEvent
    <2>4. EventsSafe'
      BY <1>0, <1>b, <2>1, <2>3 DEF EventsSafe, InOther
    <2>5. Owned' /\ NoFault' /\ Closing' /\ Gone'
      BY <1>0, <2>3 DEF Owned, NoFault, Closing, Gone
    <2>6. Pending'
      BY <1>0, <2>3, QueueSame
    <2> QED BY <2>4, <2>5, <2>6 DEF Careful
  <1>3. CASE HandleHangup
    <2>1. /\ polled = {"close"} /\ polled' = {} /\ handling' = FALSE /\ HandleClose
          /\ UNCHANGED <<alive, held, bound, queue, batch, pinned, phase, user, userRef>>
      BY <1>3 DEF HandleHangup
    <2>2. attached
      <3>1. polled \cap {"read", "close", "error"} # {}
        BY <2>1
      <3> QED BY <1>0, <3>1 DEF EventsSafe
    <2>3. /\ ~attached' /\ ~writing' /\ status' = "kDisconnected" /\ fault' = fault
          /\ Len(notes') > 1 /\ ~(Len(notes') <= 1)
          /\ frames' # <<>> /\ ~InOther' /\ \A f : In(f, frames') <=> f = "down"
      BY <1>a, <2>1, <2>2, CarefulClose
    <2>4. EventsSafe'
      BY <2>1, <2>3 DEF EventsSafe
    <2>5. Owned'
      BY <2>3 DEF Owned
    <2>6. alive
      BY <2>2, Attached
    <2>7. NoFault' /\ Closing' /\ Gone'
      BY <1>0, <2>1, <2>3, <2>6 DEF NoFault, Closing, Gone
    <2>8. Pending'
      BY <1>0, <2>1, <2>3, QueueSame
    <2> QED BY <2>4, <2>5, <2>7, <2>8 DEF Careful
  <1>4. CASE HandleError \/ HandleEventEnds
    <2>1. /\ polled' \subseteq polled /\ (handling' => handling)
          /\ UNCHANGED <<status, attached, writing, alive, held, bound, queue, batch, pinned, phase,
                         user, userRef, fault, notes, frames>>
      BY <1>4 DEF HandleError, HandleEventEnds
    <2>2. "close" \in polled' => polled' = {"close"}
      BY <1>0, <2>1 DEF EventsSafe
    <2>3. polled' # {} \/ handling' => polled # {} \/ handling
      BY <2>1
    <2>4. polled' \cap {"read", "close", "error"} # {} => polled \cap {"read", "close", "error"} # {}
      BY <2>1
    <2>5. EventsSafe'
      BY <1>0, <1>b, <2>1, <2>2, <2>3, <2>4 DEF EventsSafe, InOther
    <2>6. Owned' /\ NoFault' /\ Closing' /\ Gone'
      BY <1>0, <2>1 DEF Owned, NoFault, Closing, Gone
    <2>7. Pending'
      BY <1>0, <2>1, QueueSame
    <2> QED BY <2>5, <2>6, <2>7 DEF Careful
  <1>5. CASE HandleRead
    <2>1. /\ handling /\ handling' = handling /\ "read" \in polled /\ "error" \notin polled
          /\ polled' = polled \ {"read"}
          /\ UNCHANGED <<alive, held, bound, queue, batch, pinned, phase, user, userRef>>
      BY <1>5 DEF HandleRead
    <2>2. attached /\ alive
      <3>1. polled \cap {"read", "close", "error"} # {}
        BY <2>1
      <3> QED BY <1>0, <3>1, Attached DEF EventsSafe
    <2>3. polled' \cap {"read", "close", "error"} = {} /\ "close" \notin polled'
      <3>1. "close" \notin polled
        BY <1>0, <2>1 DEF EventsSafe
      <3> QED BY <2>1, <3>1
    <2>4. bound /\ phase = "events"
      BY <1>0, <2>1 DEF EventsSafe
    <2>5. CASE HandleClose
      <3>1. /\ ~attached' /\ ~writing' /\ status' = "kDisconnected" /\ fault' = fault
            /\ Len(notes') > 1 /\ ~(Len(notes') <= 1)
            /\ frames' # <<>> /\ ~InOther' /\ \A f : In(f, frames') <=> f = "down"
        BY <1>a, <2>2, <2>5, CarefulClose
      <3>2. EventsSafe'
        BY <2>1, <2>2, <2>3, <2>4, <3>1 DEF EventsSafe
      <3>3. Owned'
        BY <3>1 DEF Owned
      <3>4. NoFault' /\ Closing' /\ Gone'
        BY <1>0, <2>1, <2>2, <3>1 DEF NoFault, Closing, Gone
      <3>5. Pending'
        BY <1>0, <2>1, <3>1, QueueSame
      <3> QED BY <3>2, <3>3, <3>4, <3>5 DEF Careful
    <2>6. CASE ~HandleClose
      <3>1. /\ UNCHANGED <<status, attached, writing, notes, fault>>
            /\ frames' = frames \/ frames' = <<"own">>
        BY <1>5, <2>6 DEF HandleRead
      <3>2. ~InOther' /\ ~In("closing", frames') /\ ~In("shutting", frames')
        BY <1>a, <1>b, <3>1, FrameFacts DEF InOther, Frame
      <3>3. EventsSafe'
        BY <2>1, <2>2, <2>3, <2>4, <3>1, <3>2 DEF EventsSafe
      <3>4. Owned'
        BY <1>0, <1>b, <2>1, <3>1, <3>2 DEF Owned
      <3>5. NoFault' /\ Closing' /\ Gone'
        BY <1>0, <2>1, <2>2, <3>1 DEF NoFault, Closing, Gone
      <3>6. Pending'
        BY <1>0, <2>1, <3>1, QueueSame
      <3> QED BY <3>3, <3>4, <3>5, <3>6 DEF Careful
    <2> QED BY <2>5, <2>6
  <1>6. CASE HandleWrite
    <2>1. /\ handling /\ polled' = {}
          /\ UNCHANGED <<status, attached, alive, held, bound, queue, batch, pinned, phase,
                         handling, user, userRef, fault, notes>>
          /\ frames' = frames \/ frames' = <<"own">>
          /\ writing' => writing
      BY <1>6 DEF HandleWrite
    <2>2. ~InOther' /\ ~In("closing", frames') /\ ~In("shutting", frames')
      BY <1>a, <1>b, <2>1, FrameFacts DEF InOther, Frame
    <2>3. alive /\ bound /\ phase = "events" /\ (attached \/ In(F("remove"), queue))
      BY <1>0, <1>b, <2>1 DEF EventsSafe
    <2>4. EventsSafe'
      BY <2>1, <2>2, <2>3 DEF EventsSafe
    <2>5. Owned'
      BY <1>0, <1>b, <2>1, <2>2 DEF Owned
    <2>6. NoFault' /\ Closing' /\ Gone'
      BY <1>0, <2>1, <2>3 DEF NoFault, Closing, Gone
    <2>7. Pending'
      BY <1>0, <2>1, QueueSame
    <2> QED BY <2>4, <2>5, <2>6, <2>7 DEF Careful
  <1> QED BY <1>1, <1>2, <1>3, <1>4, <1>5, <1>6 DEF Handling

\* The functors of the loop.
LEMMA CarefulFunctors ==
    ASSUME IndInv, Careful, Functors
    PROVE  Careful'
  <1> USE DEF sock, data, net, own, loop, line, app
  <1>0. NoFault /\ EventsSafe /\ Owned /\ Pending /\ Closing /\ Gone
    BY DEF Careful
  <1>1. CASE SwapFunctors
    <2>1. /\ phase = "events" /\ phase' = "functors" /\ batch' = queue /\ queue' = <<>>
          /\ polled = {} /\ ~handling
          /\ UNCHANGED <<status, attached, writing, alive, held, bound, pinned, polled, handling,
                         user, userRef, fault, notes, frames>>
      BY <1>1 DEF SwapFunctors
    <2>2. \A f : ~In(f, <<>>)
      BY InEmpty
    <2>3. EventsSafe'
      BY <2>1 DEF EventsSafe
    <2>4. Pending'
      BY <1>0, <2>1, <2>2 DEF Pending, Harmless
    <2>5. batch = <<>>
      BY <1>0, <2>1 DEF Pending
    <2>6. Closing'
      BY <1>0, <2>1, <2>2, <2>5 DEF Closing
    <2>7. Owned' /\ NoFault' /\ Gone'
      BY <1>0, <2>1 DEF Owned, NoFault, Gone
    <2> QED BY <2>3, <2>4, <2>6, <2>7 DEF Careful
  <1>2. CASE BatchEnds
    <2>1. /\ phase = "functors" /\ phase' = "poll" /\ batch = <<>> /\ ~pinned'
          /\ UNCHANGED <<status, attached, writing, alive, held, bound, queue, batch, polled, handling,
                         user, userRef, fault, notes, frames>>
      BY <1>2 DEF BatchEnds
    <2>2. polled = {} /\ ~handling
      BY <1>0, <2>1 DEF EventsSafe
    <2>3. EventsSafe'
      BY <2>1, <2>2 DEF EventsSafe
    <2>4. Pending'
      BY <1>0, <2>1 DEF Pending, Harmless
    <2>5. Owned' /\ NoFault' /\ Closing' /\ Gone'
      BY <1>0, <2>1 DEF Owned, NoFault, Closing, Gone
    <2> QED BY <2>3, <2>4, <2>5 DEF Careful
  <1>3. ASSUME NEW f, Execute(f)
        PROVE  /\ batch # <<>> /\ alive /\ frames = <<>> /\ phase = "functors" /\ polled = {} /\ ~handling
               /\ In(f, batch) /\ (In(F("close"), batch) => f = F("close") \/ In(F("close"), batch'))
               /\ notes' = notes \/ Len(notes') > 1 => Harmless(batch)'
               /\ f \notin {F("shutdown")} /\ \A m \in Msg : f # <<"send", m>>
    <2>1. /\ batch # <<>> /\ frames = <<>> /\ phase = "functors" /\ Head(batch) = f
          /\ batch' = Tail(batch) /\ batch \in Seq(Functor)
      BY <1>3 DEF Execute, LoopFree, IndInv, LineTypes
    <2>2. \A g : (In(g, batch') => In(g, batch)) /\ (In(g, batch) => g = f \/ In(g, batch'))
      BY <2>1, InTail
    <2>3. In(f, batch)
      BY <2>1, InTail
    <2>4. alive /\ polled = {} /\ ~handling
      BY <1>0, <2>1 DEF Gone, EventsSafe
    <2>5. Harmless(batch)
      BY <1>0 DEF Pending
    <2>6. notes' = notes \/ Len(notes') > 1 => Harmless(batch)'
      BY <2>2, <2>5 DEF Harmless
    <2>7. f \notin {F("shutdown")} /\ \A m \in Msg : f # <<"send", m>>
      BY <2>3, <2>5 DEF Harmless
    <2> QED BY <2>1, <2>2, <2>3, <2>4, <2>6, <2>7
  <1>4. CASE RunEstablish
    <2>1. /\ Execute(F("establish")) /\ status' = "kConnected" /\ attached' = TRUE
          /\ notes' = Append(notes, "up") /\ frames' = <<"own">> /\ userRef'
          /\ UNCHANGED <<writing, alive, held, bound, queue, phase, polled, handling, user, fault>>
      BY <1>4 DEF RunEstablish
    <2>2. /\ alive /\ frames = <<>> /\ polled = {} /\ ~handling /\ phase = "functors"
          /\ In(F("establish"), batch)
      BY <1>3, <2>1
    <2>3. notes = <<>> /\ ~writing /\ batch = <<F("establish")>> /\ queue = <<>> /\ user = "idle"
      BY <2>2, InEmpty DEF IndInv, NoteInv, Establishing
    <2>4. Len(<<>>) <= 1 /\ \A f : ~In(f, <<>>)
      BY InEmpty
    <2>5. held /\ bound
      BY <1>0, <2>2, <2>3, <2>4 DEF Owned
    <2>6. ~In("shutting", frames')
      BY <2>1, FrameFacts DEF Frame
    <2>7. Owned'
      BY <2>1, <2>5, <2>6 DEF Owned
    <2>8. ~InOther'
      BY <2>1, FrameFacts DEF Frame, InOther
    <2>9. EventsSafe'
      BY <2>1, <2>2, <2>8 DEF EventsSafe
    <2>10. batch' = <<>>
      BY <2>1, <2>3 DEF Execute
    <2>11. Pending'
      BY <2>1, <2>3, <2>4, <2>10 DEF Pending, Harmless
    <2>12. NoFault' /\ Closing' /\ Gone'
      BY <1>0, <2>1, <2>2, <2>3 DEF NoFault, Closing, Gone
    <2> QED BY <2>7, <2>9, <2>11, <2>12 DEF Careful
  <1>5. CASE RunClose
    <2>1. /\ Execute(F("close")) /\ status' = "kDisconnected" /\ ~attached' /\ ~writing'
          /\ notes' = Append(notes, "down") /\ frames' = Append(frames, "down")
          /\ UNCHANGED <<alive, held, bound, queue, phase, polled, handling, user, userRef, fault>>
      BY <1>5 DEF RunClose, CloseInLoop
    <2>2. /\ alive /\ frames = <<>> /\ polled = {} /\ ~handling /\ phase = "functors"
          /\ In(F("close"), batch)
      BY <1>3, <2>1
    <2>3. notes # <<>>
      <3>1. F("close") # F("establish")
        BY DEF F
      <3>2. ~In(F("close"), <<>>) /\ ~In(F("close"), <<F("establish")>>)
        BY <3>1, Shapes
      <3> QED BY <2>2, <3>2 DEF IndInv, NoteInv, Establishing
    <2>4. Len(notes') > 1 /\ ~(Len(notes') <= 1)
      <3>1. notes \in Seq({"up", "down"}) /\ Len(notes') = Len(notes) + 1
        BY <2>1 DEF IndInv, LineTypes
      <3>2. Len(notes) \in Nat /\ Len(notes) >= 1
        BY <2>3, Attached
      <3> QED BY <3>1, <3>2
    <2>5. frames' = <<"down">>
      BY <2>1, <2>2, FrameFacts DEF Frame
    <2>6. ~In("shutting", frames') /\ ~InOther'
      BY <2>5, FrameFacts DEF Frame, InOther
    <2>7. Owned'
      BY <2>1, <2>4, <2>6 DEF Owned
    <2>8. EventsSafe'
      BY <2>1, <2>2, <2>6 DEF EventsSafe
    <2>9. Pending'
      <3>1. Harmless(batch)'
        BY <1>3, <2>1, <2>4
      <3>2. Harmless(queue)'
        BY <1>0, <2>1, <2>4 DEF Pending, Harmless
      <3> QED BY <2>1, <2>2, <3>1, <3>2 DEF Pending
    <2>10. NoFault' /\ Closing' /\ Gone'
      BY <1>0, <2>1, <2>2 DEF NoFault, Closing, Gone
    <2> QED BY <2>7, <2>8, <2>9, <2>10 DEF Careful
  <1>6. CASE RunComplete \/ RunRemove
    <2>1. PICK k \in {"complete", "remove"} :
                 /\ Execute(F(k))
                 /\ UNCHANGED <<status, attached, writing, alive, queue, phase, polled, handling,
                                user, userRef, fault, notes>>
                 /\ frames' = frames \/ frames' = <<"own">>
                 /\ k = "complete" => UNCHANGED <<held, bound>>
      BY <1>6 DEF RunComplete, RunRemove
    <2>2. /\ alive /\ frames = <<>> /\ polled = {} /\ ~handling /\ phase = "functors" /\ In(F(k), batch)
          /\ Harmless(batch)'
      BY <1>3, <2>1
    <2>3. In(F("close"), batch) => In(F("close"), batch')
      <3>1. F(k) # F("close")
        BY DEF F
      <3> QED BY <1>3, <2>1, <3>1
    <2>4. k = "remove" => Len(notes) > 1
      BY <1>0, <2>2 DEF Pending, Harmless
    <2>5. ~In("shutting", frames') /\ ~InOther' /\ ~In("closing", frames)
      BY <2>1, <2>2, InEmpty, FrameFacts DEF Frame, InOther
    <2>6. Len(notes) \in Nat
      BY Attached
    <2>7. Owned'
      <3>1. CASE k = "complete"
        BY <1>0, <2>1, <2>5, <3>1 DEF Owned
      <3>2. CASE k = "remove"
        <4>1. ~(Len(notes) <= 1)
          BY <2>4, <2>6, <3>2
        <4> QED BY <1>0, <2>1, <2>5, <4>1 DEF Owned
      <3> QED BY <3>1, <3>2
    <2>8. EventsSafe'
      BY <2>1, <2>2, <2>5 DEF EventsSafe
    <2>9. Pending'
      <3>1. Harmless(queue)'
        BY <1>0, <2>1 DEF Pending, Harmless
      <3> QED BY <2>1, <2>2, <3>1 DEF Pending
    <2>10. NoFault' /\ Closing' /\ Gone'
      BY <1>0, <2>1, <2>2, <2>3 DEF NoFault, Closing, Gone
    <2> QED BY <2>7, <2>8, <2>9, <2>10 DEF Careful
  <1>7. ~RunShutdown
    BY <1>3 DEF RunShutdown
  <1>8. \A m \in Msg : ~RunSend(m)
    BY <1>3 DEF RunSend
  <1> QED BY <1>1, <1>2, <1>4, <1>5, <1>6, <1>7, <1>8 DEF Functors

\* The other thread and the peer.
LEMMA CarefulOutside ==
    ASSUME IndInv, Careful, uses \subseteq CarefulUses, UserThread \/ UserCalls \/ Peer
    PROVE  Careful'
  <1> USE DEF sock, data, net, own, loop, line, app
  <1>0. NoFault /\ EventsSafe /\ Owned /\ Pending /\ Closing /\ Gone
    BY DEF Careful
  <1>a. ASSUME UNCHANGED <<attached, writing, alive, held, bound, phase, polled, handling,
                           fault, notes, frames, queue>>
        PROVE  EventsSafe' /\ Owned' /\ NoFault'
    BY <1>0, <1>a DEF EventsSafe, Owned, NoFault, InOther
  <1>1. CASE DropRef \/ Peer \/ \E call \in {"close", "shutdown"} : UserChecks(call)
    <2>1. /\ UNCHANGED <<status, attached, writing, alive, held, bound, queue, batch, pinned, phase,
                         polled, handling, fault, notes, frames>>
          /\ \/ UNCHANGED <<user, userRef>>
             \/ user = "idle" /\ user' = user /\ ~userRef'
             \/ user = "idle" /\ user' = "close" /\ userRef' = userRef /\ userRef
      <3>1. CASE DropRef
        BY <3>1 DEF DropRef, UserFree
      <3>2. CASE Peer
        BY <3>2 DEF Peer, PeerSend, PeerClose, PeerReset
      <3>3. ASSUME NEW call \in {"close", "shutdown"}, UserChecks(call)
            PROVE  /\ user = "idle" /\ user' = "close" /\ userRef' = userRef /\ userRef
                   /\ UNCHANGED <<status, attached, writing, alive, held, bound, queue, batch, pinned,
                                  phase, polled, handling, fault, notes, frames>>
        BY <3>3 DEF UserChecks, UserFree, CarefulUses
      <3> QED BY <1>1, <3>1, <3>2, <3>3
    <2>2. Closing' /\ Gone'
      BY <1>0, <2>1 DEF Closing, Gone
    <2>3. Pending'
      BY <1>0, <2>1, QueueSame
    <2> QED BY <1>a, <2>1, <2>2, <2>3 DEF Careful
  <1>2. ASSUME NEW m \in Msg PROVE ~UserSend(m)
    BY DEF UserSend, CarefulUses
  <1>3. ASSUME NEW call \in {"close", "shutdown"}, UserChanges(call) PROVE Careful'
    <2>1. /\ user = "close" /\ user' = "closing" /\ userRef' = userRef
          /\ UNCHANGED <<attached, writing, alive, held, bound, queue, batch, pinned, phase,
                         polled, handling, fault, notes, frames>>
      BY <1>0, <1>3 DEF UserChanges, Closing
    <2>2. Closing' /\ Gone'
      BY <1>0, <2>1 DEF Closing, Gone
    <2>3. Pending'
      BY <1>0, <2>1, QueueSame
    <2> QED BY <1>a, <2>1, <2>2, <2>3 DEF Careful
  <1>4. CASE UserQueues
    <2>1. /\ user = "closing" /\ user' = "idle" /\ queue' = Append(queue, F("close"))
          /\ UNCHANGED <<status, attached, writing, alive, held, bound, batch, pinned, phase,
                         polled, handling, fault, notes, frames, userRef>>
      BY <1>0, <1>4 DEF UserQueues, Closing
    <2>2. /\ Harmless(queue)' /\ In(F("close"), queue')
          /\ In(F("remove"), queue) => In(F("remove"), queue')
      BY <1>0, <2>1, QueueMore DEF Pending
    <2>3. alive
      BY <1>0, <2>1 DEF Closing, Gone
    <2>4. EventsSafe'
      BY <1>0, <2>1, <2>2 DEF EventsSafe, InOther
    <2>5. Pending'
      BY <1>0, <2>1, <2>2 DEF Pending, Harmless
    <2>6. Owned' /\ NoFault' /\ Closing' /\ Gone'
      BY <1>0, <2>1, <2>2, <2>3 DEF Owned, NoFault, Closing, Gone
    <2> QED BY <2>4, <2>5, <2>6 DEF Careful
  <1> QED BY <1>1, <1>2, <1>3, <1>4 DEF UserThread, UserCalls

\* Nobody holds the connection any more: it is kDisconnected, no event of its
\* socket waits, and no functor refers to it.
LEMMA CarefulDestroy ==
    ASSUME IndInv, StateTypes, Careful, Destroy
    PROVE  Careful'
  <1> USE DEF sock, data, net, own, loop, line, app
  <1>0. NoFault /\ EventsSafe /\ Owned /\ Pending /\ Closing /\ Gone /\ frames \in Stack
    BY Attached DEF Careful
  <1>1. /\ ~held /\ ~userRef /\ ~pinned /\ ~alive'
        /\ \A f \in PlainFunctor : ~In(f, queue) /\ ~In(f, batch)
        /\ \A f : In(f, frames) => f = "other"
    <2>1. ~Referenced /\ ~alive'
      BY DEF Destroy
    <2>2. \A s, f : In(f, s) => f \in SeqToSet(s)
      BY DEF In, SeqToSet
    <2> QED BY <2>1, <2>2 DEF Referenced
  <1>2. UNCHANGED <<status, attached, writing, held, bound, queue, batch, pinned, phase,
                    polled, handling, user, userRef, notes, frames>>
    BY DEF Destroy
  <1>3. ~attached /\ notes # <<>> /\ Len(notes) > 1
    <2>1. Len(notes) \in Nat /\ ~(Len(notes) <= 1)
      <3>1. Len(notes) <= 1 => held
        BY <1>0 DEF Owned
      <3> QED BY <1>1, <3>1, Attached
    <2>2. Len(notes) > 1 /\ Len(notes) # 1 /\ Len(notes) # 0
      <3>1. \A n \in Nat : ~(n <= 1) => n > 1 /\ n # 1 /\ n # 0
        OBVIOUS
      <3> QED BY <2>1, <3>1
    <2>3. notes # <<>>
      BY <2>2
    <2> QED BY <2>2, <2>3, Attached
  <1>4. ~In("down", frames) /\ ~In("closing", frames) /\ ~In("shutting", frames)
    BY <1>1
  <1>5. ~In(F("remove"), queue) /\ ~In(F("close"), queue) /\ ~In(F("close"), batch)
    BY <1>1, FunctorFacts
  <1>6. polled = {} /\ ~handling
    BY <1>0, <1>3, <1>4, <1>5 DEF EventsSafe
  <1>7. user = "idle"
    BY <1>0, <1>1 DEF Closing
  <1>8. status = "kDisconnected"
    <2>1. status # "kConnecting"
      BY <1>3 DEF IndInv, NoteInv, Establishing
    <2>2. status # "kConnected"
      BY <1>3, Attached
    <2>3. status # "kDisconnecting"
      BY <1>0, <1>3, <1>5, <1>7 DEF Closing
    <2> QED BY <2>1, <2>2, <2>3 DEF StateTypes
  <1>9. NoFault'
    BY <1>6, <1>8 DEF Destroy, NoFault
  <1>10. queue = <<>> /\ batch = <<>>
    <2>1. ASSUME NEW s \in Seq(Functor), Harmless(s), \A f \in PlainFunctor : ~In(f, s)
          PROVE  s = <<>>
      <3> SUFFICES ASSUME s # <<>> PROVE FALSE
        OBVIOUS
      <3>1. Head(s) \in Functor /\ In(Head(s), s)
        BY InTail
      <3>2. \E m \in Msg : Head(s) = <<"send", m>>
        BY <2>1, <3>1, FunctorFacts
      <3> QED BY <2>1, <3>1, <3>2 DEF Harmless
    <2> QED BY <1>0, <1>1, <2>1 DEF IndInv, LineTypes, Pending
  <1>11. frames = <<>> \/ frames = <<"other">>
    <2>1. Top = "none" => frames = <<>>
      BY <1>0, Stacks
    <2>2. Top = "other" => frames = <<"other">>
      BY <1>0, Stacks
    <2>3. Top # "none" => In(Top, frames)
      <3>1. CASE frames = <<>>
        BY <3>1 DEF Top
      <3>2. CASE frames # <<>>
        <4>1. Len(frames) \in 1..Len(frames)
          <5>1. frames \in Seq(Frame)
            BY <1>0, StackTypes
          <5>2. Len(frames) \in Nat /\ Len(frames) # 0
            BY <3>2, <5>1
          <5>3. \A n \in Nat : n # 0 => n \in 1..n
            OBVIOUS
          <5> QED BY <5>2, <5>3
        <4> QED BY <3>2, <4>1 DEF Top, In
      <3> QED BY <3>1, <3>2
    <2> QED BY <1>1, <2>1, <2>2, <2>3
  <1>12. EventsSafe'
    BY <1>2, <1>6 DEF EventsSafe
  <1>13. Pending'
    BY <1>0, <1>2, QueueSame
  <1>14. Owned' /\ Closing'
    BY <1>0, <1>2 DEF Owned, Closing
  <1>15. Gone'
    BY <1>1, <1>2, <1>10, <1>11 DEF Gone
  <1> QED BY <1>9, <1>12, <1>13, <1>14, <1>15 DEF Careful

-----------------------------------------------------------------------------
(* What a shutdown() meets, whatever the application does *)

\* A step that starts no shutdown(), and shuts nothing down.
LEMMA ShuttingStays ==
    ASSUME Shutting, UNCHANGED <<fin, uses>>, fault' # "abort",
           status' \in {"kConnecting", "kConnected"} => status \in {"kConnecting", "kConnected"},
           In("shutting", frames') => In("shutting", frames),
           user' \in {"shutdown", "shutting"} => user \in {"shutdown", "shutting"},
           In(F("shutdown"), queue') => In(F("shutdown"), queue),
           In(F("shutdown"), batch') => In(F("shutdown"), queue) \/ In(F("shutdown"), batch)
    PROVE  Shutting'
  BY DEF Shutting, ShutdownUser

\* Nothing happens after a fault, and the uses are chosen once.
LEMMA StepFacts ==
    ASSUME Next
    PROVE  fault = "none" /\ uses' = uses
  <1> USE DEF app, Running, LoopFree, Calls, UserFree
  <1>1. CASE Callbacks
    BY <1>1 DEF Callbacks, OtherCallback, CbClose, CbShutdown, CbStop, CbSend
  <1>2. CASE CbCloseProceeds \/ CbShutdownProceeds \/ Return
    BY <1>2 DEF CbCloseProceeds, CbShutdownProceeds, Return
  <1>3. CASE Handling
    BY <1>3 DEF Handling, Poll, PollHangup, HandleEvent, HandleHangup, HandleError, HandleRead,
       HandleWrite, HandleEventEnds
  <1>4. CASE Functors
    BY <1>4 DEF Functors, Execute, SwapFunctors, RunEstablish, RunClose, RunShutdown, RunComplete,
       RunRemove, RunSend, BatchEnds
  <1>5. CASE UserThread \/ UserCalls
    BY <1>5 DEF UserThread, UserQueues, UserChanges, UserCalls, DropRef, UserSend, UserChecks
  <1>6. CASE Destroy \/ Peer
    BY <1>6 DEF Destroy, Peer, PeerSend, PeerClose, PeerReset
  <1> QED BY <1>1, <1>2, <1>3, <1>4, <1>5, <1>6 DEF Next, LoopThread, Handling, Functors

\* The stacks the steps leave.
LEMMA FramesAfter ==
    ASSUME frames \in Stack
    PROVE  /\ Top # "none" => \A f : In(f, Pop) => f \in {"own", "other"}
           /\ Top # "none" => Pop \in Seq(Frame)
           /\ Top = "shutting" => In("shutting", frames)
           /\ \A f : ~In(f, <<>>) /\ (In(f, <<"own">>) <=> f = "own")
                     /\ (In(f, <<"other">>) <=> f = "other")
           /\ \A s \in Seq(Frame) : \A e \in Frame :
                 \A f : In(f, Append(s, e)) <=> In(f, s) \/ f = e
           /\ frames \in Seq(Frame)
  <1>1. \A f : ~In(f, <<>>) /\ (In(f, <<"own">>) <=> f = "own") /\ (In(f, <<"other">>) <=> f = "other")
    BY Shapes
  <1>2. Top # "none" => Pop = <<>> \/ Pop = <<"own">> \/ Pop = <<"other">>
    BY Stacks
  <1>3. Top # "none" => Pop \in Seq(Frame)
    BY <1>2, StackMembers, StackTypes
  <1>4. Top = "shutting" => In("shutting", frames)
    <2> SUFFICES ASSUME Top = "shutting" PROVE In("shutting", frames)
      OBVIOUS
    <2>1. PICK a \in {"own", "other"} : frames = <<a, "shutting">>
      BY Stacks
    <2> QED BY <2>1, Shapes
  <1>5. \A s \in Seq(Frame) : \A e \in Frame : \A f : In(f, Append(s, e)) <=> In(f, s) \/ f = e
    BY InAppend
  <1> QED BY <1>1, <1>2, <1>3, <1>4, <1>5, StackTypes

\* The functors the steps queue.
LEMMA QueueAfter ==
    ASSUME LineTypes
    PROVE  /\ \A k \in {"close", "complete", "remove"} :
                 In(F("shutdown"), Append(queue, F(k))) => In(F("shutdown"), queue)
           /\ \A m \in Msg : In(F("shutdown"), Append(queue, <<"send", m>>)) => In(F("shutdown"), queue)
           /\ batch # <<>> =>
                 /\ In(F("shutdown"), Tail(batch)) => In(F("shutdown"), batch)
                 /\ In(Head(batch), batch)
  <1>1. queue \in Seq(Functor) /\ batch \in Seq(Functor)
    BY DEF LineTypes
  <1>2. F("close") # F("shutdown") /\ F("complete") # F("shutdown") /\ F("remove") # F("shutdown")
        /\ \A m \in Msg : <<"send", m>> # F("shutdown")
    BY DEF F
  <1>3. \A f \in Functor : f # F("shutdown") => (In(F("shutdown"), Append(queue, f)) => In(F("shutdown"), queue))
    BY <1>1, InAppend
  <1>4. batch # <<>> => (In(F("shutdown"), Tail(batch)) => In(F("shutdown"), batch)) /\ In(Head(batch), batch)
    BY <1>1, InTail
  <1> QED BY <1>2, <1>3, <1>4, FunctorFacts

\* No step forgets where a shutdown() came from.
LEMMA ShuttingStep ==
    ASSUME IndInv, Shutting, Next
    PROVE  Shutting'
  <1> USE DEF sock, data, net, own, loop, line, app
  <1>0. LineTypes /\ DataTypes /\ StreamIntegrity /\ NoteInv /\ frames \in Stack /\ frames \in Seq(Frame)
        /\ fault = "none" /\ uses' = uses
    BY StackTypes, StepFacts DEF IndInv, NoteInv, CallStack
  <1>1. CASE OtherCallback
    BY <1>0, <1>1, FramesAfter, ShuttingStays DEF OtherCallback
  <1>2. CASE CbClose
    <2>1. "closing" \in Frame
      BY DEF Frame
    <2> QED BY <1>0, <1>2, <2>1, FramesAfter, ShuttingStays DEF CbClose
  <1>3. CASE CbShutdown
    <2>1. /\ "shutdown" \in uses /\ status = "kConnected"
          /\ UNCHANGED <<status, fin, queue, batch, user, fault, uses>>
      BY <1>3 DEF CbShutdown
    <2> QED BY <1>0, <2>1 DEF Shutting, ShutdownUser
  <1>4. CASE CbStop
    <2>1. "closing" \in Frame
      BY DEF Frame
    <2>2. frames' = frames \/ frames' = Append(frames, "closing")
      BY <1>4 DEF CbStop
    <2>3. UNCHANGED <<status, fin, queue, batch, user, uses, fault>>
      BY <1>4 DEF CbStop
    <2>4. In("shutting", frames') => In("shutting", frames)
      <3>1. In("shutting", Append(frames, "closing")) <=> In("shutting", frames) \/ "shutting" = "closing"
        BY <1>0, <2>1, InAppend
      <3>2. In("shutting", Append(frames, "closing")) => In("shutting", frames)
        BY <3>1
      <3> QED BY <2>2, <3>2
    <2> QED BY <1>0, <2>3, <2>4, ShuttingStays
  <1>5. ASSUME NEW m \in Msg, CbSend(m) PROVE Shutting'
    <2>1. SendInLoop(m) /\ UNCHANGED <<status, fin, batch, user, uses, frames>>
      BY <1>5 DEF CbSend
    <2>2. fault' # "abort" /\ (queue' = queue \/ queue' = Append(queue, F("complete")))
      BY <1>0, <2>1, SendKeepsStream DEF LineTypes
    <2> QED BY <1>0, <2>1, <2>2, QueueAfter, ShuttingStays
  <1>6. CASE CbCloseProceeds
    <2>1. "down" \in Frame /\ Top = "closing" /\ frames' = Append(Pop, "down") /\ status' = "kDisconnected"
          /\ UNCHANGED <<fin, queue, batch, user, uses, fault>>
      BY <1>6 DEF CbCloseProceeds, CloseInLoop, Frame
    <2>2. ~In("shutting", frames')
      BY <1>0, <2>1, FramesAfter
    <2> QED BY <1>0, <2>1, <2>2, ShuttingStays
  <1>7. CASE CbShutdownProceeds
    <2>1. /\ Top = "shutting" /\ frames' = Pop /\ status' = "kDisconnecting" /\ ShutdownSocket
          /\ UNCHANGED <<queue, batch, user, uses, peer>>
      BY <1>7 DEF CbShutdownProceeds
    <2>2. In("shutting", frames) /\ ~In("shutting", frames')
      BY <1>0, <2>1, FramesAfter
    <2>3. "shutdown" \in uses /\ (fin => ShutdownUser)
      BY <2>2 DEF Shutting
    <2>4. fault' = "abort" => peer \in {"reset", "dead"} \/ (peer = "closed" /\ ShutdownUser)
      BY <1>0, <2>1, <2>3 DEF ShutdownSocket
    <2> QED BY <2>1, <2>2, <2>3, <2>4 DEF Shutting, ShutdownUser
  <1>8. CASE Return
    <2>1. /\ Top # "none" /\ frames' = Pop
          /\ queue' = queue \/ queue' = Append(queue, F("remove"))
          /\ UNCHANGED <<status, fin, batch, user, uses, fault>>
      BY <1>8 DEF Return
    <2>2. ~In("shutting", frames')
      BY <1>0, <2>1, FramesAfter
    <2> QED BY <1>0, <2>1, <2>2, QueueAfter, ShuttingStays
  <1>9. CASE Handling
    <2>1. /\ frames = <<>> /\ UNCHANGED <<fin, queue, batch, user, uses>> /\ fault' # "abort"
          /\ \/ frames' = frames \/ frames' = <<"own">>
             \/ frames' = Append(frames, "down")
          /\ status' = status \/ status' = "kDisconnected"
      BY <1>0, <1>9 DEF Handling, Poll, PollHangup, HandleEvent, HandleHangup, HandleError,
         HandleRead, HandleWrite, HandleEventEnds, HandleClose, CloseInLoop, LoopFree
    <2>2. "down" \in Frame
      BY DEF Frame
    <2>3. ~In("shutting", frames')
      <3>1. ~In("shutting", frames) /\ ~In("shutting", <<"own">>)
        BY <1>0, <2>1, FramesAfter
      <3>2. In("shutting", Append(frames, "down")) <=> In("shutting", frames) \/ "shutting" = "down"
        BY <1>0, <2>2, InAppend
      <3>3. ~In("shutting", Append(frames, "down"))
        BY <3>1, <3>2
      <3> QED BY <2>1, <3>1, <3>3
    <2> QED BY <2>1, <2>3, ShuttingStays
  <1>10. CASE SwapFunctors \/ BatchEnds
    <2>1. ~In(F("shutdown"), <<>>)
      BY InEmpty
    <2> QED BY <1>0, <1>10, <2>1, ShuttingStays DEF SwapFunctors, BatchEnds
  <1>11. ASSUME NEW f, Execute(f)
         PROVE  /\ frames = <<>> /\ In(f, batch)
                /\ In(F("shutdown"), batch') => In(F("shutdown"), batch)
    BY <1>0, <1>11, QueueAfter DEF Execute, LoopFree
  <1>12. CASE RunEstablish
    <2>1. /\ Execute(F("establish")) /\ frames' = <<"own">> /\ UNCHANGED <<fin, queue, user, uses, fault>>
      BY <1>12 DEF RunEstablish
    <2>2. status = "kConnecting"
      BY <1>0, <1>11, <2>1 DEF NoteInv, Establishing
    <2>3. ~In("shutting", frames')
      BY <1>0, <2>1, FramesAfter
    <2> QED BY <1>0, <1>11, <2>1, <2>2, <2>3, ShuttingStays
  <1>13. CASE RunClose
    <2>1. /\ Execute(F("close")) /\ frames' = Append(frames, "down") /\ status' = "kDisconnected"
          /\ UNCHANGED <<fin, queue, user, uses, fault>> /\ "down" \in Frame
      BY <1>13 DEF RunClose, CloseInLoop, Frame
    <2>2. ~In("shutting", frames')
      BY <1>0, <1>11, <2>1, FramesAfter
    <2> QED BY <1>0, <1>11, <2>1, <2>2, ShuttingStays
  <1>14. CASE RunShutdown
    <2>1. Execute(F("shutdown")) /\ ShutdownSocket /\ UNCHANGED <<status, queue, user, uses, frames, peer>>
      BY <1>14 DEF RunShutdown
    <2>2. ShutdownUser
      BY <1>11, <2>1 DEF Shutting
    <2>3. fault' = "abort" => peer \in {"reset", "dead", "closed"}
      BY <1>0, <2>1 DEF ShutdownSocket
    <2> QED BY <1>11, <2>1, <2>2, <2>3 DEF Shutting, ShutdownUser
  <1>15. CASE RunComplete \/ RunRemove
    <2>1. /\ \E k \in {"complete", "remove"} : Execute(F(k))
          /\ frames' = frames \/ frames' = <<"own">>
          /\ UNCHANGED <<status, fin, queue, user, uses, fault>>
      BY <1>15 DEF RunComplete, RunRemove
    <2>2. In("shutting", frames') => In("shutting", frames)
      BY <1>0, <2>1, FramesAfter
    <2> QED BY <1>0, <1>11, <2>1, <2>2, ShuttingStays
  <1>16. ASSUME NEW m \in Msg, RunSend(m) PROVE Shutting'
    <2>1. Execute(<<"send", m>>) /\ UNCHANGED <<status, fin, user, uses, frames>>
      BY <1>16 DEF RunSend
    <2>2. fault' # "abort" /\ (queue' = queue \/ queue' = Append(queue, F("complete")))
      <3>1. CASE alive
        <4>1. SendInLoop(m)
          BY <1>16, <3>1 DEF RunSend
        <4> QED BY <1>0, <4>1, SendKeepsStream DEF LineTypes
      <3>2. CASE ~alive
        BY <1>16, <3>2 DEF RunSend
      <3> QED BY <3>1, <3>2
    <2> QED BY <1>0, <1>11, <2>1, <2>2, QueueAfter, ShuttingStays
  <1>17. ASSUME NEW m \in Msg, UserSend(m) PROVE Shutting'
    BY <1>0, <1>17, QueueAfter, ShuttingStays DEF UserSend
  <1>18. ASSUME NEW call \in {"close", "shutdown"}, UserChecks(call) \/ UserChanges(call) PROVE Shutting'
    <2>1. UNCHANGED <<fin, queue, batch, uses, fault, frames, peer>>
      BY <1>18 DEF UserChecks, UserChanges
    <2>2. status' \in {"kConnecting", "kConnected"} => status \in {"kConnecting", "kConnected"}
      BY <1>18 DEF UserChecks, UserChanges
    <2>3. user' \in {"shutdown", "shutting"} => ShutdownUser
      BY <1>18 DEF UserChecks, UserChanges, Shutting, ShutdownUser
    <2> QED BY <2>1, <2>2, <2>3 DEF Shutting, ShutdownUser
  <1>19. CASE UserQueues
    <2>1. /\ user' = "idle" /\ UNCHANGED <<status, fin, batch, uses, fault, frames, peer>>
          /\ \/ queue' = Append(queue, F("close"))
             \/ user = "shutting" /\ queue' = Append(queue, F("shutdown"))
      BY <1>19 DEF UserQueues
    <2>2. In(F("shutdown"), queue') => In(F("shutdown"), queue) \/ user = "shutting"
      BY <1>0, <2>1, QueueAfter
    <2> QED BY <2>1, <2>2 DEF Shutting, ShutdownUser
  <1>20. CASE DropRef \/ Destroy
    BY <1>0, <1>20, ShuttingStays DEF DropRef, Destroy
  <1>21. CASE Peer
    BY <1>0, <1>21, ShuttingStays DEF Peer, PeerSend, PeerClose, PeerReset
  <1> QED BY <1>1, <1>2, <1>3, <1>4, <1>5, <1>6, <1>7, <1>8, <1>9, <1>10, <1>12, <1>13, <1>14, <1>15,
             <1>16, <1>17, <1>18, <1>19, <1>20, <1>21
      DEF Next, LoopThread, Callbacks, UserThread, UserCalls, Handling

\* Wherever an abort in shutdown() comes from, there was a reset, or the other
\* thread had called it as well and both sides are shut down.
LEMMA ShuttingHolds == Spec => []Shutting
  <1>1. Init => Shutting
    <2> SUFFICES ASSUME Init PROVE Shutting
      OBVIOUS
    <2>1. \A f : ~In(f, <<>>) /\ (In(f, <<"other">>) <=> f = "other")
                 /\ (In(f, <<F("establish")>>) <=> f = F("establish"))
      BY Shapes
    <2>2. F("shutdown") # F("establish")
      BY DEF F
    <2> QED BY <2>1, <2>2 DEF Init, Shutting
  <1>2. IndInv /\ Shutting /\ [Next]_vars => Shutting'
    <2> SUFFICES ASSUME IndInv, Shutting, [Next]_vars PROVE Shutting'
      OBVIOUS
    <2>1. CASE UNCHANGED vars
      BY <2>1 DEF vars, Shutting, ShutdownUser
    <2> QED BY <2>1, ShuttingStep
  <1> QED BY <1>1, <1>2, Invariance, PTL DEF Spec

-----------------------------------------------------------------------------

\* Used carefully, a connection ends the program in one way only: shutdown()
\* after the peer's reset aborts.  Its callbacks may send() while it is
\* connected, close() or shutdown(), its server may be stopped from a callback
\* of another object, another thread may close() it, and writes may fail, in any
\* interleaving with each other and with the peer: no assertion fails, no event
\* or functor meets a dead connection, and none is destroyed unclosed.
THEOREM CarefulUseIsSafe ==
    Spec => [](uses \subseteq CarefulUses =>
                  OnlyKnownFaults /\ (fault # "none" => peer \in {"reset", "dead"}))
  <1> DEFINE Safe == uses \subseteq CarefulUses => Careful \/ fault = "abort"
  <1>1. Init => Careful
    <2> SUFFICES ASSUME Init PROVE Careful
      OBVIOUS
    <2>1. \A f : ~In(f, <<>>) /\ (In(f, <<"other">>) <=> f = "other")
      BY FrameFacts DEF Frame
    <2>2. \A f : In(f, <<F("establish")>>) <=> f = F("establish")
      BY Shapes
    <2>3. Harmless(<<F("establish")>>) /\ Harmless(<<>>)
      <3>1. /\ F("shutdown") # F("establish") /\ F("remove") # F("establish")
            /\ \A m \in Msg : <<"send", m>> # F("establish")
        BY DEF F
      <3> QED BY <2>1, <2>2, <3>1 DEF Harmless
    <2>4. Pending
      BY <2>3 DEF Init, Pending
    <2>5. EventsSafe /\ NoFault /\ Closing /\ Gone
      BY DEF Init, EventsSafe, NoFault, Closing, Gone
    <2>6. Owned
      BY <2>1 DEF Init, Owned
    <2> QED BY <2>4, <2>5, <2>6 DEF Careful
  <1>2. IndInv /\ StateTypes /\ Safe /\ [Next]_vars => Safe'
    <2> SUFFICES ASSUME IndInv, StateTypes, Safe, [Next]_vars, uses' \subseteq CarefulUses
                 PROVE  Careful' \/ fault' = "abort"
      OBVIOUS
    <2>1. CASE Next
      <3>1. uses \subseteq CarefulUses /\ Careful
        BY <2>1, StepFacts
      <3> QED
        BY <2>1, <3>1, CarefulCallbacks, CarefulProceeds, CarefulHandling, CarefulFunctors, CarefulOutside,
           CarefulDestroy DEF Next, LoopThread, Handling, Functors
    <2>2. CASE UNCHANGED vars
      <3>1. (Careful \/ fault = "abort") /\ fault' = fault
        BY <2>2 DEF vars
      <3>2. ASSUME Careful PROVE Careful'
        <4>1. EventsSafe' /\ Owned'
          BY <2>2, <3>2 DEF vars, Careful, EventsSafe, Owned, InOther
        <4>2. NoFault' /\ Closing' /\ Gone'
          BY <2>2, <3>2 DEF vars, Careful, NoFault, Closing, Gone
        <4>3. Pending'
          BY <2>2, <3>2, QueueSame DEF vars, Careful
        <4> QED BY <4>1, <4>2, <4>3 DEF Careful
      <3> QED BY <3>1, <3>2
    <2> QED BY <2>1, <2>2
  <1>3. TypeOK => StateTypes
    BY DEF TypeOK, StateTypes
  <1>4. Safe /\ Shutting => (uses \subseteq CarefulUses =>
                  OnlyKnownFaults /\ (fault # "none" => peer \in {"reset", "dead"}))
    BY DEF Careful, NoFault, Shutting, ShutdownUser, OnlyKnownFaults, CarefulUses
  <1>5. Init => Safe
    BY <1>1
  <1> HIDE DEF Safe
  <1> QED BY <1>2, <1>3, <1>4, <1>5, Invariance, TypeCorrect, ShuttingHolds, PTL DEF Spec
=============================================================================
