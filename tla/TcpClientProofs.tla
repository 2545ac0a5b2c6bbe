---------------------------- MODULE TcpClientProofs ----------------------------
(***************************************************************************)
(* The client's assertions and the end of disconnect(), for any number of  *)
(* connections, calls and queued functors: which assertion fails under     *)
(* which use, and that after disconnect() no socket and no connection is   *)
(* left whatever timers and functors of the attempt before are to come.    *)
(***************************************************************************)
EXTENDS TcpClient, SequenceTheorems, TLAPS

-----------------------------------------------------------------------------
(* The inductive invariant *)

TypeInv ==
    /\ c \in Client
    /\ uses \subseteq Uses
    /\ threads \in {{"loop"}, {"user"}, {"loop", "user"}}
    /\ user \in {"idle", "connect", "disconnect", "queueConnect", "queueDisconnect"}
    /\ wanted \in {"connect", "disconnect", "ended"}

Queued(f) == \E i \in 1..Len(c.queue) : c.queue[i] = f

\* Without the use "mixed" the calls come from one thread, and only calls on another
\* thread are queued.
Callers ==
    /\ threads = {"loop", "user"} => "mixed" \in uses
    /\ threads = {"loop"} => user = "idle" /\ ~Queued("connect")

\* A stopped connector has nothing.
Sockets ==
    /\ c.stopping => c.socket = "none" /\ c.connection = None
    /\ c.socket = "reset" => "lateReset" \in uses

\* The client's connection has its callbacks and has not ended.
Owners ==
    c.connection # None =>
        /\ c.connection \in c.bound
        /\ c.conns[c.connection] \in {"kConnected", "kDisconnecting"}
        /\ c.connection \in c.kept \/ "forget" \in uses

\* The functor of the last disconnect() is still to come, and after it no connect().
Settles ==
    /\ \A i \in 1..Len(c.queue) : c.queue[i] = "connect" =>
          \E j \in 1..Len(c.queue) : i < j /\ c.queue[j] = "disconnect"
    /\ ~c.stopping => Queued("disconnect")

\* disconnect() undoes the wish to connect: its functor is on its way, or the last.
Undone ==
    "mixed" \notin uses =>
        (~c.connecting => user # "queueConnect" /\ (user = "queueDisconnect" \/ Settles))

\* connect() cannot come between the end of a connection and the functor that
\* connects again.
Wishes ==
    uses \cap {"race", "mixed"} = {} =>
        /\ Queued("reconnect") => c.connecting
        /\ wanted = "disconnect" => ~c.connecting

\* One attempt at a time: a call of connect() on its way, a functor, a socket, a timer
\* or a connection.
OneAttempt ==
    uses \cap {"early", "mixed"} = {} =>
        /\ c.bound \subseteq {c.connection}
        /\ c.timers \in {0, 1}
        /\ c.connection # None => c.timers = 0 /\ c.socket = "none"
        /\ c.timers = 1 => c.socket = "none"
        /\ \A i, j \in 1..Len(c.queue) :
              c.queue[i] # "disconnect" /\ c.queue[j] # "disconnect" => i = j
        /\ \A i \in 1..Len(c.queue) : c.queue[i] # "disconnect" =>
              /\ c.timers = 0 /\ c.connection = None
              /\ c.socket = "none" \/ (c.queue[i] = "retry" /\ c.socket = "dead")
        /\ user \in {"connect", "queueConnect"} =>
              /\ c.timers = 0 /\ c.connection = None /\ c.socket = "none"
              /\ \A i \in 1..Len(c.queue) : c.queue[i] = "disconnect"

Parts == TypeInv /\ Callers /\ Sockets /\ Owners /\ Undone /\ Wishes /\ OneAttempt

\* The client goes when its connector is stopped and, but for the uses that are not to
\* be, no functor is left.
Ends ==
    ~c.alive /\ faulty = "none" =>
        /\ user = "idle"
        /\ c.stopping \/ "mixed" \in uses
        /\ c.queue = <<>> \/ uses \cap {"outlive", "mixed"} # {}

IndInv == Parts /\ Ends /\ ClientAsserts

-----------------------------------------------------------------------------
(* The operators on the client's state *)

\* t differs from s at most in its socket, its status and its timers.
SameRest(s, t) ==
    /\ t \in Client
    /\ t.connecting = s.connecting /\ t.stopping = s.stopping
    /\ t.connection = s.connection /\ t.conns = s.conns
    /\ t.bound = s.bound /\ t.kept = s.kept /\ t.queue = s.queue /\ t.alive = s.alive

\* onRetryInLoop() gives up the socket and may add a timer.
LEMMA RetryIs ==
    ASSUME NEW s \in Client
    PROVE  /\ SameRest(s, OnRetry(s)) /\ OnRetry(s).socket = "none"
           /\ OnRetry(s).timers \in {s.timers, s.timers + 1}
  <1> DEFINE n == IF s.delay THEN s.timers + 1 ELSE s.timers
  <1>1. n \in {s.timers, s.timers + 1} /\ n \in Nat
    BY DEF Client
  <1>2. OnRetry(s) = [s EXCEPT !.socket = "none", !.status = "kDisconnected", !.timers = n]
    BY DEF OnRetry, ResetSocket, Client
  <1> HIDE DEF n
  <1> QED BY <1>1, <1>2 DEF SameRest, Client

\* What connectInLoop() has done when it has tried.
Tried(s, t) ==
    \/ t.socket = "pending" /\ t.timers = s.timers
    \/ t.socket = "none" /\ t.timers \in {s.timers, s.timers + 1}

\* connectInLoop() does nothing when it is stopped, else it has a socket, a timer or none.
LEMMA ConnectIs ==
    ASSUME NEW s \in Client, NEW answer
    PROVE  /\ SameRest(s, ConnectInLoop(s, answer))
           /\ s.stopping => ConnectInLoop(s, answer) = s
           /\ ~s.stopping => Tried(s, ConnectInLoop(s, answer))
  <1>1. CASE s.stopping
    BY <1>1 DEF ConnectInLoop, SameRest
  <1>2. CASE ~s.stopping /\ answer = "progress"
    <2>1. ConnectInLoop(s, answer) = [s EXCEPT !.socket = "pending", !.status = "kConnecting"]
      BY <1>2 DEF ConnectInLoop
    <2> QED BY <1>2, <2>1 DEF SameRest, Tried, Client
  <1>3. CASE ~s.stopping /\ answer = "retry"
    <2>1. ConnectInLoop(s, answer) = OnRetry(s)
      BY <1>3 DEF ConnectInLoop
    <2> QED BY <1>3, <2>1, RetryIs DEF Tried
  <1>4. CASE ~s.stopping /\ answer \notin {"progress", "retry"}
    <2>1. ConnectInLoop(s, answer) = [s EXCEPT !.socket = "none"]
      BY <1>4 DEF ConnectInLoop, ResetSocket
    <2> QED BY <1>4, <2>1 DEF SameRest, Tried, Client
  <1> QED BY <1>1, <1>2, <1>3, <1>4

\* t is s after connect().
Connects(s, t) ==
    /\ t \in Client
    /\ t.connecting = s.connecting /\ ~t.stopping /\ Tried(s, t)
    /\ t.connection = s.connection /\ t.conns = s.conns
    /\ t.bound = s.bound /\ t.kept = s.kept /\ t.queue = s.queue /\ t.alive = s.alive

\* The lambda of connect() makes the connector try.
LEMMA DoConnectIs ==
    ASSUME NEW s \in Client, NEW answer
    PROVE  Connects(s, DoConnect(s, answer))
  <1> DEFINE u == [s EXCEPT !.stopping = FALSE]
  <1>1. DoConnect(s, answer) = ConnectInLoop(u, answer)
    BY DEF DoConnect
  <1>2. /\ u \in Client /\ u.connecting = s.connecting /\ ~u.stopping /\ u.socket = s.socket
        /\ u.timers = s.timers /\ u.connection = s.connection /\ u.conns = s.conns
        /\ u.bound = s.bound /\ u.kept = s.kept /\ u.queue = s.queue /\ u.alive = s.alive
    BY DEF Client
  <1> HIDE DEF u
  <1>3. SameRest(u, ConnectInLoop(u, answer)) /\ Tried(u, ConnectInLoop(u, answer))
    BY <1>2, ConnectIs
  <1> QED BY <1>1, <1>2, <1>3 DEF SameRest, Tried, Connects

\* t is s without its connection and its socket.
LetsGo(s, t) ==
    /\ t \in Client
    /\ t.connecting = s.connecting /\ t.stopping /\ t.socket = "none"
    /\ t.timers = s.timers /\ t.connection = None /\ t.kept = s.kept /\ t.queue = s.queue
    /\ t.alive = s.alive /\ t.bound = s.bound \ {s.connection}
    /\ \A y \in Conn : t.conns[y] =
          IF y = s.connection /\ s.conns[y] = "kConnected" THEN "kDisconnected" ELSE s.conns[y]

\* disconnect() gives up the socket, the connection and its callbacks.
LEMMA LetGoIs ==
    ASSUME NEW s \in Client
    PROVE  LetsGo(s, LetGo(s))
  <1> DEFINE d == [s EXCEPT !.socket = "none", !.stopping = TRUE, !.status = "kDisconnected"]
  <1>1. DisconnectInLoop(s) = d
    BY DEF DisconnectInLoop, ResetSocket, Client
  <1>2. /\ d \in Client /\ d.connecting = s.connecting /\ d.stopping /\ d.socket = "none"
        /\ d.timers = s.timers /\ d.connection = s.connection /\ d.kept = s.kept
        /\ d.queue = s.queue /\ d.bound = s.bound /\ d.conns = s.conns /\ d.alive = s.alive
    BY DEF Client
  <1> HIDE DEF d
  <1>3. CASE s.connection = None
    <2>1. LetGo(s) = d
      BY <1>1, <1>2, <1>3 DEF LetGo
    <2>2. s.bound \ {s.connection} = s.bound
      BY <1>3, ClientAssumption DEF Client
    <2>3. \A y \in Conn : y # s.connection
      BY <1>3, ClientAssumption
    <2> QED BY <1>2, <1>3, <2>1, <2>2, <2>3 DEF LetsGo
  <1>4. CASE s.connection # None
    <2> DEFINE x == s.connection
    <2> DEFINE u == Unbind(d, x)
    <2>1. x \in Conn
      BY <1>4 DEF Client
    <2> HIDE DEF x
    <2>2. /\ u \in Client /\ u.connecting = d.connecting /\ u.stopping = d.stopping
          /\ u.socket = d.socket /\ u.timers = d.timers /\ u.kept = d.kept
          /\ u.queue = d.queue /\ u.bound = d.bound \ {x} /\ u.conns = d.conns
          /\ u.alive = d.alive
      BY <1>2 DEF Unbind, Client
    <2> HIDE DEF u
    <2> DEFINE v == CloseConnection(u, x)
    <2>3. /\ v \in Client /\ v.connecting = u.connecting /\ v.stopping = u.stopping
          /\ v.socket = u.socket /\ v.timers = u.timers /\ v.kept = u.kept
          /\ v.queue = u.queue /\ v.bound = u.bound /\ v.alive = u.alive
          /\ \A y \in Conn : v.conns[y] =
                IF y = x /\ u.conns[y] = "kConnected" THEN "kDisconnected" ELSE u.conns[y]
      BY <2>1, <2>2 DEF CloseConnection, Client
    <2> HIDE DEF v
    <2>4. LetGo(s) = [v EXCEPT !.connection = None]
      BY <1>1, <1>2, <1>4 DEF LetGo, u, v, x
    <2>5. /\ LetGo(s) \in Client /\ LetGo(s).connecting = v.connecting
          /\ LetGo(s).stopping = v.stopping /\ LetGo(s).socket = v.socket
          /\ LetGo(s).timers = v.timers /\ LetGo(s).kept = v.kept
          /\ LetGo(s).queue = v.queue /\ LetGo(s).bound = v.bound
          /\ LetGo(s).conns = v.conns /\ LetGo(s).connection = None
          /\ LetGo(s).alive = v.alive
      BY <2>3, <2>4 DEF Client
    <2> QED BY <1>2, <2>2, <2>3, <2>5 DEF LetsGo, x
  <1> QED BY <1>3, <1>4

\* t is s after the last shared_ptr to x may have gone.
Releases(s, t, x) ==
    /\ t \in Client
    /\ t.connecting = s.connecting /\ t.stopping = s.stopping /\ t.socket = s.socket
    /\ t.timers = s.timers /\ t.connection = s.connection /\ t.bound = s.bound
    /\ t.kept = s.kept /\ t.queue = s.queue /\ t.alive = s.alive
    /\ \A y \in Conn : t.conns[y] = s.conns[y] \/ (y = x /\ ~Owned(s, x))

\* The end of a shared_ptr destroys only a connection that nobody owns.
LEMMA ReleaseIs ==
    ASSUME NEW s \in Client, NEW x \in Conn \cup {None}
    PROVE  Releases(s, Release(s, x), x)
  <1>1. CASE x = None \/ Owned(s, x)
    BY <1>1 DEF Release, Releases
  <1>2. CASE ~(x = None \/ Owned(s, x))
    <2>1. Release(s, x) = [s EXCEPT !.conns[x] = "none"]
      BY <1>2 DEF Release
    <2> QED BY <1>2, <2>1, SMTT(30) DEF Releases, Client
  <1> QED BY <1>1, <1>2

\* t has one more functor than s.
Queues(s, t, f) ==
    /\ t \in Client
    /\ t.connecting = s.connecting /\ t.stopping = s.stopping
    /\ t.socket = s.socket /\ t.timers = s.timers
    /\ t.connection = s.connection /\ t.conns = s.conns
    /\ t.bound = s.bound /\ t.kept = s.kept /\ t.alive = s.alive
    /\ Len(s.queue) \in Nat /\ Len(t.queue) = Len(s.queue) + 1
    /\ t.queue[Len(s.queue) + 1] = f
    /\ \A i \in 1..Len(s.queue) : t.queue[i] = s.queue[i]

\* queueInLoop() puts a functor behind the others.
LEMMA QueuesOne ==
    ASSUME NEW s \in Client, NEW f \in {"connect", "disconnect", "retry", "reconnect"}
    PROVE  Queues(s, [s EXCEPT !.queue = Append(s.queue, f)], f)
  <1> DEFINE F == {"connect", "disconnect", "retry", "reconnect"}
  <1> DEFINE q == Append(s.queue, f)
  <1>1. s.queue \in Seq(F)
    BY DEF Client
  <1> HIDE DEF F
  <1>2. /\ q \in Seq(F) /\ Len(s.queue) \in Nat /\ Len(q) = Len(s.queue) + 1
        /\ q[Len(s.queue) + 1] = f /\ \A i \in 1..Len(s.queue) : q[i] = s.queue[i]
    BY <1>1 DEF F
  <1> HIDE DEF q
  <1>3. /\ [s EXCEPT !.queue = q] \in Client /\ [s EXCEPT !.queue = q].queue = q
    BY <1>2 DEF Client, F
  <1>4. Queues(s, [s EXCEPT !.queue = q], f)
    BY <1>2, <1>3 DEF Queues, Client
  <1> QED BY <1>4 DEF q

\* t has one functor less than s.
Dequeues(s, t) ==
    /\ t \in Client
    /\ t.connecting = s.connecting /\ t.stopping = s.stopping
    /\ t.socket = s.socket /\ t.timers = s.timers
    /\ t.connection = s.connection /\ t.conns = s.conns
    /\ t.bound = s.bound /\ t.kept = s.kept /\ t.alive = s.alive
    /\ Len(s.queue) \in Nat \ {0} /\ Len(t.queue) = Len(s.queue) - 1
    /\ \A i \in 1..Len(s.queue) - 1 : t.queue[i] = s.queue[i + 1]

\* The loop takes the first functor.
LEMMA DequeuesOne ==
    ASSUME NEW s \in Client, s.queue # <<>>
    PROVE  Dequeues(s, [s EXCEPT !.queue = Tail(s.queue)])
  <1> DEFINE F == {"connect", "disconnect", "retry", "reconnect"}
  <1> DEFINE q == Tail(s.queue)
  <1>1. s.queue \in Seq(F)
    BY DEF Client
  <1> HIDE DEF F
  <1>2. /\ q \in Seq(F) /\ Len(s.queue) \in Nat \ {0} /\ Len(q) = Len(s.queue) - 1
        /\ \A i \in 1..Len(s.queue) - 1 : q[i] = s.queue[i + 1]
    BY <1>1
  <1> HIDE DEF q
  <1>3. [s EXCEPT !.queue = q] \in Client /\ [s EXCEPT !.queue = q].queue = q
    BY <1>2 DEF Client, F
  <1>4. Dequeues(s, [s EXCEPT !.queue = q])
    BY <1>2, <1>3 DEF Dequeues, Client
  <1> QED BY <1>4 DEF q

\* What disconnect() leaves of the client.
Gone(s, t) ==
    /\ t \in Client
    /\ t.connecting = s.connecting /\ t.stopping /\ t.socket = "none"
    /\ t.timers = s.timers /\ t.connection = None /\ t.kept = s.kept /\ t.queue = s.queue
    /\ t.bound = s.bound \ {s.connection} /\ t.alive = s.alive

\* The whole of disconnect().
LEMMA DisconnectIs ==
    ASSUME NEW s \in Client
    PROVE  Gone(s, Release(LetGo(s), s.connection))
  <1> DEFINE g == LetGo(s)
  <1> DEFINE x == s.connection
  <1>1. x \in Conn \cup {None}
    BY DEF Client
  <1>2. LetsGo(s, g)
    BY LetGoIs
  <1> HIDE DEF g, x
  <1>3. g \in Client
    BY <1>2 DEF LetsGo
  <1>4. Releases(g, Release(g, x), x)
    BY <1>1, <1>3, ReleaseIs
  <1>5. Gone(s, Release(g, x))
    BY <1>2, <1>4 DEF LetsGo, Releases, Gone
  <1> QED BY <1>5 DEF g, x

\* Only the destruction of an object, which nobody owns then, fails an assertion.
LEMMA VerdictIs ==
    ASSUME NEW s, NEW x, NEW handling \in BOOLEAN, Verdict(s, x, handling) # "none"
    PROVE  /\ x # None /\ ~Owned(s, x)
           /\ \/ Verdict(s, x, handling) = "!_handling" /\ handling
              \/ /\ Verdict(s, x, handling) = "_status == kDisconnected"
                 /\ s.conns[x] # "kDisconnected"
  <1>1. ~(x = None \/ Owned(s, x))
    BY DEF Verdict
  <1>2. CASE s.conns[x] # "kDisconnected"
    BY <1>1, <1>2 DEF Verdict
  <1>3. CASE s.conns[x] = "kDisconnected"
    BY <1>1, <1>3 DEF Verdict
  <1> QED BY <1>1, <1>2, <1>3

\* While the client exists nothing has ended.
LEMMA NotYet ==
    ASSUME c'.alive \/ faulty' # "none"
    PROVE  Ends'
  BY DEF Ends

\* What the loop does after the end of the client.
LEMMA EndsStay ==
    ASSUME Ends, faulty = "none", UNCHANGED <<uses, user>>, c'.alive = c.alive,
           "mixed" \in uses \/ (c.stopping => c'.stopping),
           c.queue = <<>> => c'.queue = <<>> \/ c.alive \/ "mixed" \in uses
    PROVE  Ends'
  BY DEF Ends

-----------------------------------------------------------------------------
(* Events of the connector's socket and timers *)

\* The attempt goes on: c.socket and c.timers change, and nothing else of the client.
LEMMA AttemptGoesOn ==
    ASSUME Parts, SameRest(c, c'), UNCHANGED <<uses, threads, user, wanted>>,
           c.stopping => c'.socket = "none",
           c'.socket = "reset" => "lateReset" \in uses,
           uses \cap {"early", "mixed"} = {} =>
              /\ c.socket \in {"pending", "up", "polled", "reset"} \/ c.timers = 1
              /\ c'.timers \in {0, 1} /\ (c'.timers = 1 => c'.socket = "none")
    PROVE  Parts'
  <1>0. /\ c' \in Client /\ c'.connecting = c.connecting /\ c'.stopping = c.stopping
        /\ c'.connection = c.connection /\ c'.conns = c.conns
        /\ c'.bound = c.bound /\ c'.kept = c.kept /\ c'.queue = c.queue
    BY DEF SameRest
  <1>1. TypeInv'
    BY <1>0 DEF Parts, TypeInv
  <1>2. Callers'
    BY <1>0 DEF Parts, Callers, Queued
  <1>3. Sockets'
    BY <1>0 DEF Parts, Sockets
  <1>4. Owners'
    BY <1>0 DEF Parts, Owners
  <1>5. Undone' /\ Wishes'
    BY <1>0 DEF Parts, Undone, Wishes, Settles, Queued
  <1>6. OneAttempt'
    <2> SUFFICES ASSUME (uses \cap {"early", "mixed"} = {})' PROVE OneAttempt'
      BY DEF OneAttempt
    <2>1. uses \cap {"early", "mixed"} = {}
      OBVIOUS
    <2>2. c.connection = None /\ user \notin {"connect", "queueConnect"}
      BY <2>1 DEF Parts, OneAttempt
    <2>3. \A i \in 1..Len(c.queue) : c.queue[i] = "disconnect"
      BY <2>1 DEF Parts, OneAttempt
    <2>4. c.bound \subseteq {c.connection}
      BY <2>1 DEF Parts, OneAttempt
    <2> QED BY <1>0, <2>1, <2>2, <2>3, <2>4 DEF OneAttempt
  <1> QED BY <1>1, <1>2, <1>3, <1>4, <1>5, <1>6 DEF Parts

\* The network's events of the socket.
LEMMA NetworkInv ==
    ASSUME IndInv, (\E outcome \in {"up", "dead"} : ConnectEnds(outcome)) \/ PollWritable
                      \/ PeerResets
    PROVE  IndInv'
  <1>1. PICK v \in {"up", "dead", "polled", "reset"} :
          /\ c' = [c EXCEPT !.socket = v] /\ c.socket \in {"pending", "up", "polled"}
          /\ v = "reset" => "lateReset" \in uses
          /\ UNCHANGED <<uses, threads, user, wanted, faulty>> /\ faulty = "none"
    BY DEF ConnectEnds, PollWritable, PeerResets, Sound
  <1>2. c \in Client
    BY DEF IndInv, Parts, TypeInv
  <1>3. SameRest(c, c') /\ c'.socket = v /\ c'.timers = c.timers
    BY <1>1, <1>2 DEF SameRest, Client
  <1>4. ~c.stopping
    BY <1>1 DEF IndInv, Parts, Sockets
  <1>5. uses \cap {"early", "mixed"} = {} => c.timers = 0
    BY <1>1 DEF IndInv, Parts, OneAttempt
  <1>6. Parts'
    BY <1>1, <1>3, <1>4, <1>5, AttemptGoesOn DEF IndInv
  <1>7. Ends'
    BY <1>1, <1>3, EndsStay DEF IndInv, SameRest
  <1> QED BY <1>1, <1>6, <1>7 DEF IndInv, ClientAsserts

\* onRetryInLoop() called in the handler of a socket that was reset.
LEMMA HandleWriteErrorInv ==
    ASSUME IndInv, HandleWriteError
    PROVE  IndInv'
  <1>1. /\ c.socket = "reset" /\ c' = OnRetry(c) /\ faulty' = "!_handling"
        /\ UNCHANGED <<uses, threads, user, wanted>>
    BY DEF HandleWriteError
  <1>2. c \in Client
    BY DEF IndInv, Parts, TypeInv
  <1>3. SameRest(c, c') /\ c'.socket = "none" /\ c'.timers \in {c.timers, c.timers + 1}
    BY <1>1, <1>2, RetryIs
  <1>4. ~c.stopping /\ "lateReset" \in uses
    BY <1>1 DEF IndInv, Parts, Sockets
  <1>5. uses \cap {"early", "mixed"} = {} => c.timers = 0
    BY <1>1 DEF IndInv, Parts, OneAttempt
  <1>6. Parts'
    BY <1>1, <1>3, <1>4, <1>5, AttemptGoesOn DEF IndInv
  <1>7. Ends'
    BY <1>1, NotYet
  <1> QED BY <1>1, <1>4, <1>6, <1>7 DEF IndInv, ClientAsserts

\* A retry timer fires.
LEMMA TimerFiresInv ==
    ASSUME IndInv, NEW answer, TimerFires(answer)
    PROVE  IndInv'
  <1> DEFINE s == [c EXCEPT !.timers = c.timers - 1]
  <1>1. /\ c.timers > 0 /\ c' = ConnectInLoop(s, answer) /\ faulty = "none"
        /\ faulty' = CASE ~c.alive /\ ~c.stopping /\ answer = "retry" -> "dangling"
                       [] ~c.alive /\ c'.timers = 0 -> ConnectorVerdict(c')
                       [] OTHER -> "none"
        /\ UNCHANGED <<uses, threads, user, wanted>>
    BY DEF TimerFires, Sound
  <1>2. c \in Client
    BY DEF IndInv, Parts, TypeInv
  <1>3. SameRest(c, s) /\ s.socket = c.socket /\ s.timers = c.timers - 1
    BY <1>1, <1>2 DEF SameRest, Client
  <1> HIDE DEF s
  <1>4. s \in Client
    BY <1>3 DEF SameRest
  <1>5. SameRest(s, c') /\ (s.stopping => c' = s) /\ (~s.stopping => Tried(s, c'))
    BY <1>1, <1>4, ConnectIs
  <1>6. SameRest(c, c')
    BY <1>3, <1>5 DEF SameRest
  <1>7. s.stopping = c.stopping
    BY <1>3 DEF SameRest
  <1>8. c.stopping => c'.socket = "none"
    BY <1>3, <1>5, <1>7 DEF IndInv, Parts, Sockets
  <1>9. c'.socket = "reset" => "lateReset" \in uses
    BY <1>3, <1>5, <1>7 DEF IndInv, Parts, Sockets, Tried
  <1>10. uses \cap {"early", "mixed"} = {} =>
            /\ c.timers = 1 /\ c.socket = "none"
            /\ c'.timers \in {0, 1} /\ (c'.timers = 1 => c'.socket = "none")
    <2>1. uses \cap {"early", "mixed"} = {} => c.timers = 1 /\ c.socket = "none"
      BY <1>1, <1>2 DEF IndInv, Parts, OneAttempt, Client
    <2> QED BY <1>3, <1>5, <1>7, <2>1 DEF Tried
  <1>11. Parts'
    BY <1>1, <1>6, <1>8, <1>9, <1>10, AttemptGoesOn DEF IndInv
  <1>12. c'.alive = c.alive /\ c'.stopping = c.stopping /\ c'.queue = c.queue
    BY <1>6 DEF SameRest
  <1>13. Ends'
    BY <1>1, <1>12, EndsStay DEF IndInv
  <1>14. ClientAsserts'
    <2>1. CASE c.alive
      <3>1. faulty' = "none"
        BY <1>1, <2>1
      <3> QED BY <3>1 DEF ClientAsserts
    <2>2. CASE ~c.alive /\ "mixed" \in uses
      <3>1. faulty' \in {"dangling", "!!_stopping", "!_socket", "none"}
        BY <1>1 DEF ConnectorVerdict
      <3> QED BY <1>1, <2>2, <3>1 DEF ClientAsserts
    <2>3. CASE ~c.alive /\ "mixed" \notin uses
      <3>1. c.stopping
        BY <1>1, <2>3 DEF IndInv, Ends
      <3>2. ConnectorVerdict(c') = "none"
        BY <1>8, <1>12, <3>1 DEF ConnectorVerdict
      <3>3. faulty' = "none"
        BY <1>1, <3>1, <3>2
      <3> QED BY <3>3 DEF ClientAsserts
    <2> QED BY <2>1, <2>2, <2>3
  <1> QED BY <1>11, <1>13, <1>14 DEF IndInv

-----------------------------------------------------------------------------
(* Calls of the application *)

\* connect() on the loop thread.
LEMMA LoopConnectInv ==
    ASSUME IndInv, NEW answer, LoopConnect(answer)
    PROVE  IndInv'
  <1> DEFINE s == [c EXCEPT !.connecting = TRUE]
  <1>1. /\ "loop" \in threads /\ (Quiet \/ "early" \in uses) /\ c.alive
        /\ Polled => uses \cap {"overtake", "mixed"} # {}
        /\ faulty' = Overtakes
        /\ wanted' = "connect" /\ UNCHANGED <<uses, threads, user>>
    BY DEF LoopConnect, MayConnect, MayOvertake, Running
  <1>2. c \in Client
    BY DEF IndInv, Parts, TypeInv
  <1>3. c' = DoConnect(s, answer)
    BY DEF LoopConnect
  <1>4. /\ s \in Client /\ s.connecting = TRUE /\ s.timers = c.timers
        /\ s.connection = c.connection /\ s.conns = c.conns
        /\ s.bound = c.bound /\ s.kept = c.kept /\ s.queue = c.queue /\ s.alive = c.alive
    BY <1>2 DEF Client
  <1> HIDE DEF s
  <1>5. Connects(s, c')
    BY <1>3, <1>4, DoConnectIs
  <1>6. /\ c' \in Client /\ c'.connecting = TRUE /\ ~c'.stopping
        /\ c'.connection = c.connection /\ c'.conns = c.conns
        /\ c'.bound = c.bound /\ c'.kept = c.kept /\ c'.queue = c.queue /\ c'.alive
    BY <1>1, <1>4, <1>5 DEF Connects
  <1>7. \/ c'.socket = "pending" /\ c'.timers = c.timers
        \/ c'.socket = "none" /\ c'.timers \in {c.timers, c.timers + 1}
    BY <1>4, <1>5 DEF Connects, Tried
  <1>8. TypeInv'
    BY <1>1, <1>6 DEF IndInv, Parts, TypeInv
  <1>9. Callers'
    BY <1>1, <1>6 DEF IndInv, Parts, Callers, Queued
  <1>10. Sockets'
    BY <1>6, <1>7 DEF Sockets
  <1>11. Owners'
    BY <1>1, <1>6 DEF IndInv, Parts, Owners
  <1>12. Undone' /\ Wishes'
    BY <1>1, <1>6 DEF Undone, Wishes
  <1>13. OneAttempt'
    <2> SUFFICES ASSUME uses \cap {"early", "mixed"} = {} PROVE OneAttempt'
      BY <1>1 DEF OneAttempt
    <2>1. c.stopping /\ c.timers = 0 /\ c.queue = <<>>
      BY <1>1 DEF Quiet
    <2>2. c.connection = None /\ c.bound \subseteq {c.connection}
      BY <2>1 DEF IndInv, Parts, Sockets, OneAttempt
    <2>3. user = "idle"
      BY <1>1 DEF IndInv, Parts, TypeInv, Callers
    <2> QED BY <1>1, <1>6, <1>7, <2>1, <2>2, <2>3 DEF OneAttempt
  <1>14. ClientAsserts'
    <2>1. faulty' = "none" \/ (faulty' = "danglingFd" /\ uses \cap {"overtake", "mixed"} # {})
      BY <1>1 DEF Overtakes
    <2> QED BY <1>1, <2>1 DEF ClientAsserts
  <1>15. Ends'
    BY <1>6, NotYet
  <1> QED BY <1>8, <1>9, <1>10, <1>11, <1>12, <1>13, <1>14, <1>15 DEF IndInv, Parts

\* Another thread begins connect() or disconnect().
LEMMA UserCallsInv ==
    ASSUME IndInv, NEW call \in {"connect", "disconnect"}, UserCalls(call)
    PROVE  IndInv'
  <1>1. /\ "user" \in threads /\ user = "idle" /\ user' = call
        /\ call = "connect" => Quiet \/ "early" \in uses
        /\ UNCHANGED <<c, uses, threads, wanted, faulty>> /\ c.alive
    BY DEF UserCalls, MayConnect, Running
  <1>2. TypeInv'
    BY <1>1 DEF IndInv, Parts, TypeInv
  <1>3. Callers'
    BY <1>1 DEF IndInv, Parts, Callers, Queued
  <1>4. Sockets' /\ Owners'
    BY <1>1 DEF IndInv, Parts, Sockets, Owners
  <1>5. Undone' /\ Wishes'
    BY <1>1 DEF IndInv, Parts, Undone, Wishes, Settles, Queued
  <1>6. OneAttempt'
    <2>1. CASE call = "connect" /\ uses \cap {"early", "mixed"} = {}
      <3>1. c.stopping /\ c.timers = 0 /\ c.queue = <<>>
        BY <1>1, <2>1 DEF Quiet
      <3>2. c.connection = None /\ c.socket = "none"
        BY <3>1 DEF IndInv, Parts, Sockets
      <3> QED BY <1>1, <2>1, <3>1, <3>2 DEF IndInv, Parts, OneAttempt
    <2>2. CASE call = "disconnect" \/ uses \cap {"early", "mixed"} # {}
      BY <1>1, <2>2 DEF IndInv, Parts, OneAttempt
    <2> QED BY <2>1, <2>2
  <1>7. ClientAsserts' /\ Ends'
    BY <1>1, NotYet DEF IndInv, ClientAsserts
  <1> QED BY <1>2, <1>3, <1>4, <1>5, <1>6, <1>7 DEF IndInv, Parts

\* Another thread stores _connecting.
LEMMA UserStoresInv ==
    ASSUME IndInv, UserStores
    PROVE  IndInv'
  <1>1. /\ user \in {"connect", "disconnect"}
        /\ user = "disconnect" => MayDisconnect
        /\ wanted' = user
        /\ c' = [c EXCEPT !.connecting = (user = "connect")]
        /\ user' = IF user = "connect" THEN "queueConnect" ELSE "queueDisconnect"
        /\ UNCHANGED <<uses, threads, faulty>> /\ c.alive
    BY DEF UserStores, Running
  <1>2. c \in Client
    BY DEF IndInv, Parts, TypeInv
  <1>3. /\ c' \in Client /\ c'.connecting = (user = "connect") /\ c'.stopping = c.stopping
        /\ c'.socket = c.socket /\ c'.timers = c.timers
        /\ c'.connection = c.connection /\ c'.conns = c.conns
        /\ c'.bound = c.bound /\ c'.kept = c.kept /\ c'.queue = c.queue
        /\ c'.alive
    BY <1>1, <1>2 DEF Client
  <1>4. TypeInv'
    BY <1>1, <1>3 DEF IndInv, Parts, TypeInv
  <1>5. Callers'
    BY <1>1, <1>3 DEF IndInv, Parts, Callers, Queued
  <1>6. Sockets' /\ Owners'
    BY <1>1, <1>3 DEF IndInv, Parts, Sockets, Owners
  <1>7. Wishes'
    <2>1. CASE user = "connect"
      BY <1>1, <1>3, <2>1 DEF Wishes
    <2>2. CASE user = "disconnect"
      <3>1. Queued("reconnect") => "race" \in uses
        BY <1>1, <2>2 DEF MayDisconnect, Contains, Queued
      <3> QED BY <1>1, <1>3, <2>2, <3>1 DEF Wishes, Queued
    <2> QED BY <1>1, <2>1, <2>2
  <1>7a. Undone'
    BY <1>1, <1>3 DEF Undone
  <1>8. OneAttempt'
    BY <1>1, <1>3 DEF IndInv, Parts, OneAttempt
  <1>9. ClientAsserts' /\ Ends'
    BY <1>1, <1>3, NotYet DEF IndInv, ClientAsserts
  <1> QED BY <1>4, <1>5, <1>6, <1>7, <1>7a, <1>8, <1>9 DEF IndInv, Parts

\* Another thread queues the functor.
LEMMA UserQueuesInv ==
    ASSUME IndInv, UserQueues
    PROVE  IndInv'
  <1> DEFINE f == IF user = "queueConnect" THEN "connect" ELSE "disconnect"
  <1> DEFINE n == Len(c.queue)
  <1>1. /\ user \in {"queueConnect", "queueDisconnect"} /\ user' = "idle"
        /\ c' = [c EXCEPT !.queue = Append(c.queue, f)]
        /\ UNCHANGED <<uses, threads, wanted, faulty>> /\ c.alive
    BY DEF UserQueues, Running
  <1>2. c \in Client /\ f \in {"connect", "disconnect"}
    BY DEF IndInv, Parts, TypeInv
  <1> HIDE DEF f
  <1>3. Queues(c, c', f)
    BY <1>1, <1>2, QueuesOne
  <1>4. /\ c' \in Client /\ c'.connecting = c.connecting /\ c'.stopping = c.stopping
        /\ c'.socket = c.socket /\ c'.timers = c.timers
        /\ c'.connection = c.connection /\ c'.conns = c.conns
        /\ c'.bound = c.bound /\ c'.kept = c.kept /\ c'.alive = c.alive
        /\ n \in Nat /\ Len(c'.queue) = n + 1 /\ c'.queue[n + 1] = f
        /\ \A i \in 1..n : c'.queue[i] = c.queue[i]
    BY <1>3 DEF Queues
  <1> HIDE DEF n
  <1>5. TypeInv'
    BY <1>1, <1>4 DEF IndInv, Parts, TypeInv
  <1>6. Callers'
    BY <1>1, <1>2, <1>4 DEF IndInv, Parts, TypeInv, Callers, Queued, n, f
  <1>7. Sockets' /\ Owners'
    BY <1>1, <1>4 DEF IndInv, Parts, Sockets, Owners
  <1>8. Wishes'
    <2> SUFFICES ASSUME uses \cap {"race", "mixed"} = {} PROVE Wishes'
      BY <1>1 DEF Wishes
    <2>1. Queued("reconnect")' => Queued("reconnect")
      BY <1>2, <1>4 DEF Queued, n
    <2> QED BY <1>1, <1>4, <2>1 DEF IndInv, Parts, Wishes
  <1>8a. Undone'
    <2> SUFFICES ASSUME "mixed" \notin uses, ~c.connecting PROVE Settles'
      BY <1>1, <1>4 DEF Undone
    <2>1. f = "disconnect"
      BY <1>1 DEF IndInv, Parts, Undone, f
    <2> QED BY <1>4, <2>1 DEF Settles, Queued
  <1>9. OneAttempt'
    <2> SUFFICES ASSUME uses \cap {"early", "mixed"} = {} PROVE OneAttempt'
      BY <1>1 DEF OneAttempt
    <2>1. CASE user = "queueConnect"
      <3>1. /\ c.timers = 0 /\ c.connection = None /\ c.socket = "none"
            /\ \A i \in 1..n : c.queue[i] = "disconnect"
            /\ c.bound \subseteq {c.connection}
        BY <2>1 DEF IndInv, Parts, OneAttempt, n
      <3> QED BY <1>1, <1>4, <3>1 DEF OneAttempt
    <2>2. CASE user = "queueDisconnect"
      <3>1. f = "disconnect"
        BY <2>2 DEF f
      <3>2. /\ \A i, j \in 1..n : c.queue[i] # "disconnect" /\ c.queue[j] # "disconnect" => i = j
            /\ \A i \in 1..n : c.queue[i] # "disconnect" =>
                  /\ c.timers = 0 /\ c.connection = None
                  /\ c.socket = "none" \/ (c.queue[i] = "retry" /\ c.socket = "dead")
        BY DEF IndInv, Parts, OneAttempt, n
      <3>3. /\ c.bound \subseteq {c.connection}
            /\ c.timers \in {0, 1}
            /\ c.connection # None => c.timers = 0 /\ c.socket = "none"
            /\ c.timers = 1 => c.socket = "none"
        BY DEF IndInv, Parts, OneAttempt
      <3> QED BY <1>1, <1>4, <3>1, <3>2, <3>3 DEF OneAttempt
    <2> QED BY <1>1, <2>1, <2>2
  <1>10. ClientAsserts' /\ Ends'
    BY <1>1, <1>4, NotYet DEF IndInv, ClientAsserts
  <1> QED BY <1>5, <1>6, <1>7, <1>8, <1>8a, <1>9, <1>10 DEF IndInv, Parts

\* disconnect() on the loop thread.
LEMMA LoopDisconnectInv ==
    ASSUME IndInv, NEW handling \in BOOLEAN, LoopDisconnect(handling)
    PROVE  IndInv'
  <1> DEFINE s == [c EXCEPT !.connecting = FALSE]
  <1> DEFINE x == c.connection
  <1> DEFINE v == Verdict(LetGo(s), x, handling)
  <1>1. /\ "loop" \in threads /\ MayDisconnect
        /\ c' = Release(LetGo(s), x)
        /\ faulty' = (IF v # "none" THEN v ELSE Overtakes)
        /\ (Polled => uses \cap {"overtake", "mixed"} # {}) /\ c.alive
        /\ wanted' = "disconnect" /\ UNCHANGED <<uses, threads, user>>
    BY DEF LoopDisconnect, MayOvertake, Running
  <1>2. c \in Client
    BY DEF IndInv, Parts, TypeInv
  <1>3. /\ s \in Client /\ s.connecting = FALSE /\ s.timers = c.timers
        /\ s.connection = x /\ s.bound = c.bound /\ s.kept = c.kept /\ s.queue = c.queue
        /\ s.alive = c.alive
    BY <1>2 DEF Client
  <1> HIDE DEF s
  <1>4. Gone(s, c')
    BY <1>1, <1>3, DisconnectIs
  <1>5. /\ c' \in Client /\ c'.connecting = FALSE /\ c'.stopping /\ c'.socket = "none"
        /\ c'.timers = c.timers /\ c'.connection = None /\ c'.queue = c.queue
        /\ c'.bound = c.bound \ {c.connection} /\ c'.alive
    BY <1>1, <1>3, <1>4 DEF Gone
  <1>6. TypeInv'
    BY <1>1, <1>5 DEF IndInv, Parts, TypeInv
  <1>7. Callers'
    BY <1>1, <1>5 DEF IndInv, Parts, Callers, Queued
  <1>8. Sockets' /\ Owners'
    BY <1>5 DEF Sockets, Owners
  <1>9. Wishes'
    <2> SUFFICES ASSUME uses \cap {"race", "mixed"} = {} PROVE Wishes'
      BY <1>1 DEF Wishes
    <2>1. threads = {"loop"}
      BY <1>1 DEF IndInv, Parts, TypeInv, Callers
    <2>2. ~Queued("reconnect")
      BY <1>1 DEF MayDisconnect, Contains, Queued
    <2>3. ~Queued("reconnect")'
      BY <1>5, <2>2 DEF Queued
    <2> QED BY <1>1, <1>5, <2>3 DEF Wishes
  <1>9a. Undone'
    <2> SUFFICES ASSUME "mixed" \notin uses PROVE user' # "queueConnect" /\ Settles'
      BY <1>1 DEF Undone
    <2>1. threads = {"loop"}
      BY <1>1 DEF IndInv, Parts, TypeInv, Callers
    <2>2. user = "idle" /\ ~Queued("connect")
      BY <2>1 DEF IndInv, Parts, Callers
    <2> QED BY <1>1, <1>5, <2>2 DEF Settles, Queued
  <1>10. OneAttempt'
    <2> SUFFICES ASSUME uses \cap {"early", "mixed"} = {} PROVE OneAttempt'
      BY <1>1 DEF OneAttempt
    <2>1. c.bound \subseteq {c.connection}
      BY DEF IndInv, Parts, OneAttempt
    <2>2. c'.bound \subseteq {c'.connection}
      BY <1>5, <2>1
    <2> QED BY <1>1, <1>5, <2>2 DEF IndInv, Parts, OneAttempt
  <1>11. ClientAsserts'
    <2> DEFINE g == LetGo(s)
    <2>1. g.kept = c.kept
      BY <1>3, LetGoIs DEF LetsGo
    <2> HIDE DEF g
    <2>2. CASE v = "none"
      <3>1. faulty' = "none" \/ (faulty' = "danglingFd" /\ uses \cap {"overtake", "mixed"} # {})
        BY <1>1, <2>2 DEF Overtakes
      <3> QED BY <1>1, <3>1 DEF ClientAsserts
    <2>3. CASE v # "none"
      <3>1. x # None /\ ~Owned(g, x) /\ v \in {"!_handling", "_status == kDisconnected"}
        BY <2>3, VerdictIs DEF g
      <3>2. x \notin c.kept
        BY <2>1, <3>1 DEF Owned
      <3>3. "forget" \in uses
        BY <3>1, <3>2 DEF IndInv, Parts, Owners
      <3> QED BY <1>1, <3>1, <3>3 DEF ClientAsserts
    <2> QED BY <2>2, <2>3
  <1>12. Ends'
    BY <1>5, NotYet
  <1> QED BY <1>6, <1>7, <1>8, <1>9, <1>9a, <1>10, <1>11, <1>12 DEF IndInv, Parts

\* shutdown() of the client's connection.
LEMMA ShutdownInv ==
    ASSUME IndInv, Shutdown
    PROVE  IndInv'
  <1> DEFINE x == c.connection
  <1>1. /\ x # None /\ c' = [c EXCEPT !.conns[x] = "kDisconnecting"]
        /\ UNCHANGED <<uses, threads, user, wanted, faulty>> /\ c.alive
    BY DEF Shutdown, Running
  <1>2. c \in Client
    BY DEF IndInv, Parts, TypeInv
  <1>3. x \in Conn
    BY <1>1, <1>2 DEF Client
  <1>4. /\ c' \in Client /\ c'.connecting = c.connecting /\ c'.stopping = c.stopping
        /\ c'.socket = c.socket /\ c'.timers = c.timers /\ c'.connection = x
        /\ c'.bound = c.bound /\ c'.kept = c.kept /\ c'.queue = c.queue
        /\ c'.conns[x] = "kDisconnecting" /\ c'.alive
    BY <1>1, <1>2, <1>3 DEF Client
  <1>5. TypeInv'
    BY <1>1, <1>4 DEF IndInv, Parts, TypeInv
  <1>6. Callers'
    BY <1>1, <1>4 DEF IndInv, Parts, Callers, Queued
  <1>7. Sockets' /\ Owners'
    BY <1>1, <1>4 DEF IndInv, Parts, Sockets, Owners
  <1>8. Undone' /\ Wishes'
    BY <1>1, <1>4 DEF IndInv, Parts, Undone, Wishes, Settles, Queued
  <1>9. OneAttempt'
    BY <1>1, <1>4 DEF IndInv, Parts, OneAttempt
  <1>10. ClientAsserts' /\ Ends'
    BY <1>1, <1>4, NotYet DEF IndInv, ClientAsserts
  <1> QED BY <1>5, <1>6, <1>7, <1>8, <1>9, <1>10 DEF IndInv, Parts

\* The application drops its shared_ptr to a connection.
LEMMA DropInv ==
    ASSUME IndInv, NEW x \in Conn, Drop(x)
    PROVE  IndInv'
  <1> DEFINE s == [c EXCEPT !.kept = c.kept \ {x}]
  <1> DEFINE v == Verdict(s, x, FALSE)
  <1>1. /\ c.conns[x] = "kDisconnected" \/ "forget" \in uses
        /\ c' = Release(s, x) /\ faulty' = v
        /\ UNCHANGED <<uses, threads, user, wanted>> /\ faulty = "none"
    BY DEF Drop, Sound
  <1>2. c \in Client
    BY DEF IndInv, Parts, TypeInv
  <1>3. /\ s \in Client /\ s.connecting = c.connecting /\ s.stopping = c.stopping
        /\ s.socket = c.socket /\ s.timers = c.timers /\ s.connection = c.connection
        /\ s.conns = c.conns /\ s.bound = c.bound /\ s.kept = c.kept \ {x}
        /\ s.queue = c.queue /\ s.alive = c.alive
    BY <1>2 DEF Client
  <1> HIDE DEF s
  <1>4. Releases(s, c', x)
    BY <1>1, <1>3, ReleaseIs
  <1>5. /\ c' \in Client /\ c'.connecting = c.connecting /\ c'.stopping = c.stopping
        /\ c'.socket = c.socket /\ c'.timers = c.timers /\ c'.connection = c.connection
        /\ c'.bound = c.bound /\ c'.kept = c.kept \ {x} /\ c'.queue = c.queue
        /\ c'.alive = c.alive
        /\ \A y \in Conn : c'.conns[y] = c.conns[y] \/ (y = x /\ ~Owned(s, x))
    BY <1>3, <1>4 DEF Releases
  <1>6. TypeInv'
    BY <1>1, <1>5 DEF IndInv, Parts, TypeInv
  <1>7. Callers'
    BY <1>1, <1>5 DEF IndInv, Parts, Callers, Queued
  <1>8. Sockets'
    BY <1>1, <1>5 DEF IndInv, Parts, Sockets
  <1>9. Owners'
    <2> SUFFICES ASSUME c.connection # None PROVE Owners'
      BY <1>5 DEF Owners
    <2> DEFINE y == c.connection
    <2>1. y \in Conn
      BY <1>2 DEF Client
    <2>2. /\ y \in c.bound /\ c.conns[y] \in {"kConnected", "kDisconnecting"}
          /\ y \in c.kept \/ "forget" \in uses
      BY DEF IndInv, Parts, Owners
    <2>3. c'.conns[y] = c.conns[y]
      BY <1>3, <1>5, <2>1 DEF Owned
    <2>4. y \in c.kept \ {x} \/ "forget" \in uses
      BY <1>1, <2>2
    <2> QED BY <1>1, <1>5, <2>2, <2>3, <2>4 DEF Owners
  <1>10. Undone' /\ Wishes'
    BY <1>1, <1>5 DEF IndInv, Parts, Undone, Wishes, Settles, Queued
  <1>11. OneAttempt'
    BY <1>1, <1>5 DEF IndInv, Parts, OneAttempt
  <1>12. ClientAsserts'
    <2>1. CASE v = "none"
      BY <1>1, <2>1 DEF ClientAsserts
    <2>2. CASE v # "none"
      <3>1. v = "_status == kDisconnected" /\ s.conns[x] # "kDisconnected"
        BY <2>2, VerdictIs
      <3>2. "forget" \in uses
        BY <1>1, <1>3, <3>1
      <3> QED BY <1>1, <3>1, <3>2 DEF ClientAsserts
    <2> QED BY <2>1, <2>2
  <1>13. Ends'
    BY <1>1, <1>5, EndsStay DEF IndInv
  <1> QED BY <1>6, <1>7, <1>8, <1>9, <1>10, <1>11, <1>12, <1>13 DEF IndInv, Parts

\* ~TcpClient and ~TcpConnector.
LEMMA DestroyClientInv ==
    ASSUME IndInv, DestroyClient
    PROVE  IndInv'
  <1>1. /\ wanted = "disconnect" /\ user = "idle" /\ ~Queued("disconnect")
        /\ c.queue # <<>> => uses \cap {"outlive", "mixed"} # {}
        /\ c' = [c EXCEPT !.alive = FALSE]
        /\ faulty' = CASE c.connecting -> "!_connecting"
                       [] ~c.connecting /\ c.timers = 0 -> ConnectorVerdict(c)
                       [] OTHER -> "none"
        /\ UNCHANGED <<uses, threads, user, wanted>>
    BY DEF DestroyClient, Contains, Queued
  <1>2. c \in Client
    BY DEF IndInv, Parts, TypeInv
  <1>3. c'.socket = c.socket /\ c'.timers = c.timers
    BY <1>1, <1>2 DEF Client
  <1>4. /\ c' \in Client /\ c'.connecting = c.connecting /\ c'.stopping = c.stopping
        /\ c'.connection = c.connection /\ c'.conns = c.conns
        /\ c'.bound = c.bound /\ c'.kept = c.kept /\ c'.queue = c.queue
    BY <1>1, <1>2 DEF Client
  <1>5. TypeInv'
    BY <1>1, <1>4 DEF IndInv, Parts, TypeInv
  <1>6. Callers'
    BY <1>1, <1>4 DEF IndInv, Parts, Callers, Queued
  <1>7. Sockets' /\ Owners'
    BY <1>1, <1>3, <1>4 DEF IndInv, Parts, Sockets, Owners
  <1>8. Undone' /\ Wishes'
    BY <1>1, <1>4 DEF IndInv, Parts, Undone, Wishes, Settles, Queued
  <1>8a. "mixed" \notin uses /\ ~c.connecting => c.stopping
    BY <1>1 DEF IndInv, Parts, Undone, Settles
  <1>9. OneAttempt'
    BY <1>1, <1>3, <1>4 DEF IndInv, Parts, OneAttempt
  <1>10. ClientAsserts'
    <2>1. CASE uses \cap {"race", "mixed"} # {}
      <3>1. faulty' \in {"!_connecting", "!!_stopping", "!_socket", "none"}
        BY <1>1 DEF ConnectorVerdict
      <3> QED BY <1>1, <2>1, <3>1 DEF ClientAsserts
    <2>2. CASE uses \cap {"race", "mixed"} = {}
      <3>1. ~c.connecting /\ c.stopping
        BY <1>1, <1>8a, <2>2 DEF IndInv, Parts, Wishes
      <3>2. ConnectorVerdict(c) = "none"
        BY <3>1 DEF IndInv, Parts, Sockets, ConnectorVerdict
      <3>3. faulty' = "none"
        BY <1>1, <3>1, <3>2
      <3> QED BY <3>3 DEF ClientAsserts
    <2> QED BY <2>1, <2>2
  <1>11. Ends'
    <2> SUFFICES ASSUME faulty' = "none" PROVE Ends'
      BY NotYet
    <2>1. ~c.connecting
      BY <1>1
    <2> QED BY <1>1, <1>4, <1>8a, <2>1 DEF Ends
  <1> QED BY <1>5, <1>6, <1>7, <1>8, <1>9, <1>10, <1>11 DEF IndInv, Parts

-----------------------------------------------------------------------------
(* Functors *)

\* What is in the queue when its first functor is gone.
LEMMA QueueBehind ==
    ASSUME NEW s, Dequeues(c, s), c'.queue = s.queue
    PROVE  /\ \A f : Queued(f)' => Queued(f)
           /\ \A f : Queued(f) /\ c.queue[1] # f => Queued(f)'
  <1> DEFINE n == Len(c.queue)
  <1>1. /\ n \in Nat \ {0} /\ Len(c'.queue) = n - 1
        /\ \A i \in 1..n - 1 : c'.queue[i] = c.queue[i + 1]
    BY DEF Dequeues
  <1> HIDE DEF n
  <1>2. ASSUME NEW f, Queued(f)' PROVE Queued(f)
    <2>1. PICK i \in 1..n - 1 : c'.queue[i] = f
      BY <1>1, <1>2 DEF Queued
    <2>2. i + 1 \in 1..n /\ c.queue[i + 1] = f
      BY <1>1, <2>1
    <2> QED BY <2>2 DEF Queued, n
  <1>3. ASSUME NEW f, Queued(f), c.queue[1] # f PROVE Queued(f)'
    <2>1. PICK i \in 1..n : c.queue[i] = f
      BY <1>3 DEF Queued, n
    <2>2. i - 1 \in 1..n - 1 /\ c.queue[(i - 1) + 1] = f
      BY <1>1, <1>3, <2>1
    <2> QED BY <1>1, <2>2 DEF Queued
  <1> QED BY <1>2, <1>3

\* What is queued stays settled unless the last disconnect() was the first functor.
LEMMA SettlesBehind ==
    ASSUME NEW s, Dequeues(c, s), c'.queue = s.queue, Settles,
           \/ c'.stopping
           \/ c.queue[1] = "connect"
           \/ c.queue[1] # "disconnect" /\ ~c.stopping
    PROVE  Settles'
  <1> DEFINE n == Len(c.queue)
  <1>1. /\ n \in Nat \ {0} /\ Len(c'.queue) = n - 1
        /\ \A i \in 1..n - 1 : c'.queue[i] = c.queue[i + 1]
    BY DEF Dequeues
  <1>2. \A i \in 1..n : c.queue[i] = "connect" =>
          \E j \in 1..n : i < j /\ c.queue[j] = "disconnect"
    BY DEF Settles
  <1> HIDE DEF n
  <1>3. ASSUME NEW i \in 1..n - 1, c'.queue[i] = "connect"
        PROVE  \E j \in 1..n - 1 : i < j /\ c'.queue[j] = "disconnect"
    <2>1. i + 1 \in 1..n /\ c.queue[i + 1] = "connect"
      BY <1>1, <1>3
    <2>2. PICK j \in 1..n : i + 1 < j /\ c.queue[j] = "disconnect"
      BY <1>2, <2>1
    <2>3. j - 1 \in 1..n - 1 /\ i < j - 1 /\ c.queue[(j - 1) + 1] = "disconnect"
      BY <1>1, <2>2
    <2> QED BY <1>1, <2>3
  <1>4. c.queue[1] = "connect" => Queued("disconnect")
    <2>1. 1 \in 1..n
      BY <1>1
    <2> QED BY <1>2, <2>1 DEF Queued, n
  <1>5. ~c'.stopping => Queued("disconnect")'
    <2>1. \A f : Queued(f) /\ c.queue[1] # f => Queued(f)'
      BY QueueBehind
    <2> QED BY <1>4, <2>1 DEF Settles
  <1> QED BY <1>1, <1>3, <1>5 DEF Settles

\* A functor of an attempt is the only one, and the attempt has nothing else.
LEMMA OnlyAttempt ==
    ASSUME IndInv, NEW s, Dequeues(c, s), c'.queue = s.queue, c.queue[1] # "disconnect",
           uses \cap {"early", "mixed"} = {}
    PROVE  /\ c.timers = 0 /\ c.connection = None /\ c.bound \subseteq {None}
           /\ c.socket = "none" \/ (c.queue[1] = "retry" /\ c.socket = "dead")
           /\ user \notin {"connect", "queueConnect"}
           /\ \A i \in 1..Len(c'.queue) : c'.queue[i] = "disconnect"
  <1> DEFINE n == Len(c.queue)
  <1>1. /\ n \in Nat \ {0} /\ Len(c'.queue) = n - 1
        /\ \A i \in 1..n - 1 : c'.queue[i] = c.queue[i + 1]
    BY DEF Dequeues
  <1>2. /\ \A i, j \in 1..n : c.queue[i] # "disconnect" /\ c.queue[j] # "disconnect" => i = j
        /\ \A i \in 1..n : c.queue[i] # "disconnect" =>
              /\ c.timers = 0 /\ c.connection = None
              /\ c.socket = "none" \/ (c.queue[i] = "retry" /\ c.socket = "dead")
        /\ user \in {"connect", "queueConnect"} => \A i \in 1..n : c.queue[i] = "disconnect"
        /\ c.bound \subseteq {c.connection}
    BY DEF IndInv, Parts, OneAttempt
  <1> HIDE DEF n
  <1>3. 1 \in 1..n
    BY <1>1
  <1>4. ASSUME NEW i \in 1..n - 1 PROVE c'.queue[i] = "disconnect"
    <2>1. i + 1 \in 1..n /\ i + 1 # 1
      BY <1>1
    <2>2. c.queue[i + 1] = "disconnect"
      BY <1>2, <1>3, <2>1
    <2> QED BY <1>1, <2>2
  <1> QED BY <1>1, <1>2, <1>3, <1>4

\* The functors of an attempt: connect(), the end of an attempt and connecting again.
LEMMA AttemptFunctor ==
    ASSUME IndInv, NEW s, Dequeues(c, s), c.queue[1] # "disconnect",
           UNCHANGED <<uses, threads, user, wanted>>, faulty = "none", c.queue # <<>>,
           faulty' = (IF c.alive THEN "none" ELSE "dangling"), c'.alive = c.alive,
           c' \in Client, c'.connection = c.connection, c'.conns = c.conns,
           c'.bound = c.bound, c'.kept = c.kept, c'.queue = s.queue,
           IF c.queue[1] = "reconnect" THEN c'.connecting ELSE c'.connecting = c.connecting,
           \/ /\ c'.stopping = c.stopping
              /\ c'.socket = c.socket \/ c'.socket = "none"
           \/ /\ ~c'.stopping /\ c'.socket \in {"none", "pending"}
              /\ c.queue[1] = "connect" \/ (c.queue[1] = "reconnect" /\ ~c.connecting),
           c'.timers \in {c.timers, c.timers + 1},
           c'.timers = c.timers + 1 \/ c.queue[1] = "retry" => c'.socket = "none"
    PROVE  IndInv'
  <1>1. /\ \A f : Queued(f)' => Queued(f)
        /\ \A f : Queued(f) /\ c.queue[1] # f => Queued(f)'
    BY QueueBehind
  <1>2. Queued(c.queue[1])
    BY DEF Dequeues, Queued
  <1>3. TypeInv'
    BY DEF IndInv, Parts, TypeInv
  <1>4. Callers'
    BY <1>1 DEF IndInv, Parts, Callers
  <1>5. Sockets'
    BY DEF IndInv, Parts, Sockets
  <1>6. Owners'
    BY DEF IndInv, Parts, Owners
  <1>7. Wishes'
    <2> SUFFICES ASSUME uses \cap {"race", "mixed"} = {} PROVE Wishes'
      BY DEF Wishes
    <2>1. Queued("reconnect") => c.connecting
      BY DEF IndInv, Parts, Wishes
    <2>2. Queued("reconnect")' => c'.connecting
      BY <1>1, <2>1
    <2>3. wanted = "disconnect" => ~c.connecting /\ c.queue[1] # "reconnect"
      BY <1>2, <2>1 DEF IndInv, Parts, Wishes
    <2> QED BY <2>2, <2>3 DEF Wishes
  <1>7a. Undone'
    <2> SUFFICES ASSUME "mixed" \notin uses, ~c'.connecting
                 PROVE  user # "queueConnect" /\ (user = "queueDisconnect" \/ Settles')
      BY DEF Undone
    <2>1. c.queue[1] # "reconnect" /\ ~c.connecting
      OBVIOUS
    <2>2. user # "queueConnect" /\ (user = "queueDisconnect" \/ Settles)
      BY <2>1 DEF IndInv, Parts, Undone
    <2>3. c'.stopping \/ c.queue[1] = "connect" \/ (c.queue[1] # "disconnect" /\ ~c.stopping)
      BY <2>1, <1>3 DEF IndInv, Parts, TypeInv, Client
    <2>4. Settles => Settles'
      BY <2>3, SettlesBehind
    <2> QED BY <2>2, <2>4
  <1>8. OneAttempt'
    <2> SUFFICES ASSUME uses \cap {"early", "mixed"} = {} PROVE OneAttempt'
      BY DEF OneAttempt
    <2>1. /\ c.timers = 0 /\ c.connection = None /\ c.bound \subseteq {None}
          /\ c.socket = "none" \/ (c.queue[1] = "retry" /\ c.socket = "dead")
          /\ user \notin {"connect", "queueConnect"}
          /\ \A i \in 1..Len(c'.queue) : c'.queue[i] = "disconnect"
      BY OnlyAttempt
    <2>2. c'.timers \in {0, 1} /\ (c'.timers = 1 => c'.socket = "none")
      BY <2>1
    <2> QED BY <2>1, <2>2 DEF OneAttempt
  <1>9. ClientAsserts'
    <2>1. ~c.alive => uses \cap {"outlive", "mixed"} # {}
      BY DEF IndInv, Ends
    <2> QED BY <2>1 DEF ClientAsserts
  <1>10. Ends'
    BY NotYet
  <1> QED BY <1>3, <1>4, <1>5, <1>6, <1>7, <1>7a, <1>8, <1>9, <1>10 DEF IndInv, Parts

\* The functor of disconnect().
LEMMA DisconnectFunctor ==
    ASSUME IndInv, NEW s, Dequeues(c, s), c' = DoDisconnect(s),
           UNCHANGED <<uses, threads, user, wanted>>,
           faulty = "none", c.queue # <<>>,
           faulty' = (IF c.alive THEN Verdict(LetGo(s), s.connection, FALSE) ELSE "dangling")
    PROVE  IndInv'
  <1> DEFINE n == Len(c.queue)
  <1>1. /\ s \in Client /\ s.connecting = c.connecting /\ s.timers = c.timers
        /\ s.connection = c.connection /\ s.bound = c.bound /\ s.kept = c.kept
        /\ s.alive = c.alive
        /\ n \in Nat \ {0} /\ Len(s.queue) = n - 1
        /\ \A i \in 1..n - 1 : s.queue[i] = c.queue[i + 1]
    BY DEF Dequeues
  <1>2. Gone(s, c')
    BY <1>1, DisconnectIs DEF DoDisconnect
  <1>3. /\ c' \in Client /\ c'.connecting = c.connecting /\ c'.stopping /\ c'.socket = "none"
        /\ c'.timers = c.timers /\ c'.connection = None /\ c'.queue = s.queue
        /\ c'.bound = c.bound \ {c.connection} /\ c'.alive = c.alive
    BY <1>1, <1>2 DEF Gone
  <1>4. \A f : Queued(f)' => Queued(f)
    BY <1>3, QueueBehind
  <1>5. TypeInv'
    BY <1>3 DEF IndInv, Parts, TypeInv
  <1>6. Callers'
    BY <1>4 DEF IndInv, Parts, Callers
  <1>7. Sockets' /\ Owners'
    BY <1>3 DEF Sockets, Owners
  <1>8. Undone' /\ Wishes'
    <2>1. Settles => Settles'
      BY <1>3, SettlesBehind
    <2> QED BY <1>3, <1>4, <2>1 DEF IndInv, Parts, Undone, Wishes
  <1>9. OneAttempt'
    <2> SUFFICES ASSUME uses \cap {"early", "mixed"} = {} PROVE OneAttempt'
      BY DEF OneAttempt
    <2>1. /\ c.bound \subseteq {c.connection} /\ c.timers \in {0, 1}
          /\ \A i, j \in 1..n : c.queue[i] # "disconnect" /\ c.queue[j] # "disconnect" => i = j
          /\ \A i \in 1..n : c.queue[i] # "disconnect" => c.timers = 0
          /\ user \in {"connect", "queueConnect"} =>
                c.timers = 0 /\ \A i \in 1..n : c.queue[i] = "disconnect"
      BY DEF IndInv, Parts, OneAttempt
    <2> HIDE DEF n
    <2>2. c'.bound \subseteq {c'.connection}
      BY <1>3, <2>1
    <2>3. /\ Len(c'.queue) = n - 1
          /\ \A i \in 1..n - 1 : i + 1 \in 1..n /\ c'.queue[i] = c.queue[i + 1]
      BY <1>1, <1>3
    <2>4. \A i, j \in 1..n - 1 : c'.queue[i] # "disconnect" /\ c'.queue[j] # "disconnect" => i = j
      <3> SUFFICES ASSUME NEW i \in 1..n - 1, NEW j \in 1..n - 1,
                          c'.queue[i] # "disconnect", c'.queue[j] # "disconnect"
                   PROVE  i = j
        OBVIOUS
      <3>1. i + 1 = j + 1
        BY <2>1, <2>3
      <3> QED BY <1>1, <3>1
    <2>5. \A i \in 1..n - 1 : c'.queue[i] # "disconnect" => c'.timers = 0
      BY <1>3, <2>1, <2>3
    <2>6. user \in {"connect", "queueConnect"} =>
            c'.timers = 0 /\ \A i \in 1..n - 1 : c'.queue[i] = "disconnect"
      BY <1>3, <2>1, <2>3
    <2> QED BY <1>3, <2>1, <2>2, <2>3, <2>4, <2>5, <2>6 DEF OneAttempt
  <1>10. ClientAsserts'
    <2> DEFINE g == LetGo(s)
    <2> DEFINE x == c.connection
    <2> DEFINE v == Verdict(g, x, FALSE)
    <2>0. ~c.alive => faulty' = "dangling" /\ uses \cap {"outlive", "mixed"} # {}
      BY DEF IndInv, Ends
    <2>4. CASE ~c.alive
      BY <2>0, <2>4 DEF ClientAsserts
    <2>5. c.alive => faulty' = v
      BY <1>1
    <2>1. g.kept = c.kept
      BY <1>1, LetGoIs DEF LetsGo
    <2> HIDE DEF g
    <2>2. CASE c.alive /\ v = "none"
      BY <2>5, <2>2 DEF ClientAsserts
    <2>3. CASE c.alive /\ v # "none"
      <3>1. x # None /\ ~Owned(g, x) /\ v \in {"!_handling", "_status == kDisconnected"}
        BY <2>3, VerdictIs
      <3>2. x \notin c.kept
        BY <2>1, <3>1 DEF Owned
      <3>3. "forget" \in uses
        BY <3>1, <3>2 DEF IndInv, Parts, Owners
      <3> QED BY <2>3, <2>5, <3>1, <3>3 DEF ClientAsserts
    <2> QED BY <2>2, <2>3, <2>4
  <1>11. Ends'
    BY <1>3, NotYet
  <1> QED BY <1>5, <1>6, <1>7, <1>8, <1>9, <1>10, <1>11 DEF IndInv, Parts

\* The loop executes a functor.
LEMMA ExecuteInv ==
    ASSUME IndInv, NEW answer, Execute(answer)
    PROVE  IndInv'
  <1> DEFINE s == [c EXCEPT !.queue = Tail(c.queue)]
  <1> DEFINE f == c.queue[1]
  <1>1. c \in Client /\ c.queue # <<>> /\ faulty = "none"
    BY DEF IndInv, Parts, TypeInv, Execute, Sound
  <1>2. Head(c.queue) = f /\ f \in {"connect", "disconnect", "retry", "reconnect"}
    BY <1>1 DEF Client
  <1>3. /\ c' = CASE f = "connect" -> DoConnect(s, answer)
                  [] f = "disconnect" -> DoDisconnect(s)
                  [] f = "retry" -> OnRetry(s)
                  [] f = "reconnect" ->
                       IF s.connecting THEN s
                       ELSE DoConnect([s EXCEPT !.connecting = TRUE], answer)
        /\ faulty' = CASE ~c.alive -> "dangling"
                       [] c.alive /\ f = "disconnect" ->
                            Verdict(LetGo(s), s.connection, FALSE)
                       [] OTHER -> "none"
        /\ UNCHANGED <<uses, threads, user, wanted>>
    BY <1>2 DEF Execute
  <1>4. Dequeues(c, s)
    BY <1>1, DequeuesOne
  <1> HIDE DEF s
  <1>5. /\ s \in Client /\ s.connecting = c.connecting /\ s.stopping = c.stopping
        /\ s.socket = c.socket /\ s.timers = c.timers
        /\ s.connection = c.connection /\ s.conns = c.conns
        /\ s.bound = c.bound /\ s.kept = c.kept /\ s.alive = c.alive
    BY <1>4 DEF Dequeues
  <1>6. c.timers \in Nat
    BY <1>1 DEF Client
  <1>7. CASE f = "connect"
    <2>1. c' = DoConnect(s, answer) /\ faulty' = (IF c.alive THEN "none" ELSE "dangling")
      BY <1>3, <1>7
    <2>2. Connects(s, c')
      BY <1>5, <2>1, DoConnectIs
    <2> QED BY <1>1, <1>3, <1>4, <1>5, <1>6, <1>7, <2>1, <2>2, AttemptFunctor DEF Connects, Tried
  <1>8. CASE f = "disconnect"
    <2>1. /\ c' = DoDisconnect(s)
          /\ faulty' = (IF c.alive THEN Verdict(LetGo(s), s.connection, FALSE) ELSE "dangling")
      BY <1>3, <1>8
    <2> QED BY <1>1, <1>3, <1>4, <1>8, <2>1, DisconnectFunctor
  <1>9. CASE f = "retry"
    <2>1. c' = OnRetry(s) /\ faulty' = (IF c.alive THEN "none" ELSE "dangling")
      BY <1>3, <1>9
    <2>2. SameRest(s, c') /\ c'.socket = "none" /\ c'.timers \in {s.timers, s.timers + 1}
      BY <1>5, <2>1, RetryIs
    <2> QED BY <1>1, <1>3, <1>4, <1>5, <1>6, <1>9, <2>1, <2>2, AttemptFunctor DEF SameRest
  <1>10. CASE f = "reconnect"
    <2>1. CASE s.connecting
      <3>1. c' = s /\ faulty' = (IF c.alive THEN "none" ELSE "dangling")
        BY <1>3, <1>10, <2>1
      <3>2. /\ c' \in Client /\ c'.connection = c.connection /\ c'.conns = c.conns
            /\ c'.bound = c.bound /\ c'.kept = c.kept /\ c'.queue = s.queue
            /\ c'.connecting /\ c'.stopping = c.stopping /\ c'.alive = c.alive
            /\ c'.socket = c.socket /\ c'.timers = c.timers
        BY <1>5, <2>1, <3>1
      <3>3. c'.timers # c.timers + 1
        BY <1>6, <3>2
      <3> QED BY <1>1, <1>3, <1>4, <1>10, <3>1, <3>2, <3>3, AttemptFunctor
    <2>2. CASE ~s.connecting
      <3> DEFINE u == [s EXCEPT !.connecting = TRUE]
      <3>1. c' = DoConnect(u, answer) /\ faulty' = (IF c.alive THEN "none" ELSE "dangling")
        BY <1>3, <1>10, <2>2
      <3>2. /\ u \in Client /\ u.connecting = TRUE /\ u.timers = s.timers
            /\ u.connection = s.connection /\ u.conns = s.conns
            /\ u.bound = s.bound /\ u.kept = s.kept /\ u.queue = s.queue /\ u.alive = s.alive
        BY <1>5 DEF Client
      <3> HIDE DEF u
      <3>3. Connects(u, c')
        BY <3>1, <3>2, DoConnectIs
      <3>4. /\ c' \in Client /\ c'.connection = c.connection /\ c'.conns = c.conns
            /\ c'.bound = c.bound /\ c'.kept = c.kept /\ c'.queue = s.queue
            /\ c'.connecting /\ ~c'.stopping /\ c'.alive = c.alive
            /\ \/ c'.socket = "pending" /\ c'.timers = c.timers
               \/ c'.socket = "none" /\ c'.timers \in {c.timers, c.timers + 1}
        BY <1>5, <3>2, <3>3 DEF Connects, Tried
      <3>5. /\ c'.timers \in {c.timers, c.timers + 1} /\ c'.socket \in {"none", "pending"}
            /\ c'.timers = c.timers + 1 => c'.socket = "none"
        BY <1>6, <3>4
      <3>6. ~c.connecting
        BY <1>5, <2>2
      <3> QED BY <1>1, <1>3, <1>4, <1>10, <3>1, <3>4, <3>5, <3>6, AttemptFunctor
    <2> QED BY <2>1, <2>2
  <1> QED BY <1>2, <1>7, <1>8, <1>9, <1>10

-----------------------------------------------------------------------------
(* Events of the connector and of a connection *)

\* t is s with the socket in a new connection x.
Takes(s, t, x, keep) ==
    /\ t \in Client
    /\ t.connecting = s.connecting /\ t.stopping = s.stopping /\ t.socket = "none"
    /\ t.timers = s.timers /\ t.connection = x /\ t.bound = s.bound \cup {x}
    /\ t.kept = (IF keep THEN s.kept \cup {x} ELSE s.kept) /\ t.queue = s.queue
    /\ t.alive = s.alive
    /\ \A y \in Conn : t.conns[y] = IF y = x THEN "kConnected" ELSE s.conns[y]

\* newConnectionInLoop() makes the socket a connection.
LEMMA TakeSocketIs ==
    ASSUME NEW s \in Client, NEW x \in Conn, NEW keep \in BOOLEAN
    PROVE  Takes(s, TakeSocket(s, x, keep), x, keep)
  <1> DEFINE e == [s EXCEPT !.bound = s.bound \cup {x}, !.conns[x] = "kConnected"]
  <1> DEFINE k == IF keep THEN s.kept \cup {x} ELSE s.kept
  <1>1. /\ e \in Client /\ e.connecting = s.connecting /\ e.stopping = s.stopping
        /\ e.timers = s.timers /\ e.bound = s.bound \cup {x} /\ e.kept = s.kept
        /\ e.queue = s.queue /\ e.alive = s.alive
        /\ \A y \in Conn : e.conns[y] = IF y = x THEN "kConnected" ELSE s.conns[y]
    BY DEF Client
  <1>2. Establish(s, x) = e
    BY DEF Establish
  <1> HIDE DEF e
  <1>3. k \in SUBSET Conn
    BY DEF Client
  <1>4. TakeSocket(s, x, keep) =
          [e EXCEPT !.socket = "none", !.status = "kConnected", !.connection = x, !.kept = k]
    BY <1>1, <1>2 DEF TakeSocket
  <1> HIDE DEF k
  <1>5. /\ TakeSocket(s, x, keep) \in Client
        /\ TakeSocket(s, x, keep).connecting = e.connecting
        /\ TakeSocket(s, x, keep).stopping = e.stopping
        /\ TakeSocket(s, x, keep).socket = "none" /\ TakeSocket(s, x, keep).timers = e.timers
        /\ TakeSocket(s, x, keep).connection = x /\ TakeSocket(s, x, keep).bound = e.bound
        /\ TakeSocket(s, x, keep).kept = k /\ TakeSocket(s, x, keep).queue = e.queue
        /\ TakeSocket(s, x, keep).conns = e.conns /\ TakeSocket(s, x, keep).alive = e.alive
    BY <1>1, <1>3, <1>4 DEF Client
  <1> QED BY <1>1, <1>5 DEF Takes, k

\* The connector hands its socket to the client.
LEMMA HandleWriteInv ==
    ASSUME IndInv, NEW x \in Conn, NEW keep \in BOOLEAN, HandleWrite(x, keep)
    PROVE  IndInv'
  <1> DEFINE s == TakeSocket(c, x, keep)
  <1> DEFINE old == c.connection
  <1> DEFINE v == Verdict(s, old, FALSE)
  <1>1. /\ c.socket = "polled" /\ (~keep => "forget" \in uses)
        /\ c' = Release(s, old) /\ faulty' = (IF c.alive THEN v ELSE "dangling")
        /\ UNCHANGED <<uses, threads, user, wanted>> /\ faulty = "none"
    BY DEF HandleWrite, Sound
  <1>2. c \in Client /\ old \in Conn \cup {None}
    BY DEF IndInv, Parts, TypeInv, Client
  <1>3. Takes(c, s, x, keep)
    BY <1>2, TakeSocketIs
  <1> HIDE DEF s
  <1>4. Releases(s, c', old)
    BY <1>1, <1>2, <1>3, ReleaseIs DEF Takes
  <1>5. /\ c' \in Client /\ c'.connecting = c.connecting /\ c'.stopping = c.stopping
        /\ c'.socket = "none" /\ c'.timers = c.timers /\ c'.connection = x
        /\ c'.bound = c.bound \cup {x} /\ c'.queue = c.queue
        /\ c'.kept = (IF keep THEN c.kept \cup {x} ELSE c.kept) /\ c'.alive = c.alive
    BY <1>3, <1>4 DEF Releases, Takes
  <1>6. c'.conns[x] = "kConnected"
    <2>1. Owned(s, x) /\ s.conns[x] = "kConnected"
      BY <1>3 DEF Takes, Owned
    <2> QED BY <1>4, <2>1 DEF Releases
  <1>7. TypeInv'
    BY <1>1, <1>5 DEF IndInv, Parts, TypeInv
  <1>8. Callers'
    BY <1>1, <1>5 DEF IndInv, Parts, Callers, Queued
  <1>9. Sockets'
    BY <1>1, <1>5 DEF IndInv, Parts, Sockets
  <1>10. Owners'
    BY <1>1, <1>5, <1>6 DEF Owners
  <1>11. Undone' /\ Wishes'
    BY <1>1, <1>5 DEF IndInv, Parts, Undone, Wishes, Settles, Queued
  <1>12. OneAttempt'
    <2> SUFFICES ASSUME uses \cap {"early", "mixed"} = {} PROVE OneAttempt'
      BY <1>1 DEF OneAttempt
    <2>1. /\ c.timers = 0 /\ c.connection = None /\ c.bound \subseteq {None}
          /\ user \notin {"connect", "queueConnect"}
          /\ \A i \in 1..Len(c.queue) : c.queue[i] = "disconnect"
      BY <1>1 DEF IndInv, Parts, OneAttempt
    <2>2. c'.bound \subseteq {c'.connection}
      BY <1>2, <1>5, <2>1, ClientAssumption DEF Client
    <2> QED BY <1>1, <1>5, <2>1, <2>2 DEF OneAttempt
  <1>13. ClientAsserts'
    <2>3. CASE ~c.alive
      <3>1. "mixed" \in uses
        BY <1>1, <2>3 DEF IndInv, Parts, Sockets, Ends
      <3> QED BY <1>1, <2>3, <3>1 DEF ClientAsserts
    <2>1. CASE c.alive /\ v = "none"
      BY <1>1, <2>1 DEF ClientAsserts
    <2>2. CASE c.alive /\ v # "none"
      <3>1. v = "_status == kDisconnected" /\ old # None /\ ~Owned(s, old)
        BY <2>2, VerdictIs
      <3>2. old \notin c.kept
        BY <1>3, <3>1 DEF Takes, Owned
      <3>3. "forget" \in uses
        BY <3>1, <3>2 DEF IndInv, Parts, Owners
      <3> QED BY <1>1, <2>2, <3>1, <3>3 DEF ClientAsserts
    <2> QED BY <2>1, <2>2, <2>3
  <1>14. Ends'
    BY <1>1, <1>5, EndsStay DEF IndInv
  <1> QED BY <1>7, <1>8, <1>9, <1>10, <1>11, <1>12, <1>13, <1>14 DEF IndInv, Parts

\* A functor that is not connect() is queued by the loop.
LEMMA QueueGrows ==
    ASSUME NEW s, NEW f, Queues(s, c', f), s.queue = c.queue, f # "connect", f # "disconnect"
    PROVE  /\ \A g : g # f => (Queued(g)' <=> Queued(g))
           /\ (c'.stopping = c.stopping) /\ Settles => Settles'
  <1> DEFINE n == Len(c.queue)
  <1>1. /\ n \in Nat /\ Len(c'.queue) = n + 1 /\ c'.queue[n + 1] = f
        /\ \A i \in 1..n : c'.queue[i] = c.queue[i]
    BY DEF Queues
  <1> HIDE DEF n
  <1>2. ASSUME NEW g, g # f PROVE Queued(g)' <=> Queued(g)
    BY <1>1, <1>2 DEF Queued, n
  <1>3. ASSUME c'.stopping = c.stopping, Settles PROVE Settles'
    <2>1. \A i \in 1..n : c.queue[i] = "connect" =>
            \E j \in 1..n : i < j /\ c.queue[j] = "disconnect"
      BY <1>3 DEF Settles, n
    <2>2. \A i \in 1..n + 1 : c'.queue[i] = "connect" =>
            \E j \in 1..n + 1 : i < j /\ c'.queue[j] = "disconnect"
      BY <1>1, <2>1
    <2>3. ~c'.stopping => Queued("disconnect")'
      BY <1>2, <1>3 DEF Settles
    <2> QED BY <1>1, <2>2, <2>3 DEF Settles
  <1> QED BY <1>2, <1>3

\* The end of a failed attempt is reported.
LEMMA HandleConnectorCloseInv ==
    ASSUME IndInv, HandleConnectorClose
    PROVE  IndInv'
  <1> DEFINE n == Len(c.queue)
  <1>1. /\ c.socket = "dead" /\ ~Contains(c.queue, "retry")
        /\ c' = [c EXCEPT !.queue = Append(c.queue, "retry")]
        /\ UNCHANGED <<uses, threads, user, wanted, faulty>> /\ faulty = "none"
    BY DEF HandleConnectorClose, Sound
  <1>2. c \in Client
    BY DEF IndInv, Parts, TypeInv
  <1>3. Queues(c, c', "retry")
    BY <1>1, <1>2, QueuesOne
  <1>4. /\ c' \in Client /\ c'.connecting = c.connecting /\ c'.stopping = c.stopping
        /\ c'.socket = c.socket /\ c'.timers = c.timers
        /\ c'.connection = c.connection /\ c'.conns = c.conns
        /\ c'.bound = c.bound /\ c'.kept = c.kept /\ c'.alive = c.alive
        /\ n \in Nat /\ Len(c'.queue) = n + 1 /\ c'.queue[n + 1] = "retry"
        /\ \A i \in 1..n : c'.queue[i] = c.queue[i]
    BY <1>3 DEF Queues
  <1>5. /\ \A g : g # "retry" => (Queued(g)' <=> Queued(g))
        /\ Settles => Settles'
    BY <1>3, <1>4, QueueGrows
  <1>6. TypeInv'
    BY <1>1, <1>4 DEF IndInv, Parts, TypeInv
  <1>7. Callers'
    BY <1>1, <1>5 DEF IndInv, Parts, Callers
  <1>8. Sockets' /\ Owners'
    BY <1>1, <1>4 DEF IndInv, Parts, Sockets, Owners
  <1>9. Undone' /\ Wishes'
    BY <1>1, <1>4, <1>5 DEF IndInv, Parts, Undone, Wishes
  <1>10. OneAttempt'
    <2> SUFFICES ASSUME uses \cap {"early", "mixed"} = {} PROVE OneAttempt'
      BY <1>1 DEF OneAttempt
    <2>1. /\ c.timers = 0 /\ c.connection = None /\ c.bound \subseteq {c.connection}
          /\ user \notin {"connect", "queueConnect"}
      BY <1>1 DEF IndInv, Parts, OneAttempt
    <2>2. \A i \in 1..n : c.queue[i] = "disconnect"
      BY <1>1 DEF IndInv, Parts, OneAttempt, Contains
    <2> HIDE DEF n
    <2> QED BY <1>1, <1>4, <2>1, <2>2 DEF OneAttempt
  <1>11. ClientAsserts'
    BY <1>1 DEF IndInv, ClientAsserts
  <1>12. Ends'
    <2>1. c.alive \/ "mixed" \in uses
      BY <1>1 DEF IndInv, Parts, Sockets, Ends
    <2> QED BY <1>1, <1>4, <2>1, EndsStay DEF IndInv
  <1> QED BY <1>6, <1>7, <1>8, <1>9, <1>10, <1>11, <1>12 DEF IndInv, Parts

\* t is s without x, with a functor that connects again or not.
Removes(s, t, x) ==
    /\ t \in Client
    /\ t.connecting = s.connecting /\ t.stopping = s.stopping /\ t.socket = s.socket
    /\ t.timers = s.timers /\ t.connection = None /\ t.bound = s.bound \ {x}
    /\ t.kept = s.kept /\ t.conns = s.conns /\ t.alive = s.alive
    /\ t.queue = s.queue \/ (s.connecting /\ Queues([s EXCEPT !.connection = None,
                                                           !.bound = s.bound \ {x}],
                                                    t, "reconnect"))

\* onClosedInConnection() lets go of the connection.
LEMMA RemovedIs ==
    ASSUME NEW s \in Client, NEW x \in Conn
    PROVE  Removes(s, Removed(s, x), x)
  <1> DEFINE u == [s EXCEPT !.connection = None, !.bound = s.bound \ {x}]
  <1>1. /\ u \in Client /\ u.connecting = s.connecting /\ u.stopping = s.stopping
        /\ u.socket = s.socket /\ u.timers = s.timers /\ u.connection = None
        /\ u.bound = s.bound \ {x} /\ u.kept = s.kept /\ u.conns = s.conns
        /\ u.queue = s.queue /\ u.alive = s.alive
    BY DEF Client
  <1>2. CASE s.connecting /\ s.delay
    <2> DEFINE t == [u EXCEPT !.queue = Append(u.queue, "reconnect")]
    <2>1. Removed(s, x) = [[s EXCEPT !.bound = s.bound \ {x}]
                             EXCEPT !.connection = None, !.queue = Append(s.queue, "reconnect")]
      BY <1>2 DEF Removed, Unbind, Client
    <2> DEFINE q == Append(s.queue, "reconnect")
    <2>2. Removed(s, x) = t
      <3>1. Removed(s, x) = [[s EXCEPT !.bound = s.bound \ {x}]
                             EXCEPT !.connection = None, !.queue = q]
        BY <2>1
      <3>2. t = [u EXCEPT !.queue = q]
        BY <1>1
      <3> HIDE DEF q, t
      <3> QED BY <3>1, <3>2 DEF Client
    <2>3. Queues(u, t, "reconnect")
      BY <1>1, QueuesOne
    <2> HIDE DEF t
    <2>4. Removes(s, t, x)
      BY <1>1, <1>2, <2>3 DEF Queues, Removes
    <2> QED BY <2>2, <2>4
  <1>3. CASE ~(s.connecting /\ s.delay)
    <2>1. Removed(s, x) = u
      BY <1>3 DEF Removed, Unbind, Client
    <2> HIDE DEF u
    <2> QED BY <1>1, <2>1 DEF Removes
  <1> QED BY <1>2, <1>3

\* The end of a connection that has no callbacks.
LEMMA UnboundCloses ==
    ASSUME IndInv, NEW x \in Conn, PeerCloses(x), x \notin c.bound
    PROVE  IndInv'
  <1>1. /\ c' = [c EXCEPT !.conns[x] = "kDisconnected"] /\ faulty' = "none"
        /\ wanted' = (IF x = c.connection THEN "ended" ELSE wanted)
        /\ UNCHANGED <<uses, threads, user>> /\ faulty = "none"
    BY DEF PeerCloses, Sound
  <1>2. c \in Client
    BY DEF IndInv, Parts, TypeInv
  <1>3. /\ c' \in Client /\ c'.connecting = c.connecting /\ c'.stopping = c.stopping
        /\ c'.socket = c.socket /\ c'.timers = c.timers /\ c'.connection = c.connection
        /\ c'.bound = c.bound /\ c'.kept = c.kept /\ c'.queue = c.queue
        /\ c'.alive = c.alive
        /\ \A y \in Conn : y # x => c'.conns[y] = c.conns[y]
    BY <1>1, <1>2 DEF Client
  <1>4. TypeInv'
    BY <1>1, <1>3 DEF IndInv, Parts, TypeInv
  <1>5. Callers'
    BY <1>1, <1>3 DEF IndInv, Parts, Callers, Queued
  <1>6. Sockets'
    BY <1>1, <1>3 DEF IndInv, Parts, Sockets
  <1>7. Owners'
    BY <1>1, <1>2, <1>3 DEF IndInv, Parts, Owners, Client
  <1>8. Undone' /\ Wishes'
    BY <1>1, <1>3 DEF IndInv, Parts, Undone, Wishes, Settles, Queued
  <1>9. OneAttempt'
    BY <1>1, <1>3 DEF IndInv, Parts, OneAttempt
  <1>10. ClientAsserts'
    BY <1>1 DEF ClientAsserts
  <1>11. Ends'
    BY <1>1, <1>3, EndsStay DEF IndInv
  <1> QED BY <1>11, <1>4, <1>5, <1>6, <1>7, <1>8, <1>9, <1>10 DEF IndInv, Parts

\* The end of a connection that tells the client.
LEMMA BoundCloses ==
    ASSUME IndInv, NEW x \in Conn, PeerCloses(x), x \in c.bound
    PROVE  IndInv'
  <1> DEFINE d == [c EXCEPT !.conns[x] = "kDisconnected"]
  <1> DEFINE s == Removed(d, x)
  <1> DEFINE v == Verdict(s, x, TRUE)
  <1>1. /\ c' = Release(s, x)
        /\ faulty' = (IF ~c.alive THEN "dangling"
                      ELSE IF c.connection # x THEN "conn.get() == _connection.get()" ELSE v)
        /\ wanted' = (IF x = c.connection THEN "ended" ELSE wanted)
        /\ UNCHANGED <<uses, threads, user>> /\ faulty = "none"
    BY DEF PeerCloses, Sound
  <1>2. c \in Client
    BY DEF IndInv, Parts, TypeInv
  <1>3. /\ d \in Client /\ d.connecting = c.connecting /\ d.stopping = c.stopping
        /\ d.socket = c.socket /\ d.timers = c.timers /\ d.bound = c.bound
        /\ d.kept = c.kept /\ d.queue = c.queue /\ d.conns[x] = "kDisconnected"
        /\ d.alive = c.alive
    BY <1>2 DEF Client
  <1> HIDE DEF d
  <1>4. Removes(d, s, x)
    BY <1>3, RemovedIs
  <1> HIDE DEF s
  <1>5. Releases(s, c', x)
    BY <1>1, <1>4, ReleaseIs DEF Removes
  <1>6. /\ c' \in Client /\ c'.connecting = c.connecting /\ c'.stopping = c.stopping
        /\ c'.socket = c.socket /\ c'.timers = c.timers /\ c'.connection = None
        /\ c'.bound = c.bound \ {x} /\ c'.queue = s.queue /\ c'.alive = c.alive
    BY <1>3, <1>4, <1>5 DEF Removes, Releases
  <1>7. \/ s.queue = c.queue
        \/ /\ c.connecting
           /\ Len(c.queue) \in Nat /\ Len(s.queue) = Len(c.queue) + 1
           /\ s.queue[Len(c.queue) + 1] = "reconnect"
           /\ \A i \in 1..Len(c.queue) : s.queue[i] = c.queue[i]
    <2> DEFINE u == [d EXCEPT !.connection = None, !.bound = d.bound \ {x}]
    <2>1. u.queue = c.queue
      BY <1>3 DEF Client
    <2>2. s.queue = c.queue \/ (c.connecting /\ Queues(u, s, "reconnect"))
      BY <1>3, <1>4 DEF Removes
    <2> HIDE DEF u
    <2> QED BY <2>1, <2>2 DEF Queues
  <1>8. TypeInv'
    BY <1>1, <1>6 DEF IndInv, Parts, TypeInv
  <1>9. \A g : g # "reconnect" => (Queued(g)' => Queued(g))
    BY <1>6, <1>7 DEF Queued
  <1>10. Callers'
    BY <1>1, <1>9 DEF IndInv, Parts, Callers
  <1>11. Sockets' /\ Owners'
    BY <1>1, <1>6 DEF IndInv, Parts, Sockets, Owners
  <1>12. Wishes'
    <2> SUFFICES ASSUME uses \cap {"race", "mixed"} = {} PROVE Wishes'
      BY <1>1 DEF Wishes
    <2>1. Queued("reconnect")' => c'.connecting
      BY <1>6, <1>7 DEF IndInv, Parts, Wishes, Queued
    <2> QED BY <1>1, <1>6, <2>1 DEF IndInv, Parts, Wishes
  <1>12a. Undone'
    <2> SUFFICES ASSUME "mixed" \notin uses, ~c.connecting
                 PROVE  user' # "queueConnect" /\ (user' = "queueDisconnect" \/ Settles')
      BY <1>1, <1>6 DEF Undone
    <2>1. user # "queueConnect" /\ (user = "queueDisconnect" \/ Settles)
      BY DEF IndInv, Parts, Undone
    <2>2. c'.queue = c.queue
      BY <1>6, <1>7
    <2>3. Settles => Settles'
      BY <1>6, <2>2 DEF Settles, Queued
    <2> QED BY <1>1, <2>1, <2>3
  <1>13. uses \cap {"early", "mixed"} = {} =>
            /\ c.connection = x /\ c.connection # None /\ c.bound \subseteq {x}
            /\ c.timers = 0 /\ c.socket = "none"
            /\ user \notin {"connect", "queueConnect"}
            /\ \A i \in 1..Len(c.queue) : c.queue[i] = "disconnect"
    <2> SUFFICES ASSUME uses \cap {"early", "mixed"} = {}
                 PROVE  /\ c.connection = x /\ c.connection # None /\ c.bound \subseteq {x}
                        /\ c.timers = 0 /\ c.socket = "none"
                        /\ user \notin {"connect", "queueConnect"}
                        /\ \A i \in 1..Len(c.queue) : c.queue[i] = "disconnect"
      OBVIOUS
    <2>1. c.connection = x /\ c.connection # None /\ c.bound \subseteq {x}
      BY ClientAssumption DEF IndInv, Parts, OneAttempt
    <2> QED BY <2>1 DEF IndInv, Parts, OneAttempt
  <1>14. OneAttempt'
    <2> SUFFICES ASSUME uses \cap {"early", "mixed"} = {} PROVE OneAttempt'
      BY <1>1 DEF OneAttempt
    <2>1. c'.bound \subseteq {None}
      BY <1>6, <1>13
    <2>2. c'.timers = 0 /\ c'.connection = None /\ c'.socket = "none" /\ user' = user
      BY <1>1, <1>6, <1>13
    <2>3. \A i, j \in 1..Len(c'.queue) :
            c'.queue[i] # "disconnect" /\ c'.queue[j] # "disconnect" => i = j
      <3>1. CASE s.queue = c.queue
        BY <1>6, <1>13, <3>1
      <3>2. CASE s.queue # c.queue
        <4> DEFINE n == Len(c.queue)
        <4>1. /\ n \in Nat /\ Len(c'.queue) = n + 1
              /\ \A i \in 1..n : c'.queue[i] = "disconnect"
          BY <1>6, <1>7, <1>13, <3>2
        <4> HIDE DEF n
        <4>2. \A i \in 1..n + 1 : c'.queue[i] # "disconnect" => i = n + 1
          BY <4>1
        <4> QED BY <4>1, <4>2
      <3> QED BY <3>1, <3>2
    <2> QED BY <1>13, <2>1, <2>2, <2>3 DEF OneAttempt
  <1>15. ClientAsserts'
    <2>4. CASE ~c.alive
      <3>1. uses \cap {"early", "mixed"} # {}
        <4>1. CASE "mixed" \notin uses
          <5>1. c.connection = None
            BY <1>1, <2>4, <4>1 DEF IndInv, Parts, Sockets, Ends
          <5> QED BY <1>13, <5>1
        <4> QED BY <4>1
      <3> QED BY <1>1, <2>4, <3>1 DEF ClientAsserts
    <2>1. CASE c.alive /\ c.connection # x
      <3>1. uses \cap {"early", "mixed"} # {}
        BY <1>13, <2>1
      <3> QED BY <1>1, <2>1, <3>1 DEF ClientAsserts
    <2>2. CASE c.alive /\ c.connection = x /\ v = "none"
      BY <1>1, <2>2 DEF ClientAsserts
    <2>3. CASE c.alive /\ c.connection = x /\ v # "none"
      <3>1. x # None /\ ~Owned(s, x)
        BY <2>3, VerdictIs
      <3>2. v = "!_handling"
        <4>1. s.conns[x] = "kDisconnected"
          BY <1>3, <1>4 DEF Removes
        <4> QED BY <2>3, <4>1, VerdictIs
      <3>3. x \notin c.kept
        BY <1>3, <1>4, <3>1 DEF Removes, Owned
      <3>4. "forget" \in uses
        BY <2>3, <3>1, <3>3 DEF IndInv, Parts, Owners
      <3> QED BY <1>1, <2>3, <3>2, <3>4 DEF ClientAsserts
    <2> QED BY <2>1, <2>2, <2>3, <2>4
  <1>16. Ends'
    BY <1>1, <1>6, NotYet DEF Ends
  <1> QED BY <1>8, <1>10, <1>11, <1>12, <1>12a, <1>14, <1>15, <1>16 DEF IndInv, Parts

-----------------------------------------------------------------------------
(* The theorems *)

\* A new client has nothing, and its application one use at most.
LEMMA InitInv == ClientInit => IndInv
  <1> SUFFICES ASSUME ClientInit PROVE IndInv
    OBVIOUS
  <1>1. /\ c.connecting = FALSE /\ c.stopping = TRUE /\ c.socket = "none" /\ c.timers = 0
        /\ c.connection = None /\ c.bound = {} /\ c.queue = <<>> /\ user = "idle"
        /\ wanted = "disconnect" /\ faulty = "none" /\ c.alive
    BY DEF ClientInit
  <1>2. c \in Client
    <2>1. <<>> \in Seq({"connect", "disconnect", "retry", "reconnect"})
      OBVIOUS
    <2>2. [x \in Conn |-> "none"]
            \in [Conn -> {"none", "kConnected", "kDisconnecting", "kDisconnected"}]
      OBVIOUS
    <2>3. c \in [connecting : {FALSE}, delay : BOOLEAN, stopping : {TRUE},
                 status : {"kDisconnected"}, socket : {"none"}, timers : {0},
                 connection : {None}, conns : {[x \in Conn |-> "none"]},
                 bound : {{}}, kept : {{}}, queue : {<<>>}, alive : {TRUE}]
      BY DEF ClientInit
    <2>4. PICK b \in BOOLEAN :
            c = [connecting |-> FALSE, delay |-> b, stopping |-> TRUE,
                 status |-> "kDisconnected", socket |-> "none", timers |-> 0,
                 connection |-> None, conns |-> [x \in Conn |-> "none"],
                 bound |-> {}, kept |-> {}, queue |-> <<>>, alive |-> TRUE]
      BY <2>3
    <2> QED BY <2>1, <2>2, <2>4 DEF Client
  <1>3. /\ uses \subseteq Uses
        /\ threads \in {{"loop"}, {"user"}, {"loop", "user"}}
        /\ threads = {"loop", "user"} => "mixed" \in uses
    <2>1. CASE "mixed" \in uses
      BY <2>1 DEF ClientInit
    <2>2. CASE "mixed" \notin uses
      <3>1. threads = {"loop"} \/ threads = {"user"}
        BY <2>2 DEF ClientInit
      <3> QED BY <3>1 DEF ClientInit
    <2> QED BY <2>1, <2>2
  <1>4. \A f : ~Queued(f)
    BY <1>1 DEF Queued
  <1>5. TypeInv
    BY <1>1, <1>2, <1>3 DEF TypeInv
  <1>6. Callers /\ Sockets /\ Owners /\ ClientAsserts /\ Ends
    BY <1>1, <1>3, <1>4 DEF Callers, Sockets, Owners, ClientAsserts, Ends
  <1>7. Undone /\ Wishes
    BY <1>1, <1>4 DEF Undone, Wishes, Settles
  <1>8. OneAttempt
    BY <1>1 DEF OneAttempt
  <1> QED BY <1>5, <1>6, <1>7, <1>8 DEF IndInv, Parts

\* Every call, event, functor and timer keeps the invariant.
LEMMA NextInv == IndInv /\ [ClientNext]_clientvars => IndInv'
  <1> SUFFICES ASSUME IndInv, [ClientNext]_clientvars PROVE IndInv'
    OBVIOUS
  <1>1. ASSUME NEW answer, LoopConnect(answer) PROVE IndInv'
    BY <1>1, LoopConnectInv
  <1>2. ASSUME NEW answer, Execute(answer) PROVE IndInv'
    BY <1>2, ExecuteInv
  <1>3. ASSUME NEW answer, TimerFires(answer) PROVE IndInv'
    BY <1>3, TimerFiresInv
  <1>4. ASSUME NEW handling \in BOOLEAN, LoopDisconnect(handling) PROVE IndInv'
    BY <1>4, LoopDisconnectInv
  <1>5. CASE Shutdown
    BY <1>5, ShutdownInv
  <1>6. ASSUME NEW x \in Conn, Drop(x) PROVE IndInv'
    BY <1>6, DropInv
  <1>7. ASSUME NEW x \in Conn, PeerCloses(x) PROVE IndInv'
    BY <1>7, UnboundCloses, BoundCloses
  <1>8. ASSUME NEW x \in Conn, NEW keep \in BOOLEAN, HandleWrite(x, keep) PROVE IndInv'
    BY <1>8, HandleWriteInv
  <1>9. CASE DestroyClient
    BY <1>9, DestroyClientInv
  <1>10. ASSUME NEW call \in {"connect", "disconnect"}, UserCalls(call) PROVE IndInv'
    BY <1>10, UserCallsInv
  <1>11. CASE UserStores
    BY <1>11, UserStoresInv
  <1>12. CASE UserQueues
    BY <1>12, UserQueuesInv
  <1>13. CASE (\E outcome \in {"up", "dead"} : ConnectEnds(outcome)) \/ PollWritable \/ PeerResets
    BY <1>13, NetworkInv
  <1>14. CASE HandleWriteError
    BY <1>14, HandleWriteErrorInv
  <1>15. CASE HandleConnectorClose
    BY <1>15, HandleConnectorCloseInv
  <1>16. CASE UNCHANGED clientvars
    <2>1. UNCHANGED <<c, uses, threads, user, wanted, faulty>>
      BY <1>16 DEF clientvars
    <2>2. TypeInv' /\ Sockets' /\ Owners'
      BY <2>1 DEF IndInv, Parts, TypeInv, Sockets, Owners
    <2>3. Callers' /\ Undone' /\ Wishes'
      BY <2>1 DEF IndInv, Parts, Callers, Undone, Wishes, Settles, Queued
    <2>4. OneAttempt' /\ ClientAsserts' /\ Ends'
      BY <2>1 DEF IndInv, Parts, OneAttempt, ClientAsserts, Ends
    <2> QED BY <2>2, <2>3, <2>4 DEF IndInv, Parts
  <1> QED BY <1>1, <1>2, <1>3, <1>4, <1>5, <1>6, <1>7, <1>8, <1>9, <1>10, <1>11, <1>12, <1>13,
             <1>14, <1>15, <1>16 DEF ClientNext

\* The invariant holds of the client.
LEMMA Invariance == ClientSpec => []IndInv
  BY InitInv, NextInv, PTL DEF ClientSpec

\* An assertion of ~IOFd, ~TcpConnection, ~TcpClient, ~TcpConnector or
\* removeConnectionInLoop fails only under the use that is its cause, however often
\* the application connects and disconnects.
THEOREM AssertsHaveCauses == ClientSpec => []ClientAsserts
  <1>1. IndInv => ClientAsserts
    BY DEF IndInv
  <1> QED BY <1>1, Invariance, PTL

\* disconnect() is final: TcpConnector has no socket and the client no connection while
\* it is stopped, and it is stopped when the functor of the last disconnect() is done.
THEOREM DisconnectEnds == ClientSpec => []DisconnectIsFinal
  <1>1. IndInv => DisconnectIsFinal
    <2> SUFFICES ASSUME IndInv PROVE DisconnectIsFinal
      OBVIOUS
    <2>1. c.stopping => c.socket = "none" /\ c.connection = None
      BY DEF IndInv, Parts, Sockets
    <2>2. ASSUME uses \cap {"race", "mixed"} = {}, wanted = "disconnect", user = "idle",
                 c.queue = <<>>
          PROVE  c.stopping /\ ~c.connecting
      <3>1. ~c.connecting /\ Settles
        BY <2>2 DEF IndInv, Parts, Undone, Wishes
      <3> QED BY <2>2, <3>1 DEF Settles, Queued
    <2> QED BY <2>1, <2>2 DEF DisconnectIsFinal
  <1> QED BY <1>1, Invariance, PTL
=============================================================================
