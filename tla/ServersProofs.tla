----------------------------- MODULE ServersProofs -----------------------------
(***************************************************************************)
(* The servers' table and stop(), for any number of connections, addresses *)
(* and loops and for every use: no connection the application was told of  *)
(* is lost from the table while the server runs, when stop() is through    *)
(* none is left and each end was announced, and the program ends only for  *)
(* the reasons that are known.                                             *)
(***************************************************************************)
EXTENDS MCServers, FiniteSetTheorems, SequenceTheorems, TLAPS

-----------------------------------------------------------------------------
(* The inductive invariant *)

Status == {"none", "kConnecting", "kConnected", "kDisconnecting", "kDisconnected"}
Functor == [op : {"establish", "close", "shutdown", "read"}, conn : Conn]
Calls == {"none", "close", "shutdown", "closing", "shutting"}
Progress == [conn : Conn, step : {"test", "call", "return"}, pinned : BOOLEAN]

TypeInv ==
    /\ proto \in {"tcp", "udp"} /\ call \in [Conn -> Calls]
    /\ run \in {"new", "running", "stopping", "joining", "stopped"}
    /\ todo \in SUBSET Conn /\ current \in Conn \cup {None}
    /\ table \in [Key -> Conn \cup {None}]
    /\ conns \in [Conn -> [status : Status, key : Key \cup {None}, loop : Worker \cup {None}]]
    /\ mainq \in Seq(Conn)
    /\ wq \in [Worker -> Seq(Functor)]
    /\ closing \in [Worker -> Progress \cup {None}]

Made(x) == conns[x].status # "none"

\* A functor of this kind for this connection is on the line.
Has(q, op, x) == \E i \in 1..Len(q) : q[i].op = op /\ q[i].conn = x

\* The functor that establishes a connection comes before its others.
First(q) == \A i, j \in 1..Len(q) : j < i /\ q[i].op = "establish" => q[j].conn # q[i].conn

\* There is at most one functor that closes this connection.
Once(q, x) ==
    \A i, j \in 1..Len(q) :
        /\ q[i].op = "close" /\ q[i].conn = x
        /\ q[j].op = "close" /\ q[j].conn = x
        => i = j

Establishing(x) == \E w \in Worker : Has(wq[w], "establish", x)
Closes(x) == \E w \in Worker : Has(wq[w], "close", x)

\* The connection is in closeInLoop, or after it and to be removed.
Ends(x) ==
    \/ \E i \in 1..Len(mainq) : mainq[i] = x
    \/ \E w \in Worker : closing[w] # None /\ closing[w].conn = x

\* A connection's functors are with its loop, the first one first.
Lines ==
    \A w \in Worker :
        /\ First(wq[w])
        /\ \A op, x : Has(wq[w], op, x) => Made(x) /\ conns[x].loop = w

\* The table has connections under their addresses.
Tables ==
    /\ \A x \in Conn : Made(x) => conns[x].key \in Key /\ conns[x].loop \in Worker
    /\ \A k \in Key : table[k] # None => Made(table[k]) /\ conns[table[k]].key = k
    /\ \A x \in bound \cup todo \cup idle : x \in Conn /\ Made(x)
    /\ current # None => current \in todo /\ run = "stopping"

\* close(), shutdown() and the end of the stream leave one of these.
Ended == {"kDisconnecting", "kDisconnected"}

\* A connection is established before it ends, or is in a call.
Order ==
    \A x \in Conn :
        /\ Establishing(x) =>
              /\ conns[x].status \in {"kConnecting", "kDisconnected"} /\ x \notin idle
              /\ run \in {"new", "running"} => conns[x].status = "kConnecting"
        /\ Ends(x) => conns[x].status \in Ended /\ ~Establishing(x) /\ x \in downs
        /\ proto = "tcp" /\ conns[x].status = "kDisconnected" => x \in downs
        /\ call[x] # "none" => Made(x) /\ ~Establishing(x)

\* After stop() the table is empty, and the loops have done their work.
Cleared ==
    /\ run \in {"joining", "stopped"} => todo = {} /\ \A k \in Key : table[k] = None
    /\ run = "stopped" => \A w \in Worker : wq[w] = <<>> /\ closing[w] = None

\* A connection that closeInLoop has not come to.
Lasts(x) ==
    \/ conns[x].status \in {"kConnecting", "kConnected"}
    \/ conns[x].status = "kDisconnecting" /\ x \notin downs

\* As long as no address comes back early, the table has every connection that
\* begins or lasts ...
Listed ==
    (run \in {"new", "running"} /\ "reuse" \notin uses)
       => \A x \in Conn : Lasts(x) => table[conns[x].key] = x

\* ... an address has one connection ...
Unique ==
    (run \in {"new", "running"} /\ "reuse" \notin uses /\ crash = "none")
       => \A x, y \in Conn : x # y /\ Made(x) /\ Made(y) /\ conns[x].key = conns[y].key
                                => ~Owned(x) \/ ~Owned(y)

\* ... and whoever was, or will be, told that a UDP connection is there will be
\* told that it is not.
Tracked ==
    (proto = "udp" /\ "reuse" \notin uses)
       => \A x \in Conn : x \in ups \/ Establishing(x)
             => \/ x \in downs \/ Closes(x)
                \/ run \in {"new", "running"} /\ x \in Held
                \/ run = "stopping" /\ x \in todo

\* A connection that holds back output had a failure or is unbound.
Outputs ==
    \A x \in output \cup writing : x \in Conn /\ Made(x) /\ (x \in failed \/ x \notin bound)

IndInv ==
    TypeInv /\ Lines /\ Tables /\ Order /\ Cleared /\ Listed /\ Unique /\ Tracked /\ Outputs

-----------------------------------------------------------------------------
(* Lemmas on the lines of functors *)

\* A functor is executed.
LEMMA HasTail ==
    ASSUME NEW q \in Seq(Functor), q # <<>>
    PROVE  /\ Tail(q) \in Seq(Functor) /\ Head(q) \in Functor
           /\ Has(q, Head(q).op, Head(q).conn)
           /\ \A op, x : Has(Tail(q), op, x) => Has(q, op, x)
           /\ \A op, x : Has(q, op, x) => Has(Tail(q), op, x) \/ (op = Head(q).op /\ x = Head(q).conn)
           /\ First(q) => First(Tail(q)) /\ ~Has(Tail(q), "establish", Head(q).conn)
  <1>1. Tail(q) \in Seq(Functor) /\ Head(q) \in Functor
    OBVIOUS
  <1>2. /\ Len(q) \in Nat /\ Len(q) >= 1 /\ Head(q) = q[1] /\ Len(Tail(q)) = Len(q) - 1
        /\ \A i \in 1..Len(q)-1 : Tail(q)[i] = q[i + 1]
    OBVIOUS
  <1>3. Has(q, Head(q).op, Head(q).conn)
    <2>1. 1 \in 1..Len(q)
      BY <1>2
    <2> QED BY <1>2, <2>1 DEF Has
  <1>4. ASSUME NEW op, NEW x, Has(Tail(q), op, x) PROVE Has(q, op, x)
    <2>1. PICK i \in 1..Len(q)-1 : q[i + 1].op = op /\ q[i + 1].conn = x
      BY <1>2, <1>4 DEF Has
    <2>2. i + 1 \in 1..Len(q)
      BY <1>2
    <2> QED BY <2>1, <2>2 DEF Has
  <1>5. ASSUME NEW op, NEW x, Has(q, op, x)
        PROVE  Has(Tail(q), op, x) \/ (op = Head(q).op /\ x = Head(q).conn)
    <2>1. PICK i \in 1..Len(q) : q[i].op = op /\ q[i].conn = x
      BY <1>5 DEF Has
    <2>2. CASE i = 1
      BY <1>2, <2>1, <2>2
    <2>3. CASE i # 1
      <3>1. i - 1 \in 1..Len(q)-1 /\ (i - 1) + 1 = i
        BY <1>2, <2>3
      <3>2. Tail(q)[i - 1] = q[i]
        BY <1>2, <3>1
      <3> QED BY <1>2, <2>1, <3>1, <3>2 DEF Has
    <2> QED BY <2>2, <2>3
  <1>6. ASSUME First(q) PROVE First(Tail(q))
    <2> SUFFICES ASSUME NEW i \in 1..Len(Tail(q)), NEW j \in 1..Len(Tail(q)), j < i,
                        Tail(q)[i].op = "establish"
                 PROVE  Tail(q)[j].conn # Tail(q)[i].conn
      BY DEF First
    <2>1. i + 1 \in 1..Len(q) /\ j + 1 \in 1..Len(q) /\ j + 1 < i + 1
      BY <1>2
    <2>2. Tail(q)[i] = q[i + 1] /\ Tail(q)[j] = q[j + 1]
      BY <1>2
    <2> QED BY <1>6, <2>1, <2>2 DEF First
  <1>7. ASSUME First(q) PROVE ~Has(Tail(q), "establish", Head(q).conn)
    <2> SUFFICES ASSUME NEW i \in 1..Len(q)-1, q[i + 1].op = "establish", q[i + 1].conn = q[1].conn
                 PROVE  FALSE
      BY <1>2 DEF Has
    <2>1. i + 1 \in 1..Len(q) /\ 1 \in 1..Len(q) /\ 1 < i + 1
      BY <1>2
    <2> QED BY <1>7, <2>1 DEF First
  <1> QED BY <1>1, <1>3, <1>4, <1>5, <1>6, <1>7

\* Functors are put behind the others.
LEMMA HasConcat ==
    ASSUME NEW q \in Seq(Functor), NEW s \in Seq(Functor)
    PROVE  /\ q \o s \in Seq(Functor)
           /\ \A op, x : Has(q \o s, op, x) <=> Has(q, op, x) \/ Has(s, op, x)
           /\ First(q) /\ First(s) /\ (\A x, op : Has(s, "establish", x) => ~Has(q, op, x))
                 => First(q \o s)
  <1> DEFINE r == q \o s
  <1>1. /\ r \in Seq(Functor) /\ Len(r) = Len(q) + Len(s) /\ Len(q) \in Nat /\ Len(s) \in Nat
        /\ \A i \in 1..Len(q) + Len(s) : r[i] = IF i <= Len(q) THEN q[i] ELSE s[i - Len(q)]
    BY ConcatProperties
  <1> HIDE DEF r
  <1>2. \A i \in 1..Len(q) : i \in 1..Len(r) /\ r[i] = q[i]
    <2> SUFFICES ASSUME NEW i \in 1..Len(q) PROVE i \in 1..Len(r) /\ r[i] = q[i]
      OBVIOUS
    <2>1. i \in 1..Len(q) + Len(s) /\ i <= Len(q)
      BY <1>1
    <2> QED BY <1>1, <2>1
  <1>3. \A i \in 1..Len(s) : i + Len(q) \in 1..Len(r) /\ r[i + Len(q)] = s[i]
    <2> SUFFICES ASSUME NEW i \in 1..Len(s) PROVE i + Len(q) \in 1..Len(r) /\ r[i + Len(q)] = s[i]
      OBVIOUS
    <2>1. i + Len(q) \in 1..Len(r) /\ ~(i + Len(q) <= Len(q)) /\ (i + Len(q)) - Len(q) = i
      BY <1>1
    <2> QED BY <1>1, <2>1
  <1>4. \A i \in 1..Len(r) : \/ i \in 1..Len(q) /\ r[i] = q[i]
                             \/ i - Len(q) \in 1..Len(s) /\ r[i] = s[i - Len(q)] /\ i > Len(q)
    <2> SUFFICES ASSUME NEW i \in 1..Len(q) + Len(s)
                 PROVE  \/ i \in 1..Len(q) /\ r[i] = q[i]
                        \/ i - Len(q) \in 1..Len(s) /\ r[i] = s[i - Len(q)] /\ i > Len(q)
      BY <1>1
    <2>1. CASE i <= Len(q)
      BY <1>1, <2>1
    <2>2. CASE ~(i <= Len(q))
      <3>1. i - Len(q) \in 1..Len(s) /\ i > Len(q)
        BY <1>1, <2>2
      <3> QED BY <1>1, <2>2, <3>1
    <2> QED BY <2>1, <2>2
  <1>5. ASSUME NEW op, NEW x PROVE Has(r, op, x) <=> Has(q, op, x) \/ Has(s, op, x)
    <2>1. Has(q, op, x) => Has(r, op, x)
      BY <1>2 DEF Has
    <2>2. Has(s, op, x) => Has(r, op, x)
      BY <1>3 DEF Has
    <2>3. ASSUME Has(r, op, x) PROVE Has(q, op, x) \/ Has(s, op, x)
      <3>1. PICK i \in 1..Len(r) : r[i].op = op /\ r[i].conn = x
        BY <2>3 DEF Has
      <3> QED BY <1>4, <3>1 DEF Has
    <2> QED BY <2>1, <2>2, <2>3
  <1>6. ASSUME First(q), First(s), \A x, op : Has(s, "establish", x) => ~Has(q, op, x)
        PROVE  First(r)
    <2> SUFFICES ASSUME NEW i \in 1..Len(r), NEW j \in 1..Len(r), j < i, r[i].op = "establish"
                 PROVE  r[j].conn # r[i].conn
      BY DEF First
    <2>1. CASE i \in 1..Len(q) /\ r[i] = q[i]
      <3>1. j \in 1..Len(q) /\ r[j] = q[j]
        BY <1>1, <1>4, <2>1
      <3> QED BY <1>6, <2>1, <3>1 DEF First
    <2>2. CASE i - Len(q) \in 1..Len(s) /\ r[i] = s[i - Len(q)]
      <3>1. Has(s, "establish", r[i].conn)
        BY <2>2 DEF Has
      <3>2. CASE j \in 1..Len(q) /\ r[j] = q[j]
        <4>1. Has(q, r[j].op, r[j].conn)
          BY <3>2 DEF Has
        <4> QED BY <1>6, <3>1, <4>1
      <3>3. CASE j - Len(q) \in 1..Len(s) /\ r[j] = s[j - Len(q)]
        <4>1. j - Len(q) < i - Len(q)
          BY <1>1
        <4> QED BY <1>6, <2>2, <3>3, <4>1 DEF First
      <3> QED BY <1>4, <3>2, <3>3
    <2> QED BY <1>4, <2>1, <2>2
  <1> QED BY <1>1, <1>5, <1>6 DEF r

\* Lines of one or two functors.
LEMMA HasOne ==
    ASSUME NEW f \in Functor, NEW g \in Functor
    PROVE  /\ <<f>> \in Seq(Functor) /\ <<>> \in Seq(Functor)
           /\ \A op, x : Has(<<f>>, op, x) <=> f.op = op /\ f.conn = x
           /\ \A op, x : ~Has(<<>>, op, x)
           /\ First(<<f>>) /\ First(<<>>)
  BY DEF Has, First

\* A loop executes its next functor.
LEMMA Popped ==
    ASSUME TypeInv, Lines, NEW w \in Worker, wq[w] # <<>>, wq' = [wq EXCEPT ![w] = Tail(@)]
    PROVE  /\ wq' \in [Worker -> Seq(Functor)] /\ Head(wq[w]) \in Functor
           /\ \A v \in Worker : First(wq'[v])
           /\ \A v \in Worker : \A op, x : Has(wq'[v], op, x) => Has(wq[v], op, x)
           /\ \A v \in Worker : \A op, x :
                 Has(wq[v], op, x) => Has(wq'[v], op, x) \/ (op = Head(wq[w]).op /\ x = Head(wq[w]).conn)
           /\ Has(wq[w], Head(wq[w]).op, Head(wq[w]).conn)
           /\ \A v \in Worker : ~Has(wq'[v], "establish", Head(wq[w]).conn)
  <1>1. wq \in [Worker -> Seq(Functor)] /\ wq[w] \in Seq(Functor)
    BY DEF TypeInv
  <1>2. \A v \in Worker : wq'[v] = IF v = w THEN Tail(wq[w]) ELSE wq[v]
    BY <1>1
  <1> DEFINE q == wq[w]
  <1>3. /\ Tail(q) \in Seq(Functor) /\ Head(q) \in Functor
        /\ Has(q, Head(q).op, Head(q).conn)
        /\ \A op, x : Has(Tail(q), op, x) => Has(q, op, x)
        /\ \A op, x : Has(q, op, x) => Has(Tail(q), op, x) \/ (op = Head(q).op /\ x = Head(q).conn)
        /\ First(q) => First(Tail(q)) /\ ~Has(Tail(q), "establish", Head(q).conn)
    BY <1>1, HasTail
  <1>4. wq' \in [Worker -> Seq(Functor)]
    BY <1>1, <1>3
  <1>5. First(q) /\ conns[Head(q).conn].loop = w
    <2>1. First(wq[w]) /\ \A op, x : Has(wq[w], op, x) => conns[x].loop = w
      BY DEF Lines
    <2> QED BY <1>3, <2>1
  <1>6. \A v \in Worker : First(wq'[v])
    BY <1>2, <1>3, <1>5 DEF Lines
  <1>7. \A v \in Worker : v # w => ~Has(wq[v], "establish", Head(q).conn)
    BY <1>5 DEF Lines
  <1>8. \A v \in Worker : ~Has(wq'[v], "establish", Head(q).conn)
    BY <1>2, <1>3, <1>5, <1>7
  <1>9. \A v \in Worker : \A op, x : Has(wq'[v], op, x) => Has(wq[v], op, x)
    BY <1>2, <1>3
  <1>10. \A v \in Worker : \A op, x :
                 Has(wq[v], op, x) => Has(wq'[v], op, x) \/ (op = Head(wq[w]).op /\ x = Head(wq[w]).conn)
    BY <1>2, <1>3
  <1> QED BY <1>3, <1>4, <1>6, <1>8, <1>9, <1>10

\* Functors are queued, first ones for new connections only.
LEMMA Queued ==
    ASSUME TypeInv, Lines, NEW s \in [Worker -> Seq(Functor)],
           wq' \in [Worker -> Seq(Functor)],
           \A v \in Worker : wq'[v] = wq[v] \o s[v],
           \A v \in Worker : First(s[v]) /\ \A x, op : Has(s[v], "establish", x) => ~Has(wq[v], op, x)
    PROVE  /\ \A v \in Worker : First(wq'[v])
           /\ \A v \in Worker : \A op, x : Has(wq'[v], op, x) <=> Has(wq[v], op, x) \/ Has(s[v], op, x)
  <1> SUFFICES ASSUME NEW v \in Worker
               PROVE  /\ First(wq'[v])
                      /\ \A op, x : Has(wq'[v], op, x) <=> Has(wq[v], op, x) \/ Has(s[v], op, x)
    OBVIOUS
  <1>1. wq[v] \in Seq(Functor) /\ s[v] \in Seq(Functor) /\ First(wq[v])
    BY DEF TypeInv, Lines
  <1>2. /\ \A op, x : Has(wq[v] \o s[v], op, x) <=> Has(wq[v], op, x) \/ Has(s[v], op, x)
        /\ First(wq[v] \o s[v])
    BY <1>1, HasConcat
  <1>3. wq'[v] = wq[v] \o s[v]
    OBVIOUS
  <1> QED BY <1>2, <1>3

\* One functor is queued.
LEMMA Posted ==
    ASSUME TypeInv, Lines, NEW w \in Worker, NEW o \in {"close", "shutdown", "read"}, NEW y \in Conn, Post(w, o, y)
    PROVE  /\ wq' \in [Worker -> Seq(Functor)]
           /\ \A v \in Worker : First(wq'[v])
           /\ \A v \in Worker : \A op, x :
                 Has(wq'[v], op, x) <=> Has(wq[v], op, x) \/ (v = w /\ op = o /\ x = y)
  <1> DEFINE f == [op |-> o, conn |-> y]
  <1>1. f \in Functor /\ f.op = o /\ f.conn = y
    BY DEF Functor
  <1>2. wq \in [Worker -> Seq(Functor)] /\ wq' = [wq EXCEPT ![w] = Append(@, f)]
    BY DEF TypeInv, Post
  <1> HIDE DEF f
  <1>3. /\ <<f>> \in Seq(Functor) /\ \A op, x : Has(<<f>>, op, x) <=> f.op = op /\ f.conn = x
        /\ First(<<f>>)
    BY <1>1, HasOne
  <1>4. wq[w] \in Seq(Functor) /\ Append(wq[w], f) = wq[w] \o <<f>>
    BY <1>1, <1>2, AppendIsConcat
  <1>5. /\ wq[w] \o <<f>> \in Seq(Functor)
        /\ \A op, x : Has(wq[w] \o <<f>>, op, x) <=> Has(wq[w], op, x) \/ Has(<<f>>, op, x)
        /\ First(wq[w] \o <<f>>)
    <2>1. First(wq[w]) /\ \A x : ~Has(<<f>>, "establish", x)
      BY <1>1, <1>3 DEF Lines
    <2> QED BY <1>3, <1>4, <2>1, HasConcat
  <1>6. \A v \in Worker : wq'[v] = IF v = w THEN wq[w] \o <<f>> ELSE wq[v]
    BY <1>2, <1>4
  <1>7. wq' \in [Worker -> Seq(Functor)]
    BY <1>2, <1>4, <1>5
  <1>8. \A v \in Worker : First(wq'[v])
    BY <1>5, <1>6 DEF Lines
  <1>9. ASSUME NEW v \in Worker, NEW op, NEW x
        PROVE  Has(wq'[v], op, x) <=> Has(wq[v], op, x) \/ (v = w /\ op = o /\ x = y)
    BY <1>1, <1>3, <1>5, <1>6
  <1> QED BY <1>7, <1>8, <1>9

-----------------------------------------------------------------------------
(* What a step that makes no connection leaves alone *)

SameIds ==
    \A x \in Conn : /\ conns'[x].key = conns[x].key /\ conns'[x].loop = conns[x].loop
                    /\ conns'[x].status = "none" <=> conns[x].status = "none"

Queues(x) == \E i \in 1..Len(mainq) : mainq[i] = x
Pins(x) == \E w \in Worker : closing[w] # None /\ closing[w].pinned /\ closing[w].conn = x
HasAny(x) == \E w \in Worker : \E op : Has(wq[w], op, x)

\* Functors are about connections.
LEMMA HasConn ==
    ASSUME TypeInv, NEW w \in Worker, NEW op, NEW x, Has(wq[w], op, x)
    PROVE  x \in Conn
  <1>1. wq[w] \in Seq(Functor)
    BY DEF TypeInv
  <1>2. PICK i \in 1..Len(wq[w]) : wq[w][i].conn = x
    BY DEF Has
  <1>3. wq[w][i] \in Functor
    BY <1>1, <1>2
  <1> QED BY <1>2, <1>3 DEF Functor

\* Who keeps a connection alive.
LEMMA OwnedBy ==
    ASSUME TypeInv, NEW x
    PROVE  Owned(x) <=> call[x] # "none" \/ x \in Held \/ x \in todo \/ Queues(x) \/ HasAny(x) \/ Pins(x)
  <1>1. DOMAIN mainq = 1..Len(mainq) /\ \A w \in Worker : DOMAIN wq[w] = 1..Len(wq[w])
    BY DEF TypeInv
  <1>2. Contains(mainq, x) <=> Queues(x)
    BY <1>1 DEF Contains, Queues
  <1>3. (\E w \in Worker : \E i \in DOMAIN wq[w] : wq[w][i].conn = x) <=> HasAny(x)
    BY <1>1 DEF HasAny, Has
  <1> QED BY <1>2, <1>3 DEF Owned, Pins

\* The same after a step.
LEMMA OwnedByNext ==
    ASSUME TypeInv', NEW x
    PROVE  Owned(x)' <=> call'[x] # "none" \/ x \in Held' \/ x \in todo' \/ Queues(x)' \/ HasAny(x)' \/ Pins(x)'
  <1>1. DOMAIN mainq' = 1..Len(mainq') /\ \A w \in Worker : DOMAIN wq'[w] = 1..Len(wq'[w])
    BY DEF TypeInv
  <1>2. Contains(mainq, x)' <=> Queues(x)'
    BY <1>1 DEF Contains, Queues
  <1>3. (\E w \in Worker : \E i \in DOMAIN wq'[w] : wq'[w][i].conn = x) <=> HasAny(x)'
    BY <1>1 DEF HasAny, Has
  <1> QED BY <1>2, <1>3 DEF Owned, Pins

\* The connections of the table.
LEMMA HeldFacts ==
    ASSUME TypeInv, Tables
    PROVE  /\ \A x : x \in Held <=> x # None /\ \E k \in Key : table[k] = x
           /\ \A x \in Held : x \in Conn /\ Made(x) /\ conns[x].key \in Key /\ table[conns[x].key] = x
  <1>1. \A x : x \in Held <=> x # None /\ \E k \in Key : table[k] = x
    BY DEF Held
  <1>2. \A k \in Key : table[k] \in Conn \cup {None}
    BY DEF TypeInv
  <1> QED BY <1>1, <1>2 DEF Tables

\* The lines and the table.
LEMMA SameLines ==
    ASSUME TypeInv, TypeInv', Lines, SameIds,
           \A v \in Worker : First(wq'[v]),
           \A v \in Worker : \A op, x :
              Has(wq'[v], op, x) => Has(wq[v], op, x) \/ (x \in Conn /\ Made(x) /\ conns[x].loop = v)
    PROVE  Lines'
  <1> SUFFICES ASSUME NEW v \in Worker, NEW op, NEW x, Has(wq'[v], op, x)
               PROVE  conns'[x].status # "none" /\ conns'[x].loop = v
    BY DEF Lines, Made
  <1>1. x \in Conn /\ Made(x) /\ conns[x].loop = v
    BY HasConn DEF Lines
  <1> QED BY <1>1 DEF SameIds, Made

\* Nothing new gets into the table.
LEMMA SameTables ==
    ASSUME TypeInv, TypeInv', Tables, SameIds,
           \A k \in Key : table'[k] = table[k] \/ table'[k] = None,
           bound' \subseteq bound, todo' \subseteq todo \cup Held, idle' \subseteq idle \cup Held,
           current' # None => current' \in todo' /\ run' = "stopping"
    PROVE  Tables'
  <1>1. \A x \in Held : x \in Conn /\ Made(x)
    BY HeldFacts
  <1>2. \A x \in bound' \cup todo' \cup idle' : x \in Conn /\ conns'[x].status # "none"
    BY <1>1 DEF Tables, SameIds, Made
  <1>3. \A x \in Conn : conns'[x].status # "none" => conns'[x].key \in Key /\ conns'[x].loop \in Worker
    BY DEF Tables, SameIds, Made
  <1>4. \A k \in Key : table[k] \in Conn \cup {None}
    BY DEF TypeInv
  <1>5. \A k \in Key : table'[k] # None => conns'[table'[k]].status # "none" /\ conns'[table'[k]].key = k
    BY <1>4 DEF Tables, SameIds, Made
  <1> QED BY <1>2, <1>3, <1>5 DEF Tables, Made

\* No connection comes back to life.
LEMMA SameUnique ==
    ASSUME Unique, SameIds, uses' = uses, crash = "none",
           run' \in {"new", "running"} => run \in {"new", "running"},
           \A x \in Conn : Owned(x)' /\ crash' = "none" => Owned(x)
    PROVE  Unique'
  BY DEF Unique, SameIds, Made

\* The connections' order, when no status changes.
LEMMA SameOrder ==
    ASSUME Order, UNCHANGED <<proto, conns>>, downs \subseteq downs',
           run' \in {"new", "running"} => run \in {"new", "running"},
           \A x \in Conn : call'[x] # "none" => call[x] # "none" \/ (Made(x) /\ ~Establishing(x)),
           \A x \in Conn : Establishing(x)' => Establishing(x) /\ (x \in idle' => x \in idle),
           \A x \in Conn : Ends(x)' => Ends(x)
    PROVE  Order'
  <1> SUFFICES ASSUME NEW x \in Conn
               PROVE  /\ Establishing(x)' =>
                            /\ conns[x].status \in {"kConnecting", "kDisconnected"} /\ x \notin idle'
                            /\ run' \in {"new", "running"} => conns[x].status = "kConnecting"
                      /\ Ends(x)' => conns[x].status \in Ended /\ ~Establishing(x)' /\ x \in downs'
                      /\ proto = "tcp" /\ conns[x].status = "kDisconnected" => x \in downs'
                      /\ call'[x] # "none" => Made(x) /\ ~Establishing(x)'
    BY DEF Order, Made
  <1> QED BY DEF Order

-----------------------------------------------------------------------------
(* The main thread *)

\* start(), the beginning and the end of stop(), and the passing of time
Quietly ==
    \/ ServerStart \/ StartFails \/ AcceptFails
    \/ StopBegins \/ (\E x \in Conn : StopUnbinds(x)) \/ StopClears \/ StopJoins

\* leave the connections, their lines and their notifications alone.
LEMMA QuietlyInv ==
    ASSUME IndInv, Quietly \/ (\E x \in Conn : TimePasses(x)),
           (\E x \in Conn : TimePasses(x)) \/ UNCHANGED udpvars
    PROVE  IndInv'
  <1> USE DEF mainvars, udpvars, servervars
  <1>0. TypeInv /\ Lines /\ Tables /\ Order /\ Cleared /\ Listed /\ Unique /\ Tracked /\ Outputs
    BY DEF IndInv
  <1>1. /\ UNCHANGED <<proto, uses, call, conns, mainq, wq, closing, ups, downs, output, writing, failed>>
        /\ bound' \subseteq bound /\ crash = "none"
    <2>1. CASE Quietly
      BY <2>1 DEF Quietly, ServerStart, StartFails, AcceptFails, Accepts, StopBegins, StopUnbinds,
         StopClears, StopJoins, Ok, TimePasses
    <2>2. CASE \E x \in Conn : TimePasses(x)
      BY <2>2 DEF TimePasses, Ok
    <2> QED BY <2>1, <2>2
  <1>2. /\ run' \in {"new", "running", "stopping", "joining", "stopped"}
        /\ run' \in {"new", "running"} => run \in {"new", "running"} /\ UNCHANGED <<table, todo>>
        /\ todo' \in SUBSET Conn /\ todo' \subseteq todo \cup Held
        /\ current' \in Conn \cup {None}
        /\ current' # None => current' \in todo' /\ run' = "stopping"
    <2>1. CASE Quietly
      BY <1>0, <2>1, HeldFacts DEF Quietly, ServerStart, StartFails, AcceptFails, StopBegins,
         StopUnbinds, StopClears, StopJoins, Tables, TypeInv
    <2>2. CASE \E x \in Conn : TimePasses(x)
      BY <1>0, <2>2 DEF TimePasses, Tables, TypeInv
    <2> QED BY <2>1, <2>2
  <1>3. \A k \in Key : table'[k] = table[k] \/ table'[k] = None
    <2>1. table' = table \/ table' = [k \in Key |-> None]
      <3>1. CASE Quietly
        BY <3>1 DEF Quietly, ServerStart, StartFails, AcceptFails, StopBegins, StopUnbinds,
           StopClears, StopJoins
      <3>2. CASE \E x \in Conn : TimePasses(x)
        BY <3>2 DEF TimePasses
      <3> QED BY <3>1, <3>2
    <2> QED BY <2>1
  <1>4. table' \in [Key -> Conn \cup {None}]
    <2>1. table' = table \/ table' = [k \in Key |-> None]
      <3>1. CASE Quietly
        BY <3>1 DEF Quietly, ServerStart, StartFails, AcceptFails, StopBegins, StopUnbinds,
           StopClears, StopJoins
      <3>2. CASE \E x \in Conn : TimePasses(x)
        BY <3>2 DEF TimePasses
      <3> QED BY <3>1, <3>2
    <2> QED BY <1>0, <2>1 DEF TypeInv
  <1>5. TypeInv'
    BY <1>0, <1>1, <1>2, <1>4 DEF TypeInv
  <1>6. SameIds
    BY <1>1 DEF SameIds
  <1>7. idle' \subseteq idle \cup Held
    BY DEF TimePasses
  <1>8. ASSUME NEW x \in Conn, Establishing(x) PROVE x \in idle' => x \in idle
    <2>1. CASE UNCHANGED udpvars
      BY <2>1
    <2>2. CASE \E y \in Conn : TimePasses(y)
      <3>1. PICK y \in Conn : TimePasses(y)
        BY <2>2
      <3> SUFFICES ASSUME y = x PROVE FALSE
        BY <3>1 DEF TimePasses
      <3>2. PICK w \in Worker : Has(wq[w], "establish", x)
        BY <1>8 DEF Establishing
      <3>3. conns[x].loop = w
        BY <1>0, <3>2 DEF Lines
      <3>4. PICK i \in 1..Len(wq[w]) : wq[w][i].conn = x
        BY <3>2 DEF Has
      <3>5. wq[w][i] \in ToSet(wq[w])
        <4>1. DOMAIN wq[w] = 1..Len(wq[w])
          BY <1>0 DEF TypeInv
        <4> QED BY <3>4, <4>1 DEF ToSet
      <3> QED BY <3>1, <3>3, <3>4, <3>5 DEF TimePasses
    <2> QED BY <2>1, <2>2
  <1>9. \A x \in Conn : /\ Establishing(x)' <=> Establishing(x)
                        /\ Ends(x)' <=> Ends(x)
                        /\ Closes(x)' <=> Closes(x)
                        /\ Queues(x)' <=> Queues(x)
                        /\ HasAny(x)' <=> HasAny(x)
                        /\ Pins(x)' <=> Pins(x)
    BY <1>1 DEF Establishing, Ends, Closes, Queues, HasAny, Pins
  <1>10. Lines'
    BY <1>0, <1>1 DEF Lines, Made
  <1>11. Tables'
    BY <1>0, <1>1, <1>2, <1>3, <1>5, <1>6, <1>7, SameTables
  <1>12. Order'
    BY <1>0, <1>1, <1>2, <1>8, <1>9, SameOrder
  <1>13. Cleared'
    <2>1. CASE Quietly
      BY <1>0, <1>1, <2>1 DEF Quietly, ServerStart, StartFails, AcceptFails, StopBegins, StopUnbinds,
         StopClears, StopJoins, Cleared
    <2>2. CASE \E x \in Conn : TimePasses(x)
      BY <1>0, <2>2 DEF TimePasses, Cleared
    <2> QED BY <2>1, <2>2
  <1>14. Listed'
    BY <1>0, <1>1, <1>2 DEF Listed, Lasts
  <1>15. \A x : x \in Held' => x \in Held
    BY <1>3 DEF Held
  <1>16. Unique'
    <2>1. ASSUME NEW x \in Conn, Owned(x)' PROVE Owned(x)
      BY <1>0, <1>1, <1>2, <1>5, <1>9, <1>15, <2>1, OwnedBy, OwnedByNext
    <2> QED BY <1>0, <1>1, <1>2, <1>6, <2>1, SameUnique
  <1>17. Tracked'
    <2>1. ASSUME NEW x \in Conn, run \in {"new", "running"}, x \in Held
          PROVE  (run' \in {"new", "running"} /\ x \in Held') \/ (run' = "stopping" /\ x \in todo')
      <3>1. \/ run' \in {"new", "running"} /\ table' = table
            \/ run' = "stopping" /\ todo' = Held
        <4>1. CASE Quietly
          BY <2>1, <4>1 DEF Quietly, ServerStart, StartFails, AcceptFails, StopBegins, StopUnbinds,
             StopClears, StopJoins
        <4>2. CASE \E y \in Conn : TimePasses(y)
          BY <2>1, <4>2 DEF TimePasses
        <4> QED BY <4>1, <4>2
      <3>2. ASSUME table' = table PROVE x \in Held'
        BY <2>1, <3>2 DEF Held
      <3>3. CASE run' \in {"new", "running"} /\ table' = table
        BY <3>2, <3>3
      <3>4. CASE run' = "stopping" /\ todo' = Held
        BY <2>1, <3>4
      <3> QED BY <3>1, <3>3, <3>4
    <2>2. ASSUME NEW x \in Conn, run = "stopping", x \in todo
          PROVE  run' = "stopping" /\ x \in todo'
      <3>1. CASE Quietly
        BY <2>2, <3>1 DEF Quietly, ServerStart, StartFails, AcceptFails, StopBegins, StopUnbinds,
           StopClears, StopJoins, Accepts, Listening
      <3>2. CASE \E y \in Conn : TimePasses(y)
        BY <2>2, <3>2 DEF TimePasses
      <3> QED BY <3>1, <3>2
    <2> QED BY <1>0, <1>1, <1>9, <2>1, <2>2 DEF Tracked
  <1>18. Outputs'
    BY <1>0, <1>1 DEF Outputs, Made
  <1> QED BY <1>5, <1>10, <1>11, <1>12, <1>13, <1>14, <1>16, <1>17, <1>18 DEF IndInv

\* removeConnectionInLoop finds nothing but its own connection under the key.
LEMMA RemoveInv ==
    ASSUME IndInv, RemoveConnection, UNCHANGED udpvars
    PROVE  IndInv'
  <1> USE DEF mainvars, udpvars
  <1>0. TypeInv /\ Lines /\ Tables /\ Order /\ Cleared /\ Listed /\ Unique /\ Tracked /\ Outputs
    BY DEF IndInv
  <1> DEFINE x == Head(mainq)
  <1>1. /\ UNCHANGED <<proto, uses, call, run, todo, current, conns, wq, closing, ups, downs, crash,
                       idle, output, writing, failed>>
        /\ run \in {"running", "stopped"} /\ mainq # <<>> /\ crash = "none"
        /\ bound' = bound \ {x} /\ table' = [table EXCEPT ![conns[x].key] = None] /\ mainq' = Tail(mainq)
    BY DEF RemoveConnection, Ok
  <1>2. x \in Conn /\ Queues(x) /\ Tail(mainq) \in Seq(Conn)
    <2>1. mainq \in Seq(Conn)
      BY <1>0 DEF TypeInv
    <2>2. x \in Conn /\ Tail(mainq) \in Seq(Conn) /\ 1 \in 1..Len(mainq) /\ mainq[1] = x
      BY <1>1, <2>1
    <2> QED BY <2>2 DEF Queues
  <1>3. \A y : Queues(y)' => Queues(y)
    <2>1. mainq \in Seq(Conn)
      BY <1>0 DEF TypeInv
    <2>2. \A i \in 1..Len(Tail(mainq)) : i + 1 \in 1..Len(mainq) /\ Tail(mainq)[i] = mainq[i + 1]
      BY <1>1, <2>1
    <2> QED BY <1>1, <2>2 DEF Queues
  <1> HIDE DEF x
  <1>4. conns[x].status \in Ended /\ x \in downs /\ Owned(x) /\ Made(x)
    <2>1. Ends(x)
      BY <1>2 DEF Ends, Queues
    <2> QED BY <1>0, <1>2, <2>1, OwnedBy DEF Order, Made, Ended
  <1>5. /\ table' \in [Key -> Conn \cup {None}]
        /\ \A k \in Key : table'[k] = IF k = conns[x].key THEN None ELSE table[k]
    BY <1>0, <1>1 DEF TypeInv
  <1>6. TypeInv'
    BY <1>0, <1>1, <1>2, <1>5 DEF TypeInv
  <1>7. SameIds
    BY <1>1 DEF SameIds
  <1>8. \A y \in Conn : /\ Establishing(y)' <=> Establishing(y)
                        /\ Ends(y)' => Ends(y)
                        /\ Closes(y)' <=> Closes(y)
                        /\ HasAny(y)' <=> HasAny(y)
                        /\ Pins(y)' <=> Pins(y)
    <2>1. \A y : Ends(y)' => Ends(y)
      BY <1>1, <1>3 DEF Ends, Queues
    <2> QED BY <1>1, <2>1 DEF Establishing, Closes, HasAny, Pins
  <1>9. ASSUME NEW y \in Conn, y # x, Made(y), "reuse" \notin uses, run \in {"new", "running"},
               conns[y].key = conns[x].key, Owned(y)
        PROVE  FALSE
    BY <1>0, <1>1, <1>2, <1>4, <1>9 DEF Unique
  <1>10. Lines'
    BY <1>0, <1>1 DEF Lines, Made
  <1>11. Tables'
    <2>1. \A k \in Key : table'[k] = table[k] \/ table'[k] = None
      BY <1>5
    <2>2. current' # None => current' \in todo' /\ run' = "stopping"
      BY <1>0, <1>1 DEF Tables
    <2> QED BY <1>0, <1>1, <1>6, <1>7, <2>1, <2>2, SameTables
  <1>12. Order'
    BY <1>0, <1>1, <1>8, SameOrder
  <1>13. Cleared'
    BY <1>0, <1>1, <1>5 DEF Cleared
  <1>14. Listed'
    <2> SUFFICES ASSUME NEW y \in Conn, Lasts(y),
                        run \in {"new", "running"}, "reuse" \notin uses
                 PROVE  table'[conns[y].key] = y
      BY <1>1 DEF Listed, Lasts
    <2>1. y # x /\ Made(y) /\ table[conns[y].key] = y /\ conns[y].key \in Key
      BY <1>0, <1>4 DEF Listed, Lasts, Ended, Made, Tables
    <2>2. CASE conns[y].key = conns[x].key /\ y # None
      <3>1. y \in Held
        BY <2>1, <2>2 DEF Held
      <3>2. Owned(y)
        BY <1>0, <3>1, OwnedBy
      <3> QED BY <1>9, <2>1, <2>2, <3>2
    <2>3. CASE y = None
      BY <1>5, <2>1, <2>3
    <2>4. CASE conns[y].key # conns[x].key
      BY <1>5, <2>1, <2>4
    <2> QED BY <2>2, <2>3, <2>4
  <1>15. \A y : y \in Held' => y \in Held
    BY <1>5 DEF Held
  <1>16. Unique'
    <2>1. ASSUME NEW y \in Conn, Owned(y)' PROVE Owned(y)
      BY <1>0, <1>1, <1>3, <1>6, <1>8, <1>15, <2>1, OwnedBy, OwnedByNext
    <2> QED BY <1>0, <1>1, <1>7, <2>1, SameUnique
  <1>17. Tracked'
    <2>1. ASSUME NEW y \in Conn, run \in {"new", "running"}, y \in Held, "reuse" \notin uses
          PROVE  y \in downs \/ y \in Held'
      <3>1. Made(y) /\ conns[y].key \in Key /\ table[conns[y].key] = y /\ y # None
        BY <1>0, <2>1, HeldFacts
      <3>2. CASE y = x
        BY <1>4, <3>2
      <3>3. CASE y # x
        <4>1. Owned(y)
          BY <1>0, <2>1, OwnedBy
        <4>2. conns[y].key # conns[x].key
          BY <1>9, <2>1, <3>1, <3>3, <4>1
        <4>3. table'[conns[y].key] = y
          BY <1>5, <3>1, <4>2
        <4> QED BY <3>1, <4>3 DEF Held
      <3> QED BY <3>2, <3>3
    <2> QED BY <1>0, <1>1, <1>8, <2>1 DEF Tracked
  <1>18. Outputs'
    BY <1>0, <1>1 DEF Outputs, Made
  <1> QED BY <1>6, <1>10, <1>11, <1>12, <1>13, <1>14, <1>16, <1>17, <1>18 DEF IndInv

\* The end of closeInLoop: its conn stays what it is.
LEMMA CallbackInv ==
    ASSUME IndInv, NEW w \in Worker, TestCallback(w) \/ CallCallback(w) \/ HandlerReturns(w),
           UNCHANGED udpvars
    PROVE  IndInv'
  <1> USE DEF mainvars, udpvars
  <1>0. TypeInv /\ Lines /\ Tables /\ Order /\ Cleared /\ Listed /\ Unique /\ Tracked /\ Outputs
    BY DEF IndInv
  <1> DEFINE x == closing[w].conn
  <1>1. /\ UNCHANGED <<proto, uses, call, run, todo, current, conns, wq, ups, downs, table, bound,
                       idle, output, writing, failed>>
        /\ closing[w] # None /\ crash = "none"
        /\ mainq' = mainq \/ (mainq' = Append(mainq, x) /\ (crash' = "none" => ~Dead(x)))
    BY DEF TestCallback, CallCallback, HandlerReturns, Ok
  <1>2. closing[w] \in Progress /\ x \in Conn
    BY <1>0, <1>1 DEF TypeInv, Progress
  <1>3. \E at \in Progress \cup {None} :
            /\ closing' = [closing EXCEPT ![w] = at]
            /\ at # None => at.conn = x /\ at.pinned = closing[w].pinned
    <2>1. Returning(closing[w]) \in Progress \cup {None}
      BY <1>2 DEF Returning, Progress
    <2>2. Returning(closing[w]) # None =>
             Returning(closing[w]).conn = x /\ Returning(closing[w]).pinned = closing[w].pinned
      BY <1>2 DEF Returning, Progress
    <2>3. CASE TestCallback(w)
      <3>1. closing' = [closing EXCEPT ![w] =
                 IF closing[w].conn \in bound THEN [closing[w] EXCEPT !.step = "call"]
                 ELSE Returning(closing[w])]
        BY <2>3 DEF TestCallback
      <3>2. [closing[w] EXCEPT !.step = "call"] \in Progress
        BY <1>2 DEF Progress
      <3>3. /\ [closing[w] EXCEPT !.step = "call"].conn = x
            /\ [closing[w] EXCEPT !.step = "call"].pinned = closing[w].pinned
        BY <1>2 DEF Progress
      <3> QED BY <2>1, <2>2, <3>1, <3>2, <3>3
    <2>4. CASE CallCallback(w)
      BY <2>1, <2>2, <2>4 DEF CallCallback
    <2>5. CASE HandlerReturns(w)
      BY <2>5 DEF HandlerReturns
    <2> QED BY <2>3, <2>4, <2>5
  <1>4. closing' \in [Worker -> Progress \cup {None}]
    BY <1>0, <1>3 DEF TypeInv
  <1>5. ASSUME NEW v \in Worker, closing'[v] # None
        PROVE  closing[v] # None /\ closing'[v].conn = closing[v].conn /\ closing'[v].pinned = closing[v].pinned
    BY <1>0, <1>1, <1>3, <1>5 DEF TypeInv
  <1>6. mainq' \in Seq(Conn) /\ \A y : Queues(y)' => Queues(y) \/ (y = x /\ (crash' = "none" => ~Dead(x)))
    <2>1. mainq \in Seq(Conn)
      BY <1>0 DEF TypeInv
    <2>2. CASE mainq' = mainq
      BY <2>1, <2>2 DEF Queues
    <2>3. CASE mainq' = Append(mainq, x) /\ (crash' = "none" => ~Dead(x))
      <3>1. Append(mainq, x) \in Seq(Conn) /\ Len(Append(mainq, x)) = Len(mainq) + 1 /\ Len(mainq) \in Nat
        BY <1>2, <2>1
      <3>2. \A i \in 1..Len(mainq) + 1 : i \in 1..Len(mainq) \/ i = Len(mainq) + 1
        BY <3>1
      <3>3. \A i \in 1..Len(mainq) : Append(mainq, x)[i] = mainq[i]
        BY <1>2, <2>1
      <3>4. Append(mainq, x)[Len(mainq) + 1] = x
        BY <1>2, <2>1
      <3> QED BY <2>3, <3>1, <3>2, <3>3, <3>4 DEF Queues
    <2> QED BY <1>1, <2>2, <2>3
  <1> HIDE DEF x
  <1>7. TypeInv'
    BY <1>0, <1>1, <1>4, <1>6 DEF TypeInv
  <1>8. SameIds
    BY <1>1 DEF SameIds
  <1>9. Ends(x)
    BY <1>1 DEF Ends, x
  <1>10. \A y \in Conn : /\ Establishing(y)' <=> Establishing(y)
                         /\ Ends(y)' => Ends(y)
                         /\ Closes(y)' <=> Closes(y)
                         /\ HasAny(y)' <=> HasAny(y)
                         /\ Pins(y)' => Pins(y)
    <2>1. \A y : Ends(y)' => Ends(y)
      BY <1>5, <1>6, <1>9 DEF Ends, Queues
    <2>2. \A y : Pins(y)' => Pins(y)
      BY <1>5 DEF Pins
    <2> QED BY <1>1, <2>1, <2>2 DEF Establishing, Closes, HasAny
  <1>11. Lines'
    BY <1>0, <1>1 DEF Lines, Made
  <1>12. Tables'
    BY <1>0, <1>1 DEF Tables, Made
  <1>13. Order'
    BY <1>0, <1>1, <1>10, SameOrder
  <1>14. Cleared'
    BY <1>0, <1>1, <1>5 DEF Cleared
  <1>15. Listed' /\ Outputs'
    BY <1>0, <1>1 DEF Listed, Lasts, Outputs, Made
  <1>16. \A y : y \in Held' <=> y \in Held
    BY <1>1 DEF Held
  <1>17. Unique'
    <2>1. ASSUME NEW y \in Conn, Owned(y)', crash' = "none" PROVE Owned(y)
      <3>1. ASSUME y = x, ~Dead(x) PROVE Owned(y)
        BY <1>0, <1>2, <1>9, <3>1 DEF Dead, Order, Ended, x
      <3> QED BY <1>0, <1>1, <1>6, <1>7, <1>10, <1>16, <2>1, <3>1, OwnedBy, OwnedByNext
    <2> QED BY <1>0, <1>1, <1>8, <2>1, SameUnique
  <1>18. Tracked'
    BY <1>0, <1>1, <1>10, <1>16 DEF Tracked
  <1> QED BY <1>7, <1>11, <1>12, <1>13, <1>14, <1>15, <1>17, <1>18 DEF IndInv

-----------------------------------------------------------------------------
(* The loops of the connections *)

\* One connection gets a new status.
LEMMA StatusSet ==
    ASSUME TypeInv, NEW x \in Conn, Made(x), NEW st \in Status \ {"none"},
           conns' = [conns EXCEPT ![x].status = st]
    PROVE  /\ conns' \in [Conn -> [status : Status, key : Key \cup {None}, loop : Worker \cup {None}]]
           /\ SameIds
           /\ conns'[x].status = st
           /\ \A y \in Conn : y # x => conns'[y] = conns[y]
  <1>1. conns \in [Conn -> [status : Status, key : Key \cup {None}, loop : Worker \cup {None}]]
    BY DEF TypeInv
  <1>2. conns' = [conns EXCEPT ![x] = [conns[x] EXCEPT !.status = st]]
    OBVIOUS
  <1>3. [conns[x] EXCEPT !.status = st] \in [status : Status, key : Key \cup {None}, loop : Worker \cup {None}]
    BY <1>1
  <1>4. /\ [conns[x] EXCEPT !.status = st].status = st
        /\ [conns[x] EXCEPT !.status = st].key = conns[x].key
        /\ [conns[x] EXCEPT !.status = st].loop = conns[x].loop
    BY <1>1
  <1>5. conns'[x] = [conns[x] EXCEPT !.status = st] /\ \A y \in Conn : y # x => conns'[y] = conns[y]
    BY <1>1, <1>2
  <1>6. conns' \in [Conn -> [status : Status, key : Key \cup {None}, loop : Worker \cup {None}]]
    BY <1>1, <1>2, <1>3
  <1>7. SameIds
    BY <1>4, <1>5 DEF SameIds, Made
  <1> QED BY <1>4, <1>5, <1>6, <1>7

\* A connection ends, in a functor or in a handler of its socket.
LEMMA CloseInv ==
    ASSUME IndInv, NEW w \in Worker, NEW x \in Conn, NEW pinned \in BOOLEAN,
           CloseInLoop(w, x, pinned), Made(x), pinned => HasAny(x),
           crash = "none", closing[w] = None, run # "stopped",
           UNCHANGED <<proto, uses, call, run, todo, current, table, bound, mainq, ups, crash,
                       output, writing, failed>>,
           idle' \subseteq idle,
           wq' \in [Worker -> Seq(Functor)],
           \A v \in Worker : First(wq'[v]) /\ ~Has(wq'[v], "establish", x),
           \A v \in Worker : \A op, y : Has(wq'[v], op, y) => Has(wq[v], op, y),
           \A v \in Worker : \A op, y : Has(wq[v], op, y) => Has(wq'[v], op, y) \/ y = x
    PROVE  IndInv'
  <1>0. TypeInv /\ Lines /\ Tables /\ Order /\ Cleared /\ Listed /\ Unique /\ Tracked /\ Outputs
    BY DEF IndInv
  <1> DEFINE at == [conn |-> x, step |-> "test", pinned |-> pinned]
  <1>1. /\ conns' = [conns EXCEPT ![x].status = "kDisconnected"] /\ downs' = downs \cup {x}
        /\ closing' = [closing EXCEPT ![w] = at]
    BY DEF CloseInLoop
  <1>2. at \in Progress /\ at.conn = x /\ at.pinned = pinned
    BY DEF Progress
  <1> HIDE DEF at
  <1>3. /\ conns' \in [Conn -> [status : Status, key : Key \cup {None}, loop : Worker \cup {None}]]
        /\ SameIds
        /\ conns'[x].status = "kDisconnected"
        /\ \A y \in Conn : y # x => conns'[y] = conns[y]
    BY <1>0, <1>1, StatusSet DEF Status
  <1>4. /\ closing' \in [Worker -> Progress \cup {None}]
        /\ \A v \in Worker : closing'[v] = IF v = w THEN at ELSE closing[v]
    BY <1>0, <1>1, <1>2 DEF TypeInv
  <1>5. TypeInv'
    BY <1>0, <1>3, <1>4 DEF TypeInv
  <1>6. \A y \in Conn : /\ Establishing(y)' => Establishing(y) /\ y # x
                        /\ Ends(y)' => Ends(y) \/ y = x
                        /\ Closes(y) => Closes(y)' \/ y = x
                        /\ HasAny(y)' => HasAny(y)
                        /\ Pins(y)' => Pins(y) \/ (y = x /\ HasAny(x))
                        /\ Queues(y)' <=> Queues(y)
    <2>1. \A y : Establishing(y)' => Establishing(y) /\ y # x
      BY DEF Establishing
    <2>2. \A y : Ends(y)' => Ends(y) \/ y = x
      BY <1>2, <1>4 DEF Ends
    <2>3. \A y : Closes(y) => Closes(y)' \/ y = x
      BY DEF Closes
    <2>4. \A y : HasAny(y)' => HasAny(y)
      BY DEF HasAny
    <2>5. \A y : Pins(y)' => Pins(y) \/ (y = x /\ HasAny(x))
      BY <1>2, <1>4 DEF Pins
    <2> QED BY <2>1, <2>2, <2>3, <2>4, <2>5 DEF Queues
  <1>7. Lines'
    BY <1>0, <1>3, <1>5, SameLines
  <1>8. Tables'
    BY <1>0, <1>3, <1>5, SameTables DEF Tables
  <1>9. Order'
    <2> SUFFICES ASSUME NEW y \in Conn
                 PROVE  /\ Establishing(y)' =>
                              /\ conns'[y].status \in {"kConnecting", "kDisconnected"} /\ y \notin idle'
                              /\ run' \in {"new", "running"} => conns'[y].status = "kConnecting"
                        /\ Ends(y)' => conns'[y].status \in Ended /\ ~Establishing(y)' /\ y \in downs'
                        /\ proto' = "tcp" /\ conns'[y].status = "kDisconnected" => y \in downs'
                        /\ call'[y] # "none" => conns'[y].status # "none" /\ ~Establishing(y)'
      BY DEF Order, Made
    <2>1. CASE y = x
      BY <1>1, <1>3, <1>6, <2>1 DEF Ended
    <2>2. CASE y # x
      BY <1>0, <1>1, <1>3, <1>6, <2>2 DEF Order, Made
    <2> QED BY <2>1, <2>2
  <1>10. Cleared'
    BY <1>0 DEF Cleared
  <1>11. Listed'
    <2>1. ASSUME NEW y \in Conn, Lasts(y)' PROVE Lasts(y)
      BY <1>1, <1>3, <2>1 DEF Lasts
    <2> QED BY <1>0, <1>3, <2>1 DEF Listed, SameIds
  <1>12. \A y : y \in Held' <=> y \in Held
    BY DEF Held
  <1>13. Unique'
    <2>1. ASSUME NEW y \in Conn, Owned(y)' PROVE Owned(y)
      BY <1>0, <1>5, <1>6, <1>12, <2>1, OwnedBy, OwnedByNext
    <2> QED BY <1>0, <1>3, <2>1, SameUnique
  <1>14. Tracked'
    <2> SUFFICES ASSUME proto = "udp", "reuse" \notin uses, NEW y \in Conn, y \in ups \/ Establishing(y)'
                 PROVE  \/ y \in downs' \/ Closes(y)'
                        \/ run \in {"new", "running"} /\ y \in Held'
                        \/ run = "stopping" /\ y \in todo
      BY DEF Tracked
    <2>1. CASE y = x
      BY <1>1, <2>1
    <2>2. CASE y # x
      <3>1. \/ y \in downs \/ Closes(y)
            \/ run \in {"new", "running"} /\ y \in Held
            \/ run = "stopping" /\ y \in todo
        BY <1>0, <1>6, <2>2 DEF Tracked
      <3> QED BY <1>1, <1>6, <1>12, <2>2, <3>1
    <2> QED BY <2>1, <2>2
  <1>15. Outputs'
    BY <1>0, <1>3 DEF Outputs, Made, SameIds
  <1> QED BY <1>5, <1>7, <1>8, <1>9, <1>10, <1>11, <1>13, <1>14, <1>15 DEF IndInv

\* A functor was executed: it was of a connection of this loop, and is gone.
Executed(w, op, x) ==
    /\ x \in Conn /\ Made(x) /\ HasAny(x) /\ Has(wq[w], op, x)
    /\ run # "stopped"
    /\ wq' \in [Worker -> Seq(Functor)]
    /\ \A v \in Worker : First(wq'[v]) /\ ~Has(wq'[v], "establish", x)
    /\ \A v \in Worker : \A o, y : Has(wq'[v], o, y) => Has(wq[v], o, y)
    /\ \A v \in Worker : \A o, y : Has(wq[v], o, y) => Has(wq'[v], o, y) \/ (o = op /\ y = x)

\* That is what happens to the functor at the head of a line.
LEMMA Executes ==
    ASSUME IndInv, NEW w \in Worker, NEW op, Due(w, op), wq' = [wq EXCEPT ![w] = Tail(@)]
    PROVE  Executed(w, op, Head(wq[w]).conn)
  <1>0. TypeInv /\ Lines /\ Cleared
    BY DEF IndInv
  <1>1. wq[w] # <<>> /\ Head(wq[w]).op = op
    BY DEF Due
  <1> DEFINE x == Head(wq[w]).conn
  <1> DEFINE p == Head(wq[w]).op
  <1>2. /\ wq' \in [Worker -> Seq(Functor)]
        /\ \A v \in Worker : First(wq'[v])
        /\ \A v \in Worker : \A o, y : Has(wq'[v], o, y) => Has(wq[v], o, y)
        /\ \A v \in Worker : \A o, y : Has(wq[v], o, y) => Has(wq'[v], o, y) \/ (o = p /\ y = x)
        /\ Has(wq[w], p, x)
        /\ \A v \in Worker : ~Has(wq'[v], "establish", x)
    BY <1>0, <1>1, Popped
  <1>3. p = op
    BY <1>1
  <1> HIDE DEF x, p
  <1>4. x \in Conn
    BY <1>0, <1>2, HasConn
  <1>5. Made(x) /\ HasAny(x)
    BY <1>0, <1>2 DEF Lines, HasAny
  <1>6. run # "stopped"
    BY <1>0, <1>1 DEF Cleared
  <1>7. Executed(w, op, x)
    BY <1>2, <1>3, <1>4, <1>5, <1>6 DEF Executed
  <1> QED BY <1>7 DEF x

\* closeInLoop from its functor, from a callback for a datagram, from a handler.
LEMMA EndsInv ==
    ASSUME IndInv, NEW w \in Worker, NEW x \in Conn,
           \/ RunClose(w) /\ UNCHANGED udpvars
           \/ HandleReadCloses(w, x)
           \/ TcpEnds(w, x) /\ UNCHANGED udpvars
    PROVE  IndInv'
  <1> USE DEF mainvars, udpvars
  <1>1. CASE RunClose(w) /\ UNCHANGED udpvars
    <2> DEFINE y == Head(wq[w]).conn
    <2>1. /\ crash = "none" /\ Due(w, "close") /\ CloseInLoop(w, y, TRUE) /\ wq' = [wq EXCEPT ![w] = Tail(@)]
          /\ UNCHANGED <<proto, uses, call, run, todo, current, table, bound, mainq, ups, crash,
                         idle, output, writing, failed>>
      BY <1>1 DEF RunClose, Ok
    <2>2. /\ y \in Conn /\ Made(y) /\ HasAny(y) /\ closing[w] = None /\ run # "stopped"
          /\ wq' \in [Worker -> Seq(Functor)]
          /\ \A v \in Worker : First(wq'[v]) /\ ~Has(wq'[v], "establish", y)
          /\ \A v \in Worker : \A o, z : Has(wq'[v], o, z) => Has(wq[v], o, z)
          /\ \A v \in Worker : \A o, z : Has(wq[v], o, z) => Has(wq'[v], o, z) \/ z = y
      <3>1. Executed(w, "close", y)
        BY <2>1, Executes
      <3> HIDE DEF y
      <3> QED BY <2>1, <3>1 DEF Executed, Due
    <2> HIDE DEF y
    <2> QED BY <2>1, <2>2, CloseInv
  <1>2. CASE HandleReadCloses(w, x)
    <2>1. /\ crash = "none" /\ Due(w, "read") /\ x = Head(wq[w]).conn
          /\ CloseInLoop(w, x, TRUE) /\ wq' = [wq EXCEPT ![w] = Tail(@)]
          /\ UNCHANGED <<proto, uses, call, run, todo, current, table, bound, mainq, ups, crash,
                         output, writing, failed>>
          /\ idle' \subseteq idle
      BY <1>2 DEF HandleReadCloses, Reads, Ok
    <2>2. /\ Made(x) /\ HasAny(x) /\ closing[w] = None /\ run # "stopped"
          /\ wq' \in [Worker -> Seq(Functor)]
          /\ \A v \in Worker : First(wq'[v]) /\ ~Has(wq'[v], "establish", x)
          /\ \A v \in Worker : \A o, z : Has(wq'[v], o, z) => Has(wq[v], o, z)
          /\ \A v \in Worker : \A o, z : Has(wq[v], o, z) => Has(wq'[v], o, z) \/ z = x
      <3>1. Executed(w, "read", Head(wq[w]).conn)
        BY <2>1, Executes
      <3>2. Executed(w, "read", x)
        BY <2>1, <3>1
      <3> QED BY <2>1, <3>2 DEF Executed, Due
    <2> QED BY <2>1, <2>2, CloseInv
  <1>3. CASE TcpEnds(w, x) /\ UNCHANGED udpvars
    <2>1. /\ crash = "none" /\ closing[w] = None /\ run # "stopped"
          /\ conns[x].status \in {"kConnected", "kDisconnecting"}
          /\ CloseInLoop(w, x, FALSE)
          /\ UNCHANGED <<proto, uses, call, run, todo, current, table, bound, mainq, wq, ups, crash,
                         idle, output, writing, failed>>
      BY <1>3 DEF TcpEnds, Ok
    <2>2. Made(x) /\ ~Establishing(x)
      BY <2>1 DEF Made, IndInv, Order
    <2>3. wq' \in [Worker -> Seq(Functor)] /\ \A v \in Worker : First(wq'[v]) /\ ~Has(wq'[v], "establish", x)
      BY <2>1, <2>2 DEF IndInv, TypeInv, Lines, Establishing
    <2> QED BY <2>1, <2>2, <2>3, CloseInv
  <1> QED BY <1>1, <1>2, <1>3

\* onConnectEstablishedInLoop is the first thing that happens to a connection.
LEMMA EstablishInv ==
    ASSUME IndInv, NEW w \in Worker, Establish(w), UNCHANGED udpvars
    PROVE  IndInv'
  <1> USE DEF mainvars, udpvars
  <1>0. TypeInv /\ Lines /\ Tables /\ Order /\ Cleared /\ Listed /\ Unique /\ Tracked /\ Outputs
    BY DEF IndInv
  <1> DEFINE x == Head(wq[w]).conn
  <1>1. /\ crash = "none" /\ Due(w, "establish") /\ wq' = [wq EXCEPT ![w] = Tail(@)]
        /\ conns' = [conns EXCEPT ![x].status = "kConnected"] /\ ups' = ups \cup {x}
        /\ UNCHANGED <<proto, uses, call, run, todo, current, table, bound, mainq, closing, downs, crash,
                       idle, output, writing, failed>>
    BY DEF Establish, Ok
  <1>2. /\ x \in Conn /\ Made(x) /\ Has(wq[w], "establish", x) /\ run # "stopped"
        /\ wq' \in [Worker -> Seq(Functor)]
        /\ \A v \in Worker : First(wq'[v]) /\ ~Has(wq'[v], "establish", x)
        /\ \A v \in Worker : \A o, y : Has(wq'[v], o, y) => Has(wq[v], o, y)
        /\ \A v \in Worker : \A o, y : Has(wq[v], o, y) => Has(wq'[v], o, y) \/ (o = "establish" /\ y = x)
    <2>1. Executed(w, "establish", x)
      BY <1>1, Executes
    <2> HIDE DEF x
    <2> QED BY <2>1 DEF Executed
  <1> HIDE DEF x
  <1>3. Establishing(x) /\ conns[x].status \in {"kConnecting", "kDisconnected"} /\ ~Ends(x)
    <2>1. Establishing(x)
      BY <1>2 DEF Establishing
    <2> QED BY <1>0, <1>2, <2>1 DEF Order
  <1>4. /\ conns' \in [Conn -> [status : Status, key : Key \cup {None}, loop : Worker \cup {None}]]
        /\ SameIds
        /\ conns'[x].status = "kConnected"
        /\ \A y \in Conn : y # x => conns'[y] = conns[y]
    BY <1>0, <1>1, <1>2, StatusSet DEF Status
  <1>5. TypeInv'
    BY <1>0, <1>1, <1>2, <1>4 DEF TypeInv
  <1>6. \A y \in Conn : /\ Establishing(y)' => Establishing(y) /\ y # x
                        /\ Ends(y)' <=> Ends(y)
                        /\ Closes(y) => Closes(y)'
                        /\ HasAny(y)' => HasAny(y)
                        /\ Pins(y)' <=> Pins(y)
                        /\ Queues(y)' <=> Queues(y)
    <2>1. \A y : Establishing(y)' => Establishing(y) /\ y # x
      BY <1>2 DEF Establishing
    <2>2. \A y : Closes(y) => Closes(y)'
      BY <1>2 DEF Closes
    <2>3. \A y : HasAny(y)' => HasAny(y)
      BY <1>2 DEF HasAny
    <2> QED BY <1>1, <2>1, <2>2, <2>3 DEF Ends, Pins, Queues
  <1>7. Lines'
    BY <1>0, <1>2, <1>4, <1>5, SameLines
  <1>8. Tables'
    BY <1>0, <1>1, <1>4, <1>5, SameTables DEF Tables
  <1>9. Order'
    <2> SUFFICES ASSUME NEW y \in Conn
                 PROVE  /\ Establishing(y)' =>
                              /\ conns'[y].status \in {"kConnecting", "kDisconnected"} /\ y \notin idle'
                              /\ run' \in {"new", "running"} => conns'[y].status = "kConnecting"
                        /\ Ends(y)' => conns'[y].status \in Ended /\ ~Establishing(y)' /\ y \in downs'
                        /\ proto' = "tcp" /\ conns'[y].status = "kDisconnected" => y \in downs'
                        /\ call'[y] # "none" => conns'[y].status # "none" /\ ~Establishing(y)'
      BY DEF Order, Made
    <2>1. CASE y = x
      BY <1>1, <1>2, <1>3, <1>4, <1>6, <2>1
    <2>2. CASE y # x
      BY <1>0, <1>1, <1>4, <1>6, <2>2 DEF Order, Made
    <2> QED BY <2>1, <2>2
  <1>10. Cleared'
    BY <1>0, <1>1, <1>2 DEF Cleared
  <1>11. Listed'
    <2> SUFFICES ASSUME run \in {"new", "running"}, "reuse" \notin uses, NEW y \in Conn,
                        Lasts(y)'
                 PROVE  table[conns[y].key] = y
      BY <1>1, <1>4 DEF Listed, SameIds
    <2>1. CASE y = x
      <3>1. conns[x].status = "kConnecting"
        BY <1>0, <1>2, <1>3 DEF Order
      <3> QED BY <1>0, <2>1, <3>1 DEF Listed, Lasts
    <2>2. CASE y # x
      BY <1>0, <1>1, <1>4, <2>2 DEF Listed, Lasts
    <2> QED BY <2>1, <2>2
  <1>12. \A y : y \in Held' <=> y \in Held
    BY <1>1 DEF Held
  <1>13. Unique'
    <2>1. ASSUME NEW y \in Conn, Owned(y)' PROVE Owned(y)
      BY <1>0, <1>1, <1>5, <1>6, <1>12, <2>1, OwnedBy, OwnedByNext
    <2> QED BY <1>0, <1>1, <1>4, <2>1, SameUnique
  <1>14. Tracked'
    <2> SUFFICES ASSUME proto = "udp", "reuse" \notin uses, NEW y \in Conn, y \in ups' \/ Establishing(y)'
                 PROVE  \/ y \in downs \/ Closes(y)'
                        \/ run \in {"new", "running"} /\ y \in Held'
                        \/ run = "stopping" /\ y \in todo
      BY <1>1 DEF Tracked
    <2>1. y \in ups \/ Establishing(y)
      BY <1>1, <1>3, <1>6
    <2>2. \/ y \in downs \/ Closes(y)
          \/ run \in {"new", "running"} /\ y \in Held
          \/ run = "stopping" /\ y \in todo
      BY <1>0, <2>1 DEF Tracked
    <2> QED BY <1>6, <1>12, <2>2
  <1>15. Outputs'
    BY <1>0, <1>1, <1>4 DEF Outputs, Made, SameIds
  <1> QED BY <1>5, <1>7, <1>8, <1>9, <1>10, <1>11, <1>13, <1>14, <1>15 DEF IndInv

\* A functor that changes no connection is executed.
LEMMA ExecutedInv ==
    ASSUME IndInv, NEW w \in Worker, NEW x, NEW op \in {"read", "shutdown"}, Executed(w, op, x),
           crash = "none", idle' \subseteq idle, Outputs',
           UNCHANGED <<proto, uses, call, run, todo, current, table, bound, mainq, ups, downs, conns, closing>>
    PROVE  IndInv'
  <1>0. TypeInv /\ Lines /\ Tables /\ Order /\ Cleared /\ Listed /\ Unique /\ Tracked /\ Outputs
    BY DEF IndInv
  <1>1. UNCHANGED <<proto, uses, call, run, todo, current, table, bound, mainq, ups, downs, conns, closing>>
    OBVIOUS
  <1>2. /\ run # "stopped"
        /\ wq' \in [Worker -> Seq(Functor)]
        /\ \A v \in Worker : First(wq'[v])
        /\ \A v \in Worker : \A o, z : Has(wq'[v], o, z) => Has(wq[v], o, z)
        /\ \A v \in Worker : \A o, z : Has(wq[v], o, z) => Has(wq'[v], o, z) \/ (o = op /\ z = x)
    BY DEF Executed
  <1>3. TypeInv'
    BY <1>0, <1>1, <1>2 DEF TypeInv
  <1>4. SameIds
    BY <1>1 DEF SameIds
  <1>5. \A y \in Conn : /\ Establishing(y)' => Establishing(y)
                        /\ Ends(y)' <=> Ends(y)
                        /\ Closes(y) => Closes(y)'
                        /\ HasAny(y)' => HasAny(y)
                        /\ Pins(y)' <=> Pins(y)
                        /\ Queues(y)' <=> Queues(y)
    <2>1. \A y : Establishing(y)' => Establishing(y)
      BY <1>2 DEF Establishing
    <2>2. \A y : Closes(y) => Closes(y)'
      BY <1>2 DEF Closes
    <2>3. \A y : HasAny(y)' => HasAny(y)
      BY <1>2 DEF HasAny
    <2> QED BY <1>1, <2>1, <2>2, <2>3 DEF Ends, Pins, Queues
  <1>6. Lines'
    BY <1>0, <1>2, <1>3, <1>4, SameLines
  <1>7. Tables'
    BY <1>0, <1>1, <1>3, <1>4, SameTables DEF Tables
  <1>8. Order'
    BY <1>0, <1>1, <1>5, SameOrder
  <1>9. Cleared' /\ Listed'
    BY <1>0, <1>1, <1>2 DEF Cleared, Listed, Lasts
  <1>10. \A y : y \in Held' <=> y \in Held
    BY <1>1 DEF Held
  <1>11. Unique'
    <2>1. ASSUME NEW y \in Conn, Owned(y)' PROVE Owned(y)
      BY <1>0, <1>1, <1>3, <1>5, <1>10, <2>1, OwnedBy, OwnedByNext
    <2> QED BY <1>0, <1>1, <1>4, <2>1, SameUnique
  <1>12. Tracked'
    BY <1>0, <1>1, <1>5, <1>10 DEF Tracked
  <1> QED BY <1>3, <1>6, <1>7, <1>8, <1>9, <1>11, <1>12 DEF IndInv

\* A datagram is handled; the application answers it, or not.
LEMMA ReadInv ==
    ASSUME IndInv, NEW w \in Worker, NEW x \in Conn,
           HandleRead(w, x) \/ \E sent \in BOOLEAN : HandleReadSends(w, x, sent)
    PROVE  IndInv'
  <1> USE DEF mainvars, udpvars
  <1>0. TypeInv /\ Lines /\ Tables /\ Order /\ Cleared /\ Listed /\ Unique /\ Tracked /\ Outputs
    BY DEF IndInv
  <1>1. /\ crash = "none" /\ Due(w, "read") /\ x = Head(wq[w]).conn /\ wq' = [wq EXCEPT ![w] = Tail(@)]
        /\ idle' \subseteq idle
        /\ UNCHANGED <<proto, uses, call, run, todo, current, table, bound, mainq, ups, downs, conns, closing>>
    BY DEF HandleRead, HandleReadSends, Reads, Ok
  <1>2. Executed(w, "read", x) /\ Made(x)
    <2>1. Executed(w, "read", Head(wq[w]).conn)
      BY <1>1, Executes
    <2> QED BY <1>1, <2>1 DEF Executed
  <1>3. Outputs'
    <2>1. CASE HandleRead(w, x)
      BY <1>0, <1>1, <2>1 DEF HandleRead, Outputs, Made
    <2>2. ASSUME NEW sent \in BOOLEAN, HandleReadSends(w, x, sent) PROVE Outputs'
      <3>1. CASE x \notin writing /\ x \in bound /\ sent
        <4>1. output' = output \ {x} /\ writing' = writing \ {x} /\ failed' = failed
          BY <2>2, <3>1 DEF HandleReadSends
        <4> QED BY <1>0, <1>1, <4>1 DEF Outputs, Made
      <3>2. CASE x \notin writing /\ x \in bound /\ ~sent
        <4>1. output' = output \cup {x} /\ writing' = writing \cup {x} /\ failed' = failed \cup {x}
          BY <2>2, <3>2 DEF HandleReadSends
        <4> QED BY <1>0, <1>1, <1>2, <4>1 DEF Outputs, Made
      <3>3. CASE ~(x \notin writing /\ x \in bound)
        <4>1. output' = output \cup {x} /\ writing' = writing \cup {x} /\ failed' = failed
          BY <2>2, <3>3 DEF HandleReadSends
        <4>2. x \in failed \/ x \notin bound
          BY <1>0, <3>3 DEF Outputs
        <4> QED BY <1>0, <1>1, <1>2, <4>1, <4>2 DEF Outputs, Made
      <3> QED BY <3>1, <3>2, <3>3
    <2> QED BY <2>1, <2>2
  <1> QED BY <1>1, <1>2, <1>3, ExecutedInv

\* A loop executes a functor of shutdown(), or is ended by it.
LEMMA ShutdownInv ==
    ASSUME IndInv, NEW w \in Worker, RunShutdown(w), UNCHANGED udpvars
    PROVE  IndInv'
  <1> USE DEF mainvars, udpvars
  <1>1. /\ crash = "none" /\ Due(w, "shutdown") /\ wq' = [wq EXCEPT ![w] = Tail(@)]
        /\ UNCHANGED <<proto, uses, call, run, todo, current, table, bound, mainq, ups, downs, conns, closing,
                       idle, output, writing, failed>>
    BY DEF RunShutdown, Ok
  <1>2. Executed(w, "shutdown", Head(wq[w]).conn)
    BY <1>1, Executes
  <1>3. Outputs'
    BY <1>1 DEF IndInv, Outputs, Made
  <1> QED BY <1>1, <1>2, <1>3, ExecutedInv

-----------------------------------------------------------------------------
(* Connections are closed, or get datagrams, from the main thread *)

\* What stop(), the repeated timer and the acceptor do with connections that are
\* there: functors are queued that are not the first, and a connection that leaves
\* the table or that stop() is through with has one that closes it.
LEMMA HandOver ==
    ASSUME IndInv, TypeInv', SameIds, run \in {"running", "stopping"}, crash = "none",
           UNCHANGED <<proto, uses, call, run, bound, mainq, closing, ups, downs, crash,
                       idle, output, writing, failed>>,
           \A v \in Worker : First(wq'[v]),
           \A v \in Worker : \A op, y : Has(wq[v], op, y) => Has(wq'[v], op, y),
           \A v \in Worker : \A op, y :
              Has(wq'[v], op, y) => \/ Has(wq[v], op, y)
                                    \/ op # "establish" /\ y \in Held \cup todo /\ conns[y].loop = v,
           \A k \in Key : table'[k] = table[k] \/ table'[k] = None,
           \A x \in Held : \/ table'[conns[x].key] = x
                           \/ Closes(x)' /\ conns'[x].status = "kDisconnected",
           todo' \subseteq todo, \A x \in todo : proto = "udp" => x \in todo' \/ Closes(x)',
           current' # None => current' \in todo' /\ run = "stopping",
           \A x \in Conn :
              \/ conns'[x].status = conns[x].status
              \/ conns[x].status = "kConnected" /\ conns'[x].status = "kDisconnecting"
              \/ proto = "udp" /\ conns'[x].status = "kDisconnected" /\ (run = "stopping" \/ x \in idle)
    PROVE  IndInv'
  <1>0. TypeInv /\ Lines /\ Tables /\ Order /\ Cleared /\ Listed /\ Unique /\ Tracked /\ Outputs
    BY DEF IndInv
  <1>1. \A x \in Held \cup todo : x \in Conn /\ Made(x)
    BY <1>0, HeldFacts DEF Tables
  <1>2. /\ \A x : Establishing(x)' => Establishing(x)
        /\ \A x : Ends(x)' <=> Ends(x)
        /\ \A x : Closes(x) => Closes(x)'
        /\ \A x : HasAny(x)' => HasAny(x) \/ x \in Held \/ x \in todo
        /\ \A x : Pins(x)' <=> Pins(x)
        /\ \A x : Queues(x)' <=> Queues(x)
    <2>1. \A x : Establishing(x)' => Establishing(x)
      BY DEF Establishing
    <2>2. \A x : Closes(x) => Closes(x)'
      BY DEF Closes
    <2>3. \A x : HasAny(x)' => HasAny(x) \/ x \in Held \/ x \in todo
      BY DEF HasAny
    <2>4. \A x : Ends(x)' <=> Ends(x)
      BY DEF Ends
    <2>5. \A x : (Pins(x)' <=> Pins(x)) /\ (Queues(x)' <=> Queues(x))
      BY DEF Pins, Queues
    <2> QED BY <2>1, <2>2, <2>3, <2>4, <2>5
  <1>3. Lines'
    <2>1. \A v \in Worker : \A op, x :
             Has(wq'[v], op, x) => Has(wq[v], op, x) \/ (x \in Conn /\ Made(x) /\ conns[x].loop = v)
      BY <1>1
    <2> QED BY <1>0, <2>1, SameLines
  <1>4. Tables'
    BY <1>0, SameTables
  <1>5. Order'
    <2> SUFFICES ASSUME NEW x \in Conn
                 PROVE  /\ Establishing(x)' =>
                              /\ conns'[x].status \in {"kConnecting", "kDisconnected"} /\ x \notin idle
                              /\ run \in {"new", "running"} => conns'[x].status = "kConnecting"
                        /\ Ends(x)' => conns'[x].status \in Ended /\ ~Establishing(x)' /\ x \in downs
                        /\ proto = "tcp" /\ conns'[x].status = "kDisconnected" => x \in downs
                        /\ call[x] # "none" => conns'[x].status # "none" /\ ~Establishing(x)'
      BY DEF Order, Made
    <2>1. /\ Establishing(x) =>
                /\ conns[x].status \in {"kConnecting", "kDisconnected"} /\ x \notin idle
                /\ run \in {"new", "running"} => conns[x].status = "kConnecting"
          /\ Ends(x) => conns[x].status \in Ended /\ ~Establishing(x) /\ x \in downs
          /\ proto = "tcp" /\ conns[x].status = "kDisconnected" => x \in downs
          /\ call[x] # "none" => conns[x].status # "none" /\ ~Establishing(x)
      BY <1>0 DEF Order, Made
    <2>2. CASE conns'[x].status = conns[x].status
      BY <1>2, <2>1, <2>2
    <2>3. CASE conns[x].status = "kConnected" /\ conns'[x].status = "kDisconnecting"
      BY <1>2, <2>1, <2>3 DEF Ended
    <2>4. CASE proto = "udp" /\ conns'[x].status = "kDisconnected" /\ (run = "stopping" \/ x \in idle)
      BY <1>2, <2>1, <2>4 DEF Ended
    <2> QED BY <2>2, <2>3, <2>4
  <1>6. Cleared'
    BY DEF Cleared
  <1>7. Listed'
    <2> SUFFICES ASSUME run \in {"new", "running"}, "reuse" \notin uses, NEW x \in Conn,
                        Lasts(x)'
                 PROVE  table'[conns[x].key] = x
      BY DEF Listed, SameIds
    <2>1. Lasts(x)
      BY DEF Lasts
    <2>2. table[conns[x].key] = x /\ conns[x].key \in Key
      BY <1>0, <2>1 DEF Listed, Lasts, Tables, Made
    <2>3. x \in Held
      BY <2>2, ServerAssumption DEF Held
    <2>4. conns'[x].status # "kDisconnected"
      BY DEF Lasts
    <2> QED BY <2>2, <2>3, <2>4
  <1>8. \A x : x \in Held' => x \in Held
    BY DEF Held
  <1>9. Unique'
    <2>1. ASSUME NEW x \in Conn, Owned(x)' PROVE Owned(x)
      BY <1>0, <1>2, <1>8, <2>1, OwnedBy, OwnedByNext
    <2> QED BY <1>0, <2>1, SameUnique
  <1>10. Tracked'
    <2> SUFFICES ASSUME proto = "udp", "reuse" \notin uses, NEW x \in Conn, x \in ups \/ Establishing(x)'
                 PROVE  \/ x \in downs \/ Closes(x)'
                        \/ run \in {"new", "running"} /\ x \in Held'
                        \/ run = "stopping" /\ x \in todo'
      BY DEF Tracked
    <2>1. \/ x \in downs \/ Closes(x)
          \/ run \in {"new", "running"} /\ x \in Held
          \/ run = "stopping" /\ x \in todo
      BY <1>0, <1>2 DEF Tracked
    <2>2. ASSUME x \in Held PROVE x \in Held' \/ Closes(x)'
      <3>1. x # None /\ conns[x].key \in Key /\ table[conns[x].key] = x
        BY <1>0, <2>2, HeldFacts
      <3>2. ASSUME table'[conns[x].key] = x PROVE x \in Held'
        BY <3>1, <3>2 DEF Held
      <3> QED BY <2>2, <3>2
    <2> QED BY <1>2, <2>1, <2>2
  <1>11. Outputs'
    BY <1>0 DEF Outputs, Made, SameIds
  <1> QED BY <1>3, <1>4, <1>5, <1>6, <1>7, <1>9, <1>10, <1>11 DEF IndInv

\* stop() comes to the end of a connection.
LEMMA StopClosesInv ==
    ASSUME IndInv, StopCloses, UNCHANGED udpvars
    PROVE  IndInv'
  <1> USE DEF mainvars, udpvars
  <1>0. TypeInv /\ Lines /\ Tables
    BY DEF IndInv
  <1>1. /\ run = "stopping" /\ crash = "none" /\ current # None
        /\ todo' = todo \ {current} /\ current' = None
        /\ UNCHANGED <<proto, uses, call, run, table, bound, mainq, closing, ups, downs, crash,
                       idle, output, writing, failed>>
    BY DEF StopCloses, Ok
  <1>2. PICK x \in Conn : x = current /\ x \in todo /\ Made(x) /\ conns[x].loop \in Worker
    <2>1. current \in Conn /\ current \in todo
      BY <1>0, <1>1 DEF TypeInv, Tables
    <2> QED BY <1>0, <2>1 DEF Tables
  <1>3. \A y \in Held : table'[conns[y].key] = y
    BY <1>0, <1>1, HeldFacts
  <1>4. CASE proto = "udp" \/ conns[x].status = "kConnected"
    <2> DEFINE st == IF proto = "udp" THEN "kDisconnected" ELSE "kDisconnecting"
    <2>1. conns' = [conns EXCEPT ![x].status = st] /\ Post(conns[x].loop, "close", x)
      BY <1>2, <1>4 DEF StopCloses
    <2>2. st \in Status \ {"none"}
      BY DEF Status
    <2> HIDE DEF st
    <2>3. /\ conns' \in [Conn -> [status : Status, key : Key \cup {None}, loop : Worker \cup {None}]]
          /\ SameIds
          /\ conns'[x].status = st
          /\ \A y \in Conn : y # x => conns'[y] = conns[y]
      BY <1>0, <1>2, <2>1, <2>2, StatusSet
    <2>4. /\ wq' \in [Worker -> Seq(Functor)]
          /\ \A v \in Worker : First(wq'[v])
          /\ \A v \in Worker : \A op, y :
                Has(wq'[v], op, y) <=> Has(wq[v], op, y) \/ (v = conns[x].loop /\ op = "close" /\ y = x)
      <3> DEFINE w == conns[x].loop
      <3>1. w \in Worker /\ Post(w, "close", x)
        BY <1>2, <2>1
      <3> HIDE DEF w
      <3>2. /\ wq' \in [Worker -> Seq(Functor)]
            /\ \A v \in Worker : First(wq'[v])
            /\ \A v \in Worker : \A op, y :
                  Has(wq'[v], op, y) <=> Has(wq[v], op, y) \/ (v = w /\ op = "close" /\ y = x)
        BY <1>0, <3>1, Posted
      <3> QED BY <3>2 DEF w
    <2>5. TypeInv'
      BY <1>0, <1>1, <2>3, <2>4 DEF TypeInv
    <2>6. Closes(x)'
      BY <1>2, <2>4 DEF Closes
    <2>7. \A y \in todo : y \in todo' \/ Closes(y)'
      BY <1>1, <1>2, <2>6
    <2>8. \A y \in Conn :
              \/ conns'[y].status = conns[y].status
              \/ conns[y].status = "kConnected" /\ conns'[y].status = "kDisconnecting"
              \/ proto = "udp" /\ conns'[y].status = "kDisconnected" /\ (run = "stopping" \/ y \in idle)
      BY <1>1, <1>4, <2>3 DEF st
    <2>9. \A v \in Worker : \A op, y :
              Has(wq'[v], op, y) => \/ Has(wq[v], op, y)
                                    \/ op # "establish" /\ y \in Held \cup todo /\ conns[y].loop = v
      BY <1>2, <2>4
    <2> QED BY <1>1, <1>3, <2>3, <2>4, <2>5, <2>7, <2>8, <2>9, HandOver
  <1>5. CASE ~(proto = "udp" \/ conns[x].status = "kConnected")
    <2>1. UNCHANGED <<conns, wq>>
      BY <1>2, <1>5 DEF StopCloses
    <2>2. TypeInv' /\ SameIds
      BY <1>0, <1>1, <2>1 DEF TypeInv, SameIds
    <2>3. \A v \in Worker : First(wq'[v])
      BY <1>0, <2>1 DEF Lines
    <2> QED BY <1>1, <1>3, <1>5, <2>1, <2>2, <2>3, HandOver
  <1> QED BY <1>4, <1>5

\* A datagram for a connection of the table.
LEMMA RecvKnownInv ==
    ASSUME IndInv, NEW k \in Key, RecvKnown(k)
    PROVE  IndInv'
  <1> USE DEF mainvars, udpvars
  <1>0. TypeInv /\ Lines /\ Tables
    BY DEF IndInv
  <1>1. /\ run = "running" /\ crash = "none" /\ table[k] # None
        /\ Post(conns[table[k]].loop, "read", table[k])
        /\ UNCHANGED <<proto, uses, call, run, todo, current, table, conns, bound, mainq, closing, ups,
                       downs, crash, idle, output, writing, failed>>
    BY DEF RecvKnown, Arrives, Ok, Receiving
  <1>2. PICK x \in Conn : x = table[k] /\ x \in Held /\ conns[x].loop \in Worker
    <2>1. table[k] \in Held
      BY <1>1 DEF Held
    <2> QED BY <1>0, <2>1, HeldFacts DEF Tables
  <1>3. /\ wq' \in [Worker -> Seq(Functor)]
        /\ \A v \in Worker : First(wq'[v])
        /\ \A v \in Worker : \A op, y :
              Has(wq'[v], op, y) <=> Has(wq[v], op, y) \/ (v = conns[x].loop /\ op = "read" /\ y = x)
    <2>1. Post(conns[x].loop, "read", x)
      BY <1>1, <1>2
    <2> DEFINE w == conns[x].loop
    <2>2. w \in Worker /\ Post(w, "read", x)
      BY <1>2, <2>1
    <2> HIDE DEF w
    <2>3. /\ wq' \in [Worker -> Seq(Functor)]
          /\ \A v \in Worker : First(wq'[v])
          /\ \A v \in Worker : \A op, y :
                Has(wq'[v], op, y) <=> Has(wq[v], op, y) \/ (v = w /\ op = "read" /\ y = x)
      BY <1>0, <2>2, Posted
    <2> QED BY <2>3 DEF w
  <1>4. TypeInv' /\ SameIds
    BY <1>0, <1>1, <1>3 DEF TypeInv, SameIds
  <1>5. \A y \in Held : table'[conns[y].key] = y
    BY <1>0, <1>1, HeldFacts
  <1>6. \A v \in Worker : \A op, y :
            Has(wq'[v], op, y) => \/ Has(wq[v], op, y)
                                  \/ op # "establish" /\ y \in Held \cup todo /\ conns[y].loop = v
    BY <1>2, <1>3
  <1>7. current' # None => current' \in todo' /\ run = "stopping"
    BY <1>0, <1>1 DEF Tables
  <1> QED BY <1>1, <1>3, <1>4, <1>5, <1>6, <1>7, HandOver

\* A finite set as a sequence has its members, once each, and no others.
LEMMA SetAsSeq ==
    ASSUME NEW S, IsFiniteSet(S)
    PROVE  /\ SetToSeq(S) \in Seq(S)
           /\ \A i \in 1..Len(SetToSeq(S)) : SetToSeq(S)[i] \in S
           /\ \A x \in S : \E i \in 1..Len(SetToSeq(S)) : SetToSeq(S)[i] = x
           /\ \A i, j \in 1..Len(SetToSeq(S)) : SetToSeq(S)[i] = SetToSeq(S)[j] => i = j
  <1> DEFINE n == Cardinality(S)
  <1> DEFINE f == SetToSeq(S)
  <1>1. n \in Nat /\ ExistsBijection(1..n, S)
    BY FS_CardinalityType
  <1>2. \E g \in [1..n -> S] : IsInjective(g)
    BY <1>1 DEF ExistsBijection, Bijection, Injection
  <1>3. f \in [1..n -> S] /\ IsInjective(f)
    BY <1>2 DEF SetToSeq
  <1> HIDE DEF f
  <1>4. f \in Injection(1..n, S)
    BY <1>3 DEF Injection
  <1>5. Cardinality(1..n) = n
    BY <1>1, FS_Interval
  <1>6. f \in Surjection(1..n, S)
    BY <1>4, <1>5, FS_Injection
  <1>7. \A x \in S : \E i \in 1..n : f[i] = x
    BY <1>6 DEF Surjection
  <1>8. f \in Seq(S) /\ Len(f) = n
    BY <1>1, <1>3
  <1>9. \A i, j \in 1..n : f[i] = f[j] => i = j
    BY <1>3 DEF IsInjective
  <1> QED BY <1>3, <1>7, <1>8, <1>9 DEF f

\* The functors that close these connections
CloseAll(D) == SetToSeq({[op |-> "close", conn |-> x] : x \in D})

\* close each of them once.
LEMMA ClosesAll ==
    ASSUME NEW D \in SUBSET Conn, IsFiniteSet(D)
    PROVE  /\ CloseAll(D) \in Seq(Functor)
           /\ \A op, x : Has(CloseAll(D), op, x) <=> op = "close" /\ x \in D
           /\ \A x : Once(CloseAll(D), x)
  <1> DEFINE F == {[op |-> "close", conn |-> x] : x \in D}
  <1>1. IsFiniteSet(F)
    <2> DEFINE g == [y \in D |-> [op |-> "close", conn |-> y]]
    <2>1. g \in [D -> F] /\ \A t \in F : \E y \in D : g[y] = t
      OBVIOUS
    <2>2. g \in Surjection(D, F)
      BY <2>1 DEF Surjection
    <2> HIDE DEF F, g
    <2> QED BY <2>2, FS_Surjection
  <1>2. F \subseteq Functor
    BY DEF Functor
  <1>3. \A t \in F : t.op = "close" /\ t.conn \in D /\ t = [op |-> "close", conn |-> t.conn]
    OBVIOUS
  <1>4. \A x \in D : \E t \in F : t.op = "close" /\ t.conn = x
    <2> SUFFICES ASSUME NEW x \in D PROVE \E t \in F : t.op = "close" /\ t.conn = x
      OBVIOUS
    <2>1. [op |-> "close", conn |-> x] \in F
      OBVIOUS
    <2> QED BY <2>1
  <1>5. CloseAll(D) = SetToSeq(F)
    BY DEF CloseAll
  <1> HIDE DEF F
  <1> DEFINE q == SetToSeq(F)
  <1>6. /\ q \in Seq(F)
        /\ \A i \in 1..Len(q) : q[i] \in F
        /\ \A t \in F : \E i \in 1..Len(q) : q[i] = t
        /\ \A i, j \in 1..Len(q) : q[i] = q[j] => i = j
    BY <1>1, SetAsSeq
  <1> HIDE DEF q
  <1>7. q \in Seq(Functor)
    BY <1>2, <1>6
  <1>8. \A op, x : Has(q, op, x) <=> op = "close" /\ x \in D
    <2>1. ASSUME NEW op, NEW x, Has(q, op, x) PROVE op = "close" /\ x \in D
      <3>1. PICK i \in 1..Len(q) : q[i].op = op /\ q[i].conn = x
        BY <2>1 DEF Has
      <3>2. q[i] \in F
        BY <1>6
      <3> QED BY <1>3, <3>1, <3>2
    <2>2. ASSUME NEW x \in D PROVE Has(q, "close", x)
      <3>1. PICK t \in F : t.op = "close" /\ t.conn = x
        BY <1>4
      <3>2. PICK i \in 1..Len(q) : q[i] = t
        BY <1>6
      <3> QED BY <3>1, <3>2 DEF Has
    <2> QED BY <2>1, <2>2
  <1>9. \A x : Once(q, x)
    <2> SUFFICES ASSUME NEW x, NEW i \in 1..Len(q), NEW j \in 1..Len(q), q[i].conn = x, q[j].conn = x
                 PROVE  i = j
      BY DEF Once
    <2>1. q[i] = [op |-> "close", conn |-> x] /\ q[j] = [op |-> "close", conn |-> x]
      BY <1>3, <1>6
    <2> QED BY <1>6, <2>1
  <1> QED BY <1>5, <1>7, <1>8, <1>9 DEF q

\* Connections of the table that nothing was heard of
ExpiredAt(w) == {y \in Held \cap idle : conns[y].loop = w}

\* are finitely many, as addresses are.
LEMMA Expired ==
    ASSUME TypeInv, NEW w
    PROVE  ExpiredAt(w) \in SUBSET Conn /\ IsFiniteSet(ExpiredAt(w))
  <1> DEFINE T == {table[k] : k \in Key}
  <1>1. table \in [Key -> T]
    BY DEF TypeInv
  <1>2. table \in Surjection(Key, T)
    BY <1>1 DEF Surjection
  <1>3. IsFiniteSet(T)
    BY <1>2, AddressAssumption, FS_Surjection
  <1>4. ExpiredAt(w) \in SUBSET T /\ ExpiredAt(w) \in SUBSET Conn
    BY DEF ExpiredAt, Held, TypeInv
  <1> HIDE DEF T
  <1> QED BY <1>3, <1>4, FS_Subset

\* The repeated timer closes only connections that were established.
LEMMA CheckExpiredInv ==
    ASSUME IndInv, proto = "udp", CheckExpired
    PROVE  IndInv'
  <1> USE DEF mainvars, udpvars
  <1>0. TypeInv /\ Lines /\ Tables
    BY DEF IndInv
  <1> DEFINE E == Held \cap idle
  <1> DEFINE s == [w \in Worker |-> CloseAll(ExpiredAt(w))]
  <1>1. /\ run = "running" /\ crash = "none"
        /\ table' = [k \in Key |-> IF table[k] \in E THEN None ELSE table[k]]
        /\ conns' = [x \in Conn |-> IF x \in E
                                    THEN [conns[x] EXCEPT !.status = "kDisconnected"] ELSE conns[x]]
        /\ wq' = [w \in Worker |-> wq[w] \o CloseAll(ExpiredAt(w))]
        /\ UNCHANGED <<proto, uses, call, run, todo, current, bound, mainq, closing, ups, downs, crash,
                       idle, output, writing, failed>>
    BY DEF CheckExpired, expiredChecker, Ok, CloseAll, ExpiredAt
  <1>2. /\ \A x \in E : x \in Conn /\ Made(x) /\ x \in idle /\ conns[x].loop \in Worker /\ x \in Held
        /\ \A w : ExpiredAt(w) = {y \in E : conns[y].loop = w}
    BY <1>0, HeldFacts DEF Tables, ExpiredAt
  <1> HIDE DEF E
  <1>4. ASSUME NEW w \in Worker
        PROVE  /\ s[w] \in Seq(Functor)
               /\ \A op, x : Has(s[w], op, x) <=> op = "close" /\ x \in ExpiredAt(w)
    <2> DEFINE D == ExpiredAt(w)
    <2>1. D \in SUBSET Conn /\ IsFiniteSet(D)
      BY <1>0, Expired
    <2> HIDE DEF D
    <2>2. /\ CloseAll(D) \in Seq(Functor)
          /\ \A op, x : Has(CloseAll(D), op, x) <=> op = "close" /\ x \in D
      BY <2>1, ClosesAll
    <2> QED BY <2>2 DEF D
  <1>5. /\ s \in [Worker -> Seq(Functor)]
        /\ wq \in [Worker -> Seq(Functor)]
        /\ wq' = [w \in Worker |-> wq[w] \o s[w]]
    <2>1. s = [w \in Worker |-> s[w]]
      OBVIOUS
    <2>2. wq' = [w \in Worker |-> wq[w] \o s[w]]
      BY <1>1
    <2> HIDE DEF s
    <2> QED BY <1>0, <1>4, <2>1, <2>2 DEF TypeInv
  <1> HIDE DEF s
  <1>6. wq' \in [Worker -> Seq(Functor)]
    <2>1. \A w \in Worker : wq[w] \o s[w] \in Seq(Functor)
      BY <1>5, ConcatProperties
    <2> QED BY <1>5, <2>1
  <1>7. \A v \in Worker : First(s[v]) /\ \A x, op : Has(s[v], "establish", x) => ~Has(wq[v], op, x)
    <2>1. \A v \in Worker : \A x : ~Has(s[v], "establish", x)
      <3> SUFFICES ASSUME NEW v \in Worker, NEW x, Has(s[v], "establish", x) PROVE FALSE
        OBVIOUS
      <3>1. \A op, y : Has(s[v], op, y) <=> op = "close" /\ y \in ExpiredAt(v)
        BY <1>4
      <3>2. Has(s[v], "establish", x) => "establish" = "close"
        BY <3>1, Zenon
      <3> QED BY <3>2
    <2>2. ASSUME NEW v \in Worker PROVE First(s[v])
      <3> SUFFICES ASSUME NEW i \in 1..Len(s[v]), s[v][i].op = "establish" PROVE FALSE
        BY DEF First
      <3>1. Has(s[v], "establish", s[v][i].conn)
        BY DEF Has
      <3> QED BY <2>1, <3>1
    <2> QED BY <2>1, <2>2
  <1>8. /\ \A v \in Worker : First(wq'[v])
        /\ \A v \in Worker : \A op, x : Has(wq'[v], op, x) <=> Has(wq[v], op, x) \/ Has(s[v], op, x)
    <2>1. \A v \in Worker : wq'[v] = wq[v] \o s[v]
      BY <1>5
    <2> QED BY <1>0, <1>5, <1>6, <1>7, <2>1, Queued
  <1>9. \A v \in Worker : \A op, y :
            Has(wq'[v], op, y) => \/ Has(wq[v], op, y)
                                  \/ op # "establish" /\ y \in Held \cup todo /\ conns[y].loop = v
    <2>1. \A v \in Worker : \A y \in ExpiredAt(v) : y \in Held /\ conns[y].loop = v
      BY <1>2
    <2> QED BY <1>4, <1>8, <2>1
  <1>10. \A x \in E : Closes(x)'
    <2> SUFFICES ASSUME NEW x \in E PROVE Closes(x)'
      OBVIOUS
    <2>1. conns[x].loop \in Worker /\ x \in ExpiredAt(conns[x].loop)
      BY <1>2
    <2>2. Has(wq'[conns[x].loop], "close", x)
      BY <1>4, <1>8, <2>1
    <2> QED BY <2>1, <2>2 DEF Closes
  <1>11. /\ \A x \in Conn : conns'[x] = IF x \in E THEN [conns[x] EXCEPT !.status = "kDisconnected"]
                                        ELSE conns[x]
         /\ conns \in [Conn -> [status : Status, key : Key \cup {None}, loop : Worker \cup {None}]]
    BY <1>0, <1>1 DEF TypeInv
  <1>12. \A x \in E : /\ conns'[x].status = "kDisconnected" /\ conns'[x].key = conns[x].key
                      /\ conns'[x].loop = conns[x].loop
    BY <1>2, <1>11
  <1>13. SameIds
    BY <1>2, <1>11, <1>12 DEF SameIds, Made
  <1>14. conns' \in [Conn -> [status : Status, key : Key \cup {None}, loop : Worker \cup {None}]]
    <2>1. "kDisconnected" \in Status
      BY DEF Status
    <2>2. \A x \in Conn : [conns[x] EXCEPT !.status = "kDisconnected"] \in
                              [status : Status, key : Key \cup {None}, loop : Worker \cup {None}]
      BY <1>11, <2>1
    <2> QED BY <1>1, <1>11, <2>2
  <1>15. table' \in [Key -> Conn \cup {None}] /\ \A k \in Key : table'[k] = table[k] \/ table'[k] = None
    BY <1>0, <1>1 DEF TypeInv
  <1>16. TypeInv'
    BY <1>0, <1>1, <1>6, <1>14, <1>15 DEF TypeInv
  <1>17. \A x \in Held : \/ table'[conns[x].key] = x
                         \/ Closes(x)' /\ conns'[x].status = "kDisconnected"
    <2> SUFFICES ASSUME NEW x \in Held, x \notin E PROVE table'[conns[x].key] = x
      BY <1>10, <1>12
    <2>1. conns[x].key \in Key /\ table[conns[x].key] = x
      BY <1>0, HeldFacts
    <2> QED BY <1>1, <2>1
  <1>18. \A x \in Conn :
              \/ conns'[x].status = conns[x].status
              \/ conns[x].status = "kConnected" /\ conns'[x].status = "kDisconnecting"
              \/ proto = "udp" /\ conns'[x].status = "kDisconnected" /\ (run = "stopping" \/ x \in idle)
    BY <1>2, <1>11, <1>12
  <1>19. current' # None => current' \in todo' /\ run = "stopping"
    BY <1>0, <1>1 DEF Tables
  <1>20. \A v \in Worker : \A op, y : Has(wq[v], op, y) => Has(wq'[v], op, y)
    BY <1>8
  <1> QED BY <1>1, <1>8, <1>9, <1>13, <1>15, <1>16, <1>17, <1>18, <1>19, <1>20, HandOver

\* A connection begins; nothing is left of an earlier one with its address, unless
\* the address comes back early.
LEMMA NewInv ==
    ASSUME IndInv, NEW x \in Conn, NEW k \in Key, NEW w \in Worker, NEW then \in Seq(Functor),
           \A op, y : Has(then, op, y) => op = "read" /\ y = x,
           NewConnection(x, k, w, then), run = "running", crash = "none",
           UNCHANGED <<proto, uses, call, run, todo, current, mainq, closing, ups, downs, crash,
                       idle, output, writing, failed>>
    PROVE  IndInv'
  <1>0. TypeInv /\ Lines /\ Tables /\ Order /\ Cleared /\ Listed /\ Unique /\ Tracked /\ Outputs
    BY DEF IndInv
  <1> DEFINE new == [status |-> "kConnecting", key |-> k, loop |-> w]
  <1> DEFINE est == [op |-> "establish", conn |-> x]
  <1> DEFINE t == <<est>> \o then
  <1>1. /\ ~Made(x) /\ (Fresh(k) \/ "reuse" \in uses)
        /\ conns' = [conns EXCEPT ![x] = new] /\ table' = [table EXCEPT ![k] = x]
        /\ bound' = bound \cup {x}
        /\ wq' = [wq EXCEPT ![w] = @ \o <<est>> \o then]
    BY DEF NewConnection, Made
  <1>2. /\ new \in [status : Status, key : Key \cup {None}, loop : Worker \cup {None}]
        /\ new.status = "kConnecting" /\ new.key = k /\ new.loop = w
    BY DEF Status
  <1>3. est \in Functor /\ est.op = "establish" /\ est.conn = x
    BY DEF Functor
  <1> HIDE DEF new, est
  <1>4. /\ conns' \in [Conn -> [status : Status, key : Key \cup {None}, loop : Worker \cup {None}]]
        /\ conns'[x] = new /\ \A y \in Conn : y # x => conns'[y] = conns[y]
    BY <1>0, <1>1, <1>2 DEF TypeInv
  <1>5. /\ table' \in [Key -> Conn \cup {None}]
        /\ \A j \in Key : table'[j] = IF j = k THEN x ELSE table[j]
    BY <1>0, <1>1 DEF TypeInv
  <1>6. /\ \A v \in Worker : \A op : ~Has(wq[v], op, x)
        /\ ~Ends(x) /\ x \notin Held /\ x \notin todo /\ x \notin idle /\ x \notin output \cup writing
    <2>1. \A v \in Worker : \A op : ~Has(wq[v], op, x)
      BY <1>0, <1>1 DEF Lines
    <2>2. ~Ends(x)
      BY <1>0, <1>1 DEF Order, Ended, Made
    <2>3. x \notin Held
      BY <1>0, <1>1, HeldFacts
    <2>4. x \notin todo /\ x \notin idle /\ x \notin output \cup writing
      BY <1>0, <1>1 DEF Tables, Outputs
    <2> QED BY <2>1, <2>2, <2>3, <2>4
  <1>7. /\ t \in Seq(Functor)
        /\ \A op, y : Has(t, op, y) <=> (op = "establish" /\ y = x) \/ Has(then, op, y)
    <2>1. <<est>> \in Seq(Functor) /\ \A op, y : Has(<<est>>, op, y) <=> est.op = op /\ est.conn = y
      BY <1>3, HasOne
    <2>2. /\ t \in Seq(Functor)
          /\ \A op, y : Has(t, op, y) <=> Has(<<est>>, op, y) \/ Has(then, op, y)
      BY <2>1, HasConcat
    <2> HIDE DEF t
    <2> QED BY <1>3, <2>1, <2>2
  <1>8. First(t)
    <2>1. /\ Len(t) = 1 + Len(then) /\ Len(then) \in Nat
          /\ \A i \in 1..Len(t) : i # 1 => i - 1 \in 1..Len(then) /\ t[i] = then[i - 1]
      <3>1. <<est>> \in Seq(Functor) /\ Len(<<est>>) = 1
        BY <1>3, HasOne
      <3>2. /\ Len(t) = 1 + Len(then) /\ Len(then) \in Nat
            /\ \A i \in 1..1 + Len(then) : t[i] = IF i <= 1 THEN <<est>>[i] ELSE then[i - 1]
        BY <3>1, ConcatProperties
      <3> HIDE DEF t
      <3> QED BY <3>2
    <2> HIDE DEF t
    <2> SUFFICES ASSUME NEW i \in 1..Len(t), NEW j \in 1..Len(t), j < i, t[i].op = "establish"
                 PROVE  FALSE
      BY DEF First
    <2>2. i - 1 \in 1..Len(then) /\ then[i - 1].op = "establish"
      BY <2>1
    <2>3. Has(then, "establish", then[i - 1].conn)
      BY <2>2 DEF Has
    <2> QED BY <2>3
  <1>9. wq[w] \in Seq(Functor) /\ wq[w] \o <<est>> \o then = wq[w] \o t
    <2>1. wq[w] \in Seq(Functor)
      BY <1>0 DEF TypeInv
    <2>2. <<est>> \in Seq(Functor)
      BY <1>3, HasOne
    <2> DEFINE p == wq[w]
    <2> DEFINE e == <<est>>
    <2>3. p \in Seq(Functor) /\ e \in Seq(Functor)
      BY <2>1, <2>2
    <2> HIDE DEF p, e
    <2>4. (p \o e) \o then = p \o (e \o then)
      BY <2>3, ConcatAssociative
    <2> QED BY <2>1, <2>4 DEF p, e
  <1> HIDE DEF t
  <1>10. /\ wq[w] \o t \in Seq(Functor) /\ First(wq[w] \o t)
         /\ \A op, y : Has(wq[w] \o t, op, y) <=> Has(wq[w], op, y) \/ Has(t, op, y)
    <2>1. First(wq[w])
      BY <1>0 DEF Lines
    <2>2. ASSUME NEW y, NEW op, Has(t, "establish", y) PROVE ~Has(wq[w], op, y)
      <3>1. y = x
        BY <1>7, <2>2
      <3> QED BY <1>6, <3>1
    <2> QED BY <1>7, <1>8, <1>9, <2>1, <2>2, HasConcat
  <1>11. /\ wq' \in [Worker -> Seq(Functor)]
         /\ \A v \in Worker : wq'[v] = IF v = w THEN wq[w] \o t ELSE wq[v]
    BY <1>0, <1>1, <1>9, <1>10 DEF TypeInv
  <1>12. /\ \A v \in Worker : First(wq'[v])
         /\ \A v \in Worker : \A op, y : Has(wq[v], op, y) => Has(wq'[v], op, y)
         /\ \A v \in Worker : \A op, y : Has(wq'[v], op, y) => Has(wq[v], op, y) \/ (y = x /\ v = w)
    <2>1. \A v \in Worker : First(wq'[v])
      BY <1>0, <1>10, <1>11 DEF Lines
    <2>2. \A v \in Worker : \A op, y : Has(wq[v], op, y) => Has(wq'[v], op, y)
      BY <1>10, <1>11
    <2>3. \A op, y : Has(t, op, y) => y = x
      BY <1>7
    <2>4. \A v \in Worker : \A op, y : Has(wq'[v], op, y) => Has(wq[v], op, y) \/ (y = x /\ v = w)
      BY <1>10, <1>11, <2>3
    <2> QED BY <2>1, <2>2, <2>4
  <1>13. /\ \A y : Establishing(y)' => Establishing(y) \/ y = x
         /\ \A y : Ends(y)' <=> Ends(y)
         /\ \A y : Closes(y) => Closes(y)'
         /\ \A y : HasAny(y)' => HasAny(y) \/ y = x
         /\ \A y : Pins(y)' <=> Pins(y)
         /\ \A y : Queues(y)' <=> Queues(y)
         /\ \A y : y \in Held' => y \in Held \/ y = x
    <2>1. \A y : Establishing(y)' => Establishing(y) \/ y = x
      BY <1>12 DEF Establishing
    <2>2. \A y : Closes(y) => Closes(y)'
      BY <1>12 DEF Closes
    <2>3. ASSUME NEW y, HasAny(y)' PROVE HasAny(y) \/ y = x
      <3>1. PICK v \in Worker : \E op : Has(wq'[v], op, y)
        BY <2>3 DEF HasAny
      <3>2. PICK op : Has(wq'[v], op, y)
        BY <3>1
      <3>3. Has(wq[v], op, y) \/ y = x
        <4>1. \A u \in Worker : \A o, z : Has(wq'[u], o, z) => Has(wq[u], o, z) \/ (z = x /\ u = w)
          BY <1>12
        <4>2. Has(wq'[v], op, y) => Has(wq[v], op, y) \/ (y = x /\ v = w)
          BY <4>1
        <4> QED BY <3>2, <4>2
      <3> QED BY <3>3 DEF HasAny
    <2>4. \A y : Ends(y)' <=> Ends(y)
      BY DEF Ends
    <2>5. \A y : (Pins(y)' <=> Pins(y)) /\ (Queues(y)' <=> Queues(y))
      BY DEF Pins, Queues
    <2>6. \A y : y \in Held' => y \in Held \/ y = x
      BY <1>5 DEF Held
    <2> QED BY <2>1, <2>2, <2>3, <2>4, <2>5, <2>6
  <1>14. TypeInv'
    <2>1. /\ call \in [Conn -> Calls]
          /\ todo \in SUBSET Conn /\ current \in Conn \cup {None} /\ mainq \in Seq(Conn)
          /\ closing \in [Worker -> Progress \cup {None}]
      BY <1>0 DEF TypeInv
    <2>2. proto' \in {"tcp", "udp"} /\ run' \in {"new", "running", "stopping", "joining", "stopped"}
      BY <1>0 DEF TypeInv
    <2> QED BY <1>4, <1>5, <1>11, <2>1, <2>2 DEF TypeInv
  <1>15. Lines'
    <2> SUFFICES ASSUME NEW v \in Worker, NEW op, NEW y, Has(wq'[v], op, y)
                 PROVE  conns'[y].status # "none" /\ conns'[y].loop = v
      BY <1>12 DEF Lines, Made
    <2>1. CASE y = x
      <3>1. v = w
        BY <1>6, <1>12, <2>1
      <3> QED BY <1>2, <1>4, <2>1, <3>1
    <2>2. CASE y # x
      <3>1. Has(wq[v], op, y)
        BY <1>12, <2>2
      <3>2. y \in Conn /\ Made(y) /\ conns[y].loop = v
        BY <1>0, <3>1, HasConn DEF Lines
      <3> QED BY <1>4, <2>2, <3>2 DEF Made
    <2> QED BY <2>1, <2>2
  <1>16. Tables'
    <2>1. \A y \in Conn : conns'[y].status # "none" => conns'[y].key \in Key /\ conns'[y].loop \in Worker
      BY <1>0, <1>2, <1>4 DEF Tables, Made
    <2>2. ASSUME NEW j \in Key, table'[j] # None
          PROVE  conns'[table'[j]].status # "none" /\ conns'[table'[j]].key = j
      <3>1. CASE j = k
        BY <1>2, <1>4, <1>5, <3>1
      <3>2. CASE j # k
        <4>1. table'[j] = table[j] /\ table[j] \in Conn /\ Made(table[j]) /\ conns[table[j]].key = j
          BY <1>0, <1>5, <2>2, <3>2 DEF Tables, TypeInv
        <4>2. table[j] # x
          BY <1>1, <4>1
        <4> QED BY <1>4, <4>1, <4>2 DEF Made
      <3> QED BY <3>1, <3>2
    <2>3. \A y \in bound' \cup todo' \cup idle' : y \in Conn /\ conns'[y].status # "none"
      BY <1>0, <1>1, <1>2, <1>4 DEF Tables, Made
    <2>4. current' # None => current' \in todo' /\ run' = "stopping"
      BY <1>0 DEF Tables
    <2> QED BY <2>1, <2>2, <2>3, <2>4 DEF Tables, Made
  <1>17. Order'
    <2> SUFFICES ASSUME NEW y \in Conn
                 PROVE  /\ Establishing(y)' =>
                              /\ conns'[y].status \in {"kConnecting", "kDisconnected"} /\ y \notin idle
                              /\ run \in {"new", "running"} => conns'[y].status = "kConnecting"
                        /\ Ends(y)' => conns'[y].status \in Ended /\ ~Establishing(y)' /\ y \in downs
                        /\ proto = "tcp" /\ conns'[y].status = "kDisconnected" => y \in downs
                        /\ call[y] # "none" => conns'[y].status # "none" /\ ~Establishing(y)'
      BY DEF Order, Made
    <2>1. CASE y = x
      BY <1>0, <1>1, <1>2, <1>4, <1>6, <1>13, <2>1 DEF Order
    <2>2. CASE y # x
      BY <1>0, <1>4, <1>13, <2>2 DEF Order, Made
    <2> QED BY <2>1, <2>2
  <1>18. Cleared'
    BY DEF Cleared
  <1>19. ASSUME "reuse" \notin uses, NEW y \in Conn, Made(y), conns[y].key = k, Owned(y) PROVE FALSE
    BY <1>1, <1>19 DEF Fresh, Dead, Made
  <1>20. ASSUME "reuse" \notin uses, NEW y \in Conn, Made(y), table[conns[y].key] = y, conns[y].key \in Key
         PROVE  table'[conns[y].key] = y
    <2>1. y \in Held
      BY <1>20, ServerAssumption DEF Held
    <2>2. conns[y].key # k
      BY <1>0, <1>19, <1>20, <2>1, OwnedBy
    <2> QED BY <1>5, <1>20, <2>2
  <1>21. Listed'
    <2> SUFFICES ASSUME "reuse" \notin uses, NEW y \in Conn,
                        Lasts(y)'
                 PROVE  table'[conns'[y].key] = y
      BY DEF Listed
    <2>1. CASE y = x
      BY <1>2, <1>4, <1>5, <2>1
    <2>2. CASE y # x
      <3>1. Made(y) /\ table[conns[y].key] = y /\ conns[y].key \in Key /\ conns'[y].key = conns[y].key
        BY <1>0, <1>4, <2>2 DEF Listed, Lasts, Tables, Made
      <3> QED BY <1>20, <3>1
    <2> QED BY <2>1, <2>2
  <1>22. ASSUME NEW y \in Conn, y # x, Owned(y)' PROVE Owned(y)
    BY <1>0, <1>13, <1>14, <1>22, OwnedBy, OwnedByNext
  <1>23. Unique'
    <2> SUFFICES ASSUME "reuse" \notin uses, NEW y \in Conn, NEW z \in Conn, y # z,
                        conns'[y].status # "none", conns'[z].status # "none",
                        conns'[y].key = conns'[z].key, Owned(y)', Owned(z)'
                 PROVE  FALSE
      BY DEF Unique, Made
    <2>1. ASSUME NEW u \in Conn, NEW v \in Conn, u = x, v # x, conns'[v].status # "none",
                 conns'[u].key = conns'[v].key, Owned(v)'
          PROVE  FALSE
      <3>1. Owned(v) /\ Made(v) /\ conns[v].key = k
        BY <1>2, <1>4, <1>22, <2>1 DEF Made
      <3> QED BY <1>19, <3>1
    <2>2. CASE y # x /\ z # x
      <3>1. Owned(y) /\ Owned(z) /\ Made(y) /\ Made(z) /\ conns[y].key = conns[z].key
        BY <1>4, <1>22, <2>2 DEF Made
      <3> QED BY <1>0, <3>1 DEF Unique
    <2> QED BY <2>1, <2>2
  <1>24. Tracked'
    <2> SUFFICES ASSUME "reuse" \notin uses, proto = "udp", NEW y \in Conn, y \in ups \/ Establishing(y)'
                 PROVE  y \in downs \/ Closes(y)' \/ y \in Held'
      BY DEF Tracked
    <2>1. CASE y = x
      <3>1. x # None /\ table'[k] = x
        BY <1>5, ServerAssumption
      <3> QED BY <2>1, <3>1 DEF Held
    <2>2. CASE y # x
      <3>1. y \in downs \/ Closes(y) \/ y \in Held
        BY <1>0, <1>13, <2>2 DEF Tracked
      <3>2. ASSUME y \in Held PROVE y \in Held'
        <4>1. Made(y) /\ table[conns[y].key] = y /\ conns[y].key \in Key /\ y # None
          BY <1>0, <3>2, HeldFacts
        <4>2. table'[conns[y].key] = y
          BY <1>20, <4>1
        <4> QED BY <4>1, <4>2 DEF Held
      <3> QED BY <1>13, <3>1, <3>2
    <2> QED BY <2>1, <2>2
  <1>25. Outputs'
    BY <1>0, <1>1, <1>4, <1>6 DEF Outputs, Made
  <1> QED BY <1>14, <1>15, <1>16, <1>17, <1>18, <1>21, <1>23, <1>24, <1>25 DEF IndInv

\* accept(), or a datagram from a new address.
LEMMA BeginsInv ==
    ASSUME IndInv, NEW x \in Conn, NEW k \in Key, NEW w \in Worker,
           (Accept(x, k, w) /\ UNCHANGED udpvars) \/ RecvNew(x, k, w)
    PROVE  IndInv'
  <1> USE DEF mainvars, udpvars
  <1>1. CASE Accept(x, k, w) /\ UNCHANGED udpvars
    <2>1. <<>> \in Seq(Functor) /\ \A op, y : ~Has(<<>>, op, y)
      BY DEF Has
    <2>2. /\ NewConnection(x, k, w, <<>>) /\ run = "running" /\ crash = "none"
          /\ UNCHANGED <<proto, uses, call, run, todo, current, mainq, closing, ups, downs, crash,
                         idle, output, writing, failed>>
      BY <1>1 DEF Accept, Accepts, Listening, Ok
    <2> QED BY <2>1, <2>2, NewInv
  <1>2. CASE RecvNew(x, k, w)
    <2> DEFINE f == [op |-> "read", conn |-> x]
    <2>1. f \in Functor /\ f.op = "read" /\ f.conn = x
      BY DEF Functor
    <2>2. /\ NewConnection(x, k, w, <<f>>) /\ run = "running" /\ crash = "none"
          /\ UNCHANGED <<proto, uses, call, run, todo, current, mainq, closing, ups, downs, crash,
                         idle, output, writing, failed>>
      BY <1>2 DEF RecvNew, Arrives, Receiving, Ok
    <2> HIDE DEF f
    <2>3. <<f>> \in Seq(Functor) /\ \A op, y : Has(<<f>>, op, y) => op = "read" /\ y = x
      BY <2>1, HasOne
    <2> QED BY <2>2, <2>3, NewInv
  <1> QED BY <1>1, <1>2

-----------------------------------------------------------------------------
(* Threads of the application *)

\* A step of close() or shutdown() on another thread.
AppSteps(x) ==
    \/ \E which \in {"close", "shutdown"} : AppChecks(x, which)
    \/ AppChanges(x) \/ AppQueues(x) \/ AppQueuesLate(x)

\* What it does: one connection that has been established changes its status, or
\* gets a functor that is not its first.
LEMMA AppFacts ==
    ASSUME IndInv, NEW x \in Conn, AppSteps(x)
    PROVE  /\ Made(x) /\ ~Establishing(x) /\ Owned(x)
           /\ call' \in [Conn -> Calls] /\ \A y \in Conn : y # x => call'[y] = call[y]
           /\ \/ call'[x] = call[x]
              \/ call[x] = "none"
              \/ call[x] \in {"close", "shutdown"} /\ call'[x] # "none"
                    /\ (call[x] = "close" => call'[x] = "closing")
              \/ call[x] \in {"closing", "shutting"} /\ AppQueues(x)
           /\ conns' \in [Conn -> [status : Status, key : Key \cup {None}, loop : Worker \cup {None}]]
           /\ SameIds
           /\ \A y \in Conn : y # x => conns'[y] = conns[y]
           /\ \/ conns'[x].status = conns[x].status
              \/ /\ call[x] \in {"close", "shutdown"} /\ (call[x] = "close" => call'[x] = "closing")
                 /\ \/ proto = "tcp" /\ conns'[x].status = "kDisconnecting"
                    \/ proto = "udp" /\ conns'[x].status = "kDisconnected"
           /\ wq' \in [Worker -> Seq(Functor)]
           /\ \A v \in Worker : First(wq'[v])
           /\ \A v \in Worker : \A op, y : Has(wq[v], op, y) => Has(wq'[v], op, y)
           /\ \A v \in Worker : \A op, y :
                 Has(wq'[v], op, y) => \/ Has(wq[v], op, y)
                                       \/ /\ y = x /\ conns[x].loop = v
                                          /\ \/ op = "close" /\ call[x] = "closing"
                                             \/ op = "shutdown" /\ call[x] = "shutting"
           /\ run = "stopped" => wq' = wq
           /\ AppQueues(x) /\ call[x] = "closing" => Has(wq'[conns[x].loop], "close", x)
  <1>0. TypeInv /\ Lines /\ Tables /\ Order
    BY DEF IndInv
  <1>2. Made(x) /\ ~Establishing(x) /\ Owned(x)
    <2>1. CASE \E which \in {"close", "shutdown"} : AppChecks(x, which)
      BY <1>0, <2>1 DEF AppChecks, Order, Made
    <2>2. CASE AppChanges(x) \/ AppQueues(x) \/ AppQueuesLate(x)
      <3>1. call[x] # "none"
        BY <2>2 DEF AppChanges, AppQueues, AppQueuesLate
      <3> QED BY <1>0, <3>1 DEF Order, Owned
    <2> QED BY <2>1, <2>2 DEF AppSteps
  <1>3. /\ call' \in [Conn -> Calls] /\ \A y \in Conn : y # x => call'[y] = call[y]
        /\ \/ call'[x] = call[x]
           \/ call[x] = "none"
           \/ call[x] \in {"close", "shutdown"} /\ call'[x] # "none"
                 /\ (call[x] = "close" => call'[x] = "closing")
           \/ call[x] \in {"closing", "shutting"} /\ AppQueues(x)
        /\ AppChanges(x) => call[x] \in {"close", "shutdown"} /\ (call[x] = "close" => call'[x] = "closing")
    <2>1. call \in [Conn -> Calls]
      BY <1>0 DEF TypeInv
    <2>2. CASE \E which \in {"close", "shutdown"} : AppChecks(x, which)
      BY <2>1, <2>2 DEF AppChecks, AppChanges, Calls
    <2>3. CASE AppChanges(x)
      BY <2>1, <2>3 DEF AppChanges, Calls
    <2>4. CASE AppQueues(x)
      BY <2>1, <2>4 DEF AppQueues, AppChanges, Calls
    <2>5. CASE AppQueuesLate(x)
      BY <2>1, <2>5 DEF AppQueuesLate, AppChanges, Calls
    <2> QED BY <2>2, <2>3, <2>4, <2>5 DEF AppSteps
  <1>4. /\ conns' \in [Conn -> [status : Status, key : Key \cup {None}, loop : Worker \cup {None}]]
        /\ SameIds
        /\ \A y \in Conn : y # x => conns'[y] = conns[y]
        /\ \/ conns'[x].status = conns[x].status
           \/ /\ AppChanges(x)
              /\ \/ proto = "tcp" /\ conns'[x].status = "kDisconnecting"
                 \/ proto = "udp" /\ conns'[x].status = "kDisconnected"
    <2>1. CASE AppChanges(x)
      <3> DEFINE st == IF proto = "udp" THEN "kDisconnected" ELSE "kDisconnecting"
      <3>1. conns' = [conns EXCEPT ![x].status = st]
        BY <2>1 DEF AppChanges
      <3>2. st \in Status \ {"none"}
        BY DEF Status
      <3>3. (proto = "tcp" /\ st = "kDisconnecting") \/ (proto = "udp" /\ st = "kDisconnected")
        BY <1>0 DEF TypeInv
      <3> HIDE DEF st
      <3> QED BY <1>0, <1>2, <2>1, <3>1, <3>2, <3>3, StatusSet
    <2>2. CASE conns' = conns
      BY <1>0, <2>2 DEF TypeInv, SameIds
    <2> QED BY <2>1, <2>2 DEF AppSteps, AppChecks, AppQueues, AppQueuesLate
  <1>5. /\ wq' \in [Worker -> Seq(Functor)]
        /\ \A v \in Worker : First(wq'[v])
        /\ \A v \in Worker : \A op, y : Has(wq[v], op, y) => Has(wq'[v], op, y)
        /\ \A v \in Worker : \A op, y :
              Has(wq'[v], op, y) => \/ Has(wq[v], op, y)
                                    \/ /\ y = x /\ conns[x].loop = v
                                       /\ \/ op = "close" /\ call[x] = "closing"
                                          \/ op = "shutdown" /\ call[x] = "shutting"
        /\ run = "stopped" => wq' = wq
        /\ AppQueues(x) /\ call[x] = "closing" => Has(wq'[conns[x].loop], "close", x)
    <2>1. CASE AppQueues(x) /\ call[x] = "closing"
      <3>1. Post(conns[x].loop, "close", x) /\ conns[x].loop \in Worker /\ run # "stopped"
        BY <1>0, <1>2, <2>1 DEF AppQueues, Tables
      <3>2. /\ wq' \in [Worker -> Seq(Functor)]
            /\ \A v \in Worker : First(wq'[v])
            /\ \A v \in Worker : \A op, y :
                  Has(wq'[v], op, y) <=> Has(wq[v], op, y) \/ (v = conns[x].loop /\ op = "close" /\ y = x)
        BY <1>0, <3>1, Posted
      <3> QED BY <2>1, <3>1, <3>2
    <2>2. CASE AppQueues(x) /\ call[x] = "shutting"
      <3>1. Post(conns[x].loop, "shutdown", x) /\ conns[x].loop \in Worker /\ run # "stopped"
        BY <1>0, <1>2, <2>2 DEF AppQueues, Tables
      <3>2. /\ wq' \in [Worker -> Seq(Functor)]
            /\ \A v \in Worker : First(wq'[v])
            /\ \A v \in Worker : \A op, y :
                  Has(wq'[v], op, y) <=> Has(wq[v], op, y) \/ (v = conns[x].loop /\ op = "shutdown" /\ y = x)
        BY <1>0, <3>1, Posted
      <3> QED BY <2>2, <3>1, <3>2
    <2>3. CASE wq' = wq /\ ~AppQueues(x)
      BY <1>0, <2>3 DEF TypeInv, Lines
    <2> QED BY <2>1, <2>2, <2>3 DEF AppSteps, AppChecks, AppChanges, AppQueues, AppQueuesLate
  <1> QED BY <1>2, <1>3, <1>4, <1>5

\* No step of theirs breaks the invariant.
LEMMA AppInv ==
    ASSUME IndInv, NEW x \in Conn, UNCHANGED udpvars, AppSteps(x)
    PROVE  IndInv'
  <1> USE DEF mainvars, udpvars
  <1>0. TypeInv /\ Lines /\ Tables /\ Order /\ Cleared /\ Listed /\ Unique /\ Tracked /\ Outputs
    BY DEF IndInv
  <1>1. /\ UNCHANGED <<proto, uses, run, todo, current, table, bound, mainq, closing, ups, downs,
                       idle, output, writing, failed>>
        /\ crash = "none"
    BY DEF AppSteps, AppChecks, AppChanges, AppQueues, AppQueuesLate, Ok
  <1>2. Made(x) /\ ~Establishing(x) /\ Owned(x)
    BY AppFacts
  <1>3. call' \in [Conn -> Calls] /\ \A y \in Conn : y # x => call'[y] = call[y]
    BY AppFacts
  <1>4. /\ conns' \in [Conn -> [status : Status, key : Key \cup {None}, loop : Worker \cup {None}]]
        /\ SameIds
        /\ \A y \in Conn : y # x => conns'[y] = conns[y]
        /\ \/ conns'[x].status = conns[x].status
           \/ proto = "tcp" /\ conns'[x].status = "kDisconnecting"
           \/ proto = "udp" /\ conns'[x].status = "kDisconnected"
    BY AppFacts
  <1>5. /\ wq' \in [Worker -> Seq(Functor)]
        /\ \A v \in Worker : First(wq'[v])
        /\ \A v \in Worker : \A op, y : Has(wq[v], op, y) => Has(wq'[v], op, y)
        /\ \A v \in Worker : \A op, y :
              Has(wq'[v], op, y) => \/ Has(wq[v], op, y)
                                    \/ op # "establish" /\ y = x /\ conns[x].loop = v
        /\ run = "stopped" => wq' = wq
    <2>1. \A v \in Worker : \A op, y :
             Has(wq'[v], op, y) => \/ Has(wq[v], op, y)
                                   \/ /\ y = x /\ conns[x].loop = v
                                      /\ \/ op = "close" /\ call[x] = "closing"
                                         \/ op = "shutdown" /\ call[x] = "shutting"
      BY AppFacts
    <2>2. \A v \in Worker : \A op, y :
             Has(wq'[v], op, y) => Has(wq[v], op, y) \/ (op # "establish" /\ y = x /\ conns[x].loop = v)
      BY <2>1
    <2>3. /\ wq' \in [Worker -> Seq(Functor)]
          /\ \A v \in Worker : First(wq'[v])
          /\ \A v \in Worker : \A op, y : Has(wq[v], op, y) => Has(wq'[v], op, y)
          /\ run = "stopped" => wq' = wq
      BY AppFacts
    <2> QED BY <2>2, <2>3
  <1>6. TypeInv'
    BY <1>0, <1>1, <1>3, <1>4, <1>5 DEF TypeInv
  <1>7. /\ \A y : Establishing(y)' => Establishing(y)
        /\ \A y : Ends(y)' <=> Ends(y)
        /\ \A y : Closes(y) => Closes(y)'
        /\ \A y : HasAny(y)' => HasAny(y) \/ y = x
        /\ \A y : Pins(y)' <=> Pins(y)
        /\ \A y : Queues(y)' <=> Queues(y)
    <2>1. \A y : Establishing(y)' => Establishing(y)
      BY <1>5 DEF Establishing
    <2>2. \A y : Closes(y) => Closes(y)'
      BY <1>5 DEF Closes
    <2>3. \A y : HasAny(y)' => HasAny(y) \/ y = x
      BY <1>5 DEF HasAny
    <2>4. \A y : Ends(y)' <=> Ends(y)
      BY <1>1 DEF Ends
    <2>5. \A y : (Pins(y)' <=> Pins(y)) /\ (Queues(y)' <=> Queues(y))
      BY <1>1 DEF Pins, Queues
    <2> QED BY <2>1, <2>2, <2>3, <2>4, <2>5
  <1>8. Lines'
    <2>1. \A v \in Worker : \A op, y :
             Has(wq'[v], op, y) => Has(wq[v], op, y) \/ (y \in Conn /\ Made(y) /\ conns[y].loop = v)
      BY <1>2, <1>5
    <2> QED BY <1>0, <1>4, <1>5, <1>6, <2>1, SameLines
  <1>9. Tables'
    <2>1. current' # None => current' \in todo' /\ run' = "stopping"
      BY <1>0, <1>1 DEF Tables
    <2> QED BY <1>0, <1>1, <1>4, <1>6, <2>1, SameTables
  <1>10. Order'
    <2> SUFFICES ASSUME NEW y \in Conn
                 PROVE  /\ Establishing(y)' =>
                              /\ conns'[y].status \in {"kConnecting", "kDisconnected"} /\ y \notin idle'
                              /\ run' \in {"new", "running"} => conns'[y].status = "kConnecting"
                        /\ Ends(y)' => conns'[y].status \in Ended /\ ~Establishing(y)' /\ y \in downs'
                        /\ proto' = "tcp" /\ conns'[y].status = "kDisconnected" => y \in downs'
                        /\ call'[y] # "none" => conns'[y].status # "none" /\ ~Establishing(y)'
      BY DEF Order, Made
    <2>1. CASE y = x
      <3>1. conns'[x].status # "none"
        BY <1>2, <1>4 DEF SameIds, Made
      <3> QED BY <1>0, <1>1, <1>2, <1>4, <1>7, <2>1, <3>1 DEF Order, Ended
    <2>2. CASE y # x
      BY <1>0, <1>1, <1>3, <1>4, <1>7, <2>2 DEF Order, Made
    <2> QED BY <2>1, <2>2
  <1>11. Cleared'
    BY <1>0, <1>1, <1>5 DEF Cleared
  <1>12. Listed'
    <2>1. ASSUME NEW y \in Conn, Lasts(y)' PROVE Lasts(y)
      <3>1. CASE y = x
        <4>1. conns[x].status \in Status /\ conns[x].status # "none"
          BY <1>0, <1>2 DEF TypeInv, Made
        <4>2. proto = "tcp" /\ conns[x].status = "kDisconnected" => x \in downs
          BY <1>0 DEF Order
        <4> QED BY <1>1, <1>4, <2>1, <3>1, <4>1, <4>2 DEF Lasts, Status
      <3>2. CASE y # x
        BY <1>1, <1>4, <2>1, <3>2 DEF Lasts
      <3> QED BY <3>1, <3>2
    <2> QED BY <1>0, <1>1, <1>4, <2>1 DEF Listed, SameIds
  <1>13. \A y : y \in Held' <=> y \in Held
    BY <1>1 DEF Held
  <1>14. Unique'
    <2>1. ASSUME NEW y \in Conn, Owned(y)' PROVE Owned(y)
      <3>1. CASE y = x
        BY <1>2, <3>1
      <3>2. CASE y # x
        BY <1>0, <1>1, <1>3, <1>6, <1>7, <1>13, <2>1, <3>2, OwnedBy, OwnedByNext
      <3> QED BY <3>1, <3>2
    <2> QED BY <1>0, <1>1, <1>4, <2>1, SameUnique
  <1>15. Tracked'
    BY <1>0, <1>1, <1>7, <1>13 DEF Tracked
  <1>16. Outputs'
    BY <1>0, <1>1, <1>4 DEF Outputs, Made, SameIds
  <1> QED BY <1>6, <1>8, <1>9, <1>10, <1>11, <1>12, <1>14, <1>15, <1>16 DEF IndInv

-----------------------------------------------------------------------------
(* The servers *)

\* Nothing is there in the beginning.
LEMMA InitInv ==
    ASSUME MCInit
    PROVE  IndInv
  <1>1. /\ proto \in {"tcp", "udp"} /\ call = [x \in Conn |-> "none"]
        /\ run = "new" /\ todo = {} /\ current = None /\ bound = {} /\ mainq = <<>>
        /\ table = [k \in Key |-> None]
        /\ conns = [x \in Conn |-> [status |-> "none", key |-> None, loop |-> None]]
        /\ wq = [w \in Worker |-> <<>>] /\ closing = [w \in Worker |-> None]
        /\ ups = {} /\ downs = {} /\ idle = {} /\ output = {} /\ writing = {}
    BY DEF MCInit, TcpInit, ServerInit, UdpInit
  <1>2. /\ \A x \in Conn : call[x] = "none" /\ ~Made(x) /\ conns[x].status = "none"
        /\ \A k \in Key : table[k] = None
        /\ \A w \in Worker : wq[w] = <<>> /\ closing[w] = None
        /\ \A w \in Worker : \A op, x : ~Has(wq[w], op, x)
    BY <1>1 DEF Made, Has
  <1>3. TypeInv
    <2>1. <<>> \in Seq(Functor) /\ <<>> \in Seq(Conn)
      OBVIOUS
    <2>2. [status |-> "none", key |-> None, loop |-> None] \in
              [status : Status, key : Key \cup {None}, loop : Worker \cup {None}]
      BY DEF Status
    <2> QED BY <1>1, <2>1, <2>2 DEF TypeInv, Calls
  <1>4. Lines
    BY <1>2 DEF Lines, First
  <1>5. Tables
    BY <1>1, <1>2 DEF Tables
  <1>6. \A x : ~Establishing(x) /\ ~Ends(x)
    BY <1>1, <1>2 DEF Establishing, Ends
  <1>7. Order
    BY <1>2, <1>6 DEF Order
  <1>8. Cleared /\ Listed /\ Unique
    BY <1>1, <1>2 DEF Cleared, Listed, Lasts, Unique
  <1>9. Tracked /\ Outputs
    BY <1>1, <1>6 DEF Tracked, Outputs
  <1> QED BY <1>3, <1>4, <1>5, <1>7, <1>8, <1>9 DEF IndInv

\* No step breaks the invariant.
LEMMA NextInv ==
    ASSUME IndInv, [MCNext]_allvars
    PROVE  IndInv'
  <1>1. CASE ServerNext /\ UNCHANGED udpvars
    <2>1. CASE ServerStart \/ StartFails \/ StopBegins \/ StopClears \/ StopJoins
               \/ \E x \in Conn : StopUnbinds(x)
      BY <1>1, <2>1, QuietlyInv DEF Quietly
    <2>2. CASE RemoveConnection
      BY <1>1, <2>2, RemoveInv
    <2>3. CASE StopCloses
      BY <1>1, <2>3, StopClosesInv
    <2>4. ASSUME NEW w \in Worker, Establish(w) PROVE IndInv'
      BY <1>1, <2>4, EstablishInv
    <2>5. ASSUME NEW w \in Worker, RunClose(w) PROVE IndInv'
      <3>1. PICK x \in Conn : TRUE
        <4>1. TypeInv /\ wq[w] # <<>>
          BY <2>5 DEF IndInv, RunClose, Due
        <4>2. Head(wq[w]) \in Functor
          BY <4>1 DEF TypeInv
        <4> QED BY <4>2 DEF Functor
      <3> QED BY <1>1, <2>5, <3>1, EndsInv
    <2>6. ASSUME NEW w \in Worker, TestCallback(w) \/ CallCallback(w) \/ HandlerReturns(w)
          PROVE  IndInv'
      BY <1>1, <2>6, CallbackInv
    <2>7. ASSUME NEW w \in Worker, RunShutdown(w) PROVE IndInv'
      BY <1>1, <2>7, ShutdownInv
    <2>8. ASSUME NEW x \in Conn,
                 AppSteps(x)
          PROVE  IndInv'
      BY <1>1, <2>8, AppInv
    <2> QED BY <1>1, <2>1, <2>2, <2>3, <2>4, <2>5, <2>6, <2>7, <2>8 DEF ServerNext, AppSteps
  <1>2. CASE TcpNext /\ UNCHANGED udpvars
    <2>1. ASSUME NEW x \in Conn, NEW k \in Key, NEW w \in Worker, Accept(x, k, w) PROVE IndInv'
      BY <1>2, <2>1, BeginsInv
    <2>2. CASE AcceptFails
      BY <1>2, <2>2, QuietlyInv DEF Quietly
    <2>3. ASSUME NEW x \in Conn, NEW w \in Worker, TcpEnds(w, x) PROVE IndInv'
      BY <1>2, <2>3, EndsInv
    <2> QED BY <1>1, <1>2, <2>1, <2>2, <2>3 DEF TcpNext
  <1>3. CASE proto = "udp" /\ UdpNext
    <2>1. ASSUME NEW x \in Conn, NEW k \in Key, NEW w \in Worker, RecvNew(x, k, w) PROVE IndInv'
      BY <2>1, BeginsInv
    <2>2. ASSUME NEW k \in Key, RecvKnown(k) PROVE IndInv'
      BY <2>2, RecvKnownInv
    <2>3. CASE \E x \in Conn : TimePasses(x)
      BY <2>3, QuietlyInv
    <2>4. CASE CheckExpired
      BY <1>3, <2>4, CheckExpiredInv
    <2>5. ASSUME NEW w \in Worker, NEW x \in Conn,
                 HandleRead(w, x) \/ \E sent \in BOOLEAN : HandleReadSends(w, x, sent)
          PROVE  IndInv'
      BY <2>5, ReadInv
    <2>6. ASSUME NEW w \in Worker, NEW x \in Conn, HandleReadCloses(w, x) PROVE IndInv'
      BY <2>6, EndsInv
    <2> QED BY <1>1, <1>3, <2>1, <2>2, <2>3, <2>4, <2>5, <2>6 DEF UdpNext
  <1>4. CASE UNCHANGED allvars
    <2>1. UNCHANGED <<proto, uses, call, run, todo, current, table, conns, bound, mainq, wq, closing,
                      ups, downs, crash, idle, output, writing, failed>>
      BY <1>4 DEF allvars, servervars, udpvars
    <2>2. TypeInv /\ Lines /\ Tables /\ Order /\ Cleared /\ Listed /\ Unique /\ Tracked /\ Outputs
      BY DEF IndInv
    <2>3. TypeInv' /\ SameIds
      BY <2>1, <2>2 DEF TypeInv, SameIds
    <2>4. \A x : /\ Establishing(x)' <=> Establishing(x)
                 /\ Ends(x)' <=> Ends(x)
                 /\ Closes(x)' <=> Closes(x)
                 /\ x \in Held' <=> x \in Held
      BY <2>1 DEF Establishing, Ends, Closes, Held
    <2>5. \A x : Owned(x)' <=> Owned(x)
      BY <2>1, <2>4 DEF Owned
    <2>6. Lines' /\ Tables' /\ Cleared' /\ Listed' /\ Outputs'
      BY <2>1, <2>2 DEF Lines, Tables, Cleared, Listed, Lasts, Outputs, Made
    <2>7. Order' /\ Tracked'
      BY <2>1, <2>2, <2>4 DEF Order, Tracked, Made
    <2>8. Unique'
      BY <2>1, <2>2, <2>5 DEF Unique, Made
    <2> QED BY <2>3, <2>6, <2>7, <2>8 DEF IndInv
  <1> QED BY <1>2, <1>3, <1>4 DEF MCNext

\* The invariant holds of both servers.
LEMMA Invariance == MCSpec => []IndInv
  <1>1. MCInit => IndInv
    BY InitInv
  <1>2. IndInv /\ [MCNext]_allvars => IndInv'
    BY NextInv
  <1> QED BY <1>1, <1>2, PTL DEF MCSpec

\* While the server runs, the table has every connection that the application was
\* told of, and not of its end: the removal that onClosedInConnection queued on
\* another loop never erases the entry of a later connection, as long as no address
\* comes back before its last connection is removed.
THEOREM TableIsComplete == MCSpec => []NoOrphan
  <1>1. IndInv => NoOrphan
    BY DEF IndInv, Listed, Lasts, NoOrphan
  <1> QED BY <1>1, Invariance, PTL

\* When TcpServer::stop or UdpServer::stop is through, no connection is left, and
\* the end of each connection whose beginning was notified was notified, however
\* stop() met with connections that begin, end or get datagrams.
THEOREM StopIsThrough == MCSpec => []StopIsComplete
  <1>1. ASSUME IndInv PROVE StopIsComplete
    <2> SUFFICES ASSUME run = "stopped", mainq = <<>>, Ok, "reuse" \notin uses, NEW x \in Conn,
                        conns[x].status # "none", call[x] = "none"
                 PROVE  Dead(x) /\ (x \in ups => x \in downs)
      BY DEF StopIsComplete
    <2>0. TypeInv /\ Order /\ Cleared /\ Tracked
      BY <1>1 DEF IndInv
    <2>1. /\ todo = {} /\ \A k \in Key : table[k] = None
          /\ \A w \in Worker : wq[w] = <<>> /\ closing[w] = None
      BY <2>0 DEF Cleared
    <2>2. x \notin Held /\ ~Queues(x) /\ ~HasAny(x) /\ ~Pins(x) /\ ~Closes(x)
      BY <2>1 DEF Held, Queues, HasAny, Pins, Closes, Has
    <2>3. Dead(x)
      BY <2>0, <2>1, <2>2, OwnedBy DEF Dead
    <2>4. CASE proto = "tcp"
      <3>1. conns[x].status = "kDisconnected"
        BY <2>3, <2>4 DEF Ok, BadDeath
      <3> QED BY <2>0, <2>3, <2>4, <3>1 DEF Order
    <2>5. CASE proto = "udp"
      BY <2>0, <2>1, <2>2, <2>3, <2>5 DEF Tracked, Establishing, Has
    <2>6. proto \in {"tcp", "udp"}
      BY <2>0 DEF TypeInv
    <2> QED BY <2>3, <2>4, <2>5, <2>6
  <1> QED BY <1>1, Invariance, PTL

\* UdpConnection holds output back only when a sendto() failed or the connection
\* was unbound: handleWriteInLoop sends the whole buffer otherwise.
THEOREM OutputLeaves == MCSpec => []UdpOutputLeaves
  <1>1. IndInv => UdpOutputLeaves
    BY DEF IndInv, Outputs, UdpOutputLeaves
  <1> QED BY <1>1, Invariance, PTL

-----------------------------------------------------------------------------
(* Why the program ends: a second invariant, on top of the first *)

\* The server is not being stopped.
Begun == run \in {"new", "running"}

\* Nothing is there before start(), and nothing to be stopped before stop().
Beginnings ==
    /\ Begun => todo = {}
    /\ run = "new" => (\A w \in Worker : wq[w] = <<>>) /\ \A x \in Conn : ~Made(x)

\* When stop() was called in a quiet moment, the loops only close, and only
\* connections that have lost their callbacks, unless the application closes some.
Emptied ==
    ~Hurried /\ ~Begun =>
        /\ \A w \in Worker : \A op, x : Has(wq[w], op, x) =>
              /\ op \in {"close", "shutdown"}
              /\ op = "close" => x \notin bound \/ "closeUser" \in uses
        /\ \A w \in Worker : closing[w] # None =>
              closing[w].conn \notin bound \/ "closeUser" \in uses \/ run = "joining"
        /\ current \notin bound

\* Someone has closed the connection, or shutdown() has given it another status.
ToClose(x) == Closes(x) \/ call[x] = "closing" \/ "shutdownUser" \in uses

\* Whoever is to change the status of a TCP connection next.
Statuses ==
    proto = "tcp" =>
        /\ idle = {}
        /\ \A x \in Conn :
              /\ conns[x].status = "kConnecting" => Establishing(x)
              /\ conns[x].status = "kDisconnecting" => ToClose(x)
              /\ conns[x].status = "kConnected" /\ ~Hurried
                    => Begun \/ (run = "stopping" /\ x \in todo)

\* closeInLoop is on the connection's loop; for UDP always in a functor.
Places ==
    \A w \in Worker : closing[w] # None =>
        /\ conns[closing[w].conn].loop = w
        /\ ~closing[w].pinned => proto = "tcp"

\* A connection is closed once while it has its callbacks.
ClosedOnce ==
    uses \cap {"hurry", "again", "closeUser"} = {} =>
        /\ \A w \in Worker : closing[w] # None =>
              /\ closing[w].step = "call" => closing[w].conn \in bound
              /\ Queues(closing[w].conn) => closing[w].conn \notin bound \/ closing[w].step = "return"
        /\ \A x \in bound : Closes(x) =>
              /\ ~Ends(x) /\ ~Establishing(x) /\ conns[x].status = "kDisconnected" /\ proto = "udp"
              /\ \A w \in Worker : Once(wq[w], x)
        /\ \A x \in idle : Begun /\ x \in Held => ~Ends(x) /\ ~Closes(x)

\* Nothing that takes a connection away from its handler.
Sound == uses \cap {"hurry", "reuse", "overtake", "shutdownUser"} = {}

\* A connection that is closed, or about to be.
Claimed(w, x) == Has(wq[w], "close", x) \/ call[x] # "none"

\* A handler that closed its connection has an owner to return to.
HandlerSafe(w) ==
    closing[w] # None /\ ~closing[w].pinned =>
        \/ Begun /\ table[conns[closing[w].conn].key] = closing[w].conn
        \/ run = "joining" /\ Claimed(w, closing[w].conn)

Handled == Sound => \A w \in Worker : HandlerSafe(w)

\* The application's threads do what it does in this behaviour.
Callers ==
    /\ \A x \in Conn : /\ call[x] \in {"close", "closing"} => "closeUser" \in uses
                       /\ call[x] \in {"shutdown", "shutting"} => "shutdownUser" \in uses
    /\ \A w \in Worker : \A x : Has(wq[w], "shutdown", x) => "shutdownUser" \in uses

\* What has ended the program so far.
Reasons ==
    /\ crash \in {"none", "abort", "dead", "bad_function_call", "descriptor", "loop"}
    /\ crash = "abort" => "limit" \in uses \/ "shutdownUser" \in uses
    /\ crash = "loop" => "closeUser" \in uses \/ "shutdownUser" \in uses
    /\ crash = "descriptor" => Hurried
    /\ crash = "bad_function_call" => uses \cap {"hurry", "again", "closeUser"} # {}
    /\ crash = "dead" => ~Sound

OneUse == \A u, v \in uses : u = v

Causes ==
    Beginnings /\ Emptied /\ Statuses /\ Places /\ ClosedOnce /\ Handled /\ Callers

-----------------------------------------------------------------------------

\* The connections that are in closeInLoop.
LEMMA Working ==
    ASSUME IndInv, NEW w \in Worker, closing[w] # None
    PROVE  /\ closing[w] \in Progress /\ closing[w].conn \in Conn
           /\ Ends(closing[w].conn) /\ conns[closing[w].conn].status \in Ended
           /\ Made(closing[w].conn) /\ ~Establishing(closing[w].conn)
  <1>1. closing[w] \in Progress /\ closing[w].conn \in Conn
    BY DEF IndInv, TypeInv, Progress
  <1>2. Ends(closing[w].conn)
    BY DEF Ends
  <1> QED BY <1>1, <1>2 DEF IndInv, Order, Made, Ended

\* A connection's functors that close it, when one is executed ...
LEMMA OncePopped ==
    ASSUME TypeInv, NEW w \in Worker, wq[w] # <<>>, wq' = [wq EXCEPT ![w] = Tail(@)], NEW x
    PROVE  /\ \A v \in Worker : Once(wq[v], x) => Once(wq'[v], x)
           /\ Once(wq[w], x) /\ Head(wq[w]).op = "close" /\ Head(wq[w]).conn = x
                 => ~Has(wq'[w], "close", x)
  <1> DEFINE q == wq[w]
  <1>1. q \in Seq(Functor) /\ \A v \in Worker : wq'[v] = IF v = w THEN Tail(q) ELSE wq[v]
    BY DEF TypeInv
  <1>2. q # <<>>
    OBVIOUS
  <1> HIDE DEF q
  <1>3. /\ Len(q) \in Nat /\ Len(q) >= 1 /\ Head(q) = q[1] /\ Len(Tail(q)) = Len(q) - 1
        /\ \A i \in 1..Len(q)-1 : Tail(q)[i] = q[i + 1]
    BY <1>1, <1>2
  <1>4. \A i \in 1..Len(q)-1 : i + 1 \in 1..Len(q) /\ i + 1 # 1
    BY <1>3
  <1>5. Once(q, x) => Once(Tail(q), x)
    <2> SUFFICES ASSUME Once(q, x), NEW i \in 1..Len(q)-1, NEW j \in 1..Len(q)-1,
                        q[i + 1].op = "close", q[i + 1].conn = x, q[j + 1].op = "close", q[j + 1].conn = x
                 PROVE  i = j
      BY <1>3 DEF Once
    <2>1. i + 1 = j + 1
      BY <1>4 DEF Once
    <2> QED BY <2>1
  <1>6. ASSUME Once(q, x), q[1].op = "close", q[1].conn = x PROVE ~Has(Tail(q), "close", x)
    <2> SUFFICES ASSUME NEW i \in 1..Len(q)-1, q[i + 1].op = "close", q[i + 1].conn = x
                 PROVE  FALSE
      BY <1>3 DEF Has
    <2>1. 1 \in 1..Len(q)
      BY <1>3
    <2> QED BY <1>4, <1>6, <2>1 DEF Once
  <1> QED BY <1>1, <1>3, <1>5, <1>6 DEF q

\* ... and when others are queued.
LEMMA OnceConcat ==
    ASSUME NEW q \in Seq(Functor), NEW s \in Seq(Functor), NEW x,
           Once(q, x), Once(s, x), ~Has(q, "close", x) \/ ~Has(s, "close", x)
    PROVE  Once(q \o s, x)
  <1> DEFINE r == q \o s
  <1>1. /\ Len(r) = Len(q) + Len(s) /\ Len(q) \in Nat /\ Len(s) \in Nat
        /\ \A i \in 1..Len(q) + Len(s) : r[i] = IF i <= Len(q) THEN q[i] ELSE s[i - Len(q)]
    BY ConcatProperties
  <1> HIDE DEF r
  <1>2. ASSUME NEW i \in 1..Len(r)
        PROVE  \/ i \in 1..Len(q) /\ r[i] = q[i]
               \/ i - Len(q) \in 1..Len(s) /\ r[i] = s[i - Len(q)]
    <2>1. CASE i <= Len(q)
      BY <1>1, <2>1
    <2>2. CASE ~(i <= Len(q))
      <3>1. i - Len(q) \in 1..Len(s)
        BY <1>1, <2>2
      <3> QED BY <1>1, <2>2, <3>1
    <2> QED BY <2>1, <2>2
  <1>3. ASSUME NEW i \in 1..Len(r), r[i].op = "close", r[i].conn = x,
               NEW j \in 1..Len(r), r[j].op = "close", r[j].conn = x
        PROVE  i = j
    <2>1. CASE Has(q, "close", x)
      <3>1. i \in 1..Len(q) /\ r[i] = q[i] /\ j \in 1..Len(q) /\ r[j] = q[j]
        BY <1>2, <1>3, <2>1 DEF Has
      <3> QED BY <1>3, <3>1 DEF Once
    <2>2. CASE ~Has(q, "close", x)
      <3>1. /\ i - Len(q) \in 1..Len(s) /\ r[i] = s[i - Len(q)]
            /\ j - Len(q) \in 1..Len(s) /\ r[j] = s[j - Len(q)]
        BY <1>2, <1>3, <2>2 DEF Has
      <3>2. i - Len(q) = j - Len(q)
        BY <1>3, <3>1 DEF Once
      <3> QED BY <1>1, <3>2
    <2> QED BY <2>1, <2>2
  <1>4. Once(r, x)
    BY <1>3 DEF Once
  <1> QED BY <1>4 DEF r

\* ... and when another kind of functor, or that of another connection, is queued.
LEMMA OncePosted ==
    ASSUME TypeInv, NEW w \in Worker, NEW o \in {"close", "shutdown", "read"}, NEW y \in Conn, Post(w, o, y),
           NEW v \in Worker, NEW z, Once(wq[v], z), o # "close" \/ z # y
    PROVE  Once(wq'[v], z)
  <1> DEFINE f == [op |-> o, conn |-> y]
  <1>1. f \in Functor /\ f.op = o /\ f.conn = y
    BY DEF Functor
  <1>2. wq \in [Worker -> Seq(Functor)] /\ wq' = [wq EXCEPT ![w] = Append(@, f)]
    BY DEF TypeInv, Post
  <1> HIDE DEF f
  <1>3. /\ <<f>> \in Seq(Functor) /\ Once(<<f>>, z) /\ ~Has(<<f>>, "close", z)
    BY <1>1 DEF Once, Has
  <1>4. wq[v] \in Seq(Functor) /\ Append(wq[v], f) = wq[v] \o <<f>>
    BY <1>1, <1>2, AppendIsConcat
  <1>5. Once(wq[v] \o <<f>>, z)
    BY <1>3, <1>4, OnceConcat
  <1>6. wq'[v] = IF v = w THEN wq[v] \o <<f>> ELSE wq[v]
    BY <1>2, <1>4
  <1> QED BY <1>5, <1>6

\* Starting, stopping and waiting: no line and no connection changes.
LEMMA QuietlyCauses ==
    ASSUME IndInv, Causes,
           \/ Quietly /\ UNCHANGED udpvars
           \/ proto = "udp" /\ \E x \in Conn : TimePasses(x),
           OneUse
    PROVE  Emptied' /\ Statuses' /\ Places' /\ ClosedOnce' /\ Handled'
  <1> USE DEF mainvars, udpvars, servervars
  <1>0. TypeInv /\ Lines /\ Tables /\ Order /\ Cleared /\ Listed /\ Unique
    BY DEF IndInv
  <1>1. /\ UNCHANGED <<proto, uses, call, conns, mainq, wq, closing>>
        /\ Ok
    <2>1. CASE Quietly
      BY <2>1 DEF Quietly, ServerStart, StartFails, AcceptFails, Accepts, StopBegins, StopUnbinds,
         StopClears, StopJoins
    <2>2. CASE \E x \in Conn : TimePasses(x)
      BY <2>2 DEF TimePasses
    <2> QED BY <2>1, <2>2
  <1>2. /\ Begun' => Begun /\ UNCHANGED <<table, todo, current, bound>>
        /\ \/ Begun /\ Begun' /\ UNCHANGED <<todo, bound, current>>
           \/ StopBegins
           \/ ~Begun /\ ~Begun' /\ \E x \in Conn : StopUnbinds(x)
           \/ ~Begun /\ ~Begun' /\ UNCHANGED <<bound, current, todo, run>>
           \/ ~Begun /\ ~Begun' /\ UNCHANGED <<bound, current, todo>> /\ (StopClears \/ StopJoins)
    <2>1. CASE Quietly
      BY <2>1 DEF Quietly, ServerStart, StartFails, AcceptFails, Accepts, Listening, StopBegins,
         StopUnbinds, StopClears, StopJoins, Begun
    <2>2. CASE \E x \in Conn : TimePasses(x)
      BY <2>2 DEF TimePasses, Begun
    <2> QED BY <2>1, <2>2
  <1>3. \A x : /\ Establishing(x)' <=> Establishing(x)
               /\ Ends(x)' <=> Ends(x)
               /\ Closes(x)' <=> Closes(x)
               /\ Queues(x)' <=> Queues(x)
               /\ ToClose(x)' <=> ToClose(x)
    BY <1>1 DEF Establishing, Ends, Closes, Queues, Has, ToClose
  <1>4. StopBegins => run = "running" /\ (Calm \/ Hurried) /\ todo' = Held /\ UNCHANGED <<bound, current, table>>
                      /\ run' = "stopping"
    BY DEF StopBegins
  <1>5. current = None \/ ~Begun
    BY <1>0 DEF Tables, Begun
  <1>6. None \notin bound
    BY <1>0, ServerAssumption DEF Tables
  <1>7. Hurried' <=> Hurried
    BY <1>1 DEF Hurried
  <1>8. Emptied'
    <2> SUFFICES ASSUME ~Hurried, ~Begun'
                 PROVE  /\ \A w \in Worker : \A op, x : Has(wq[w], op, x) =>
                              /\ op \in {"close", "shutdown"}
                              /\ op = "close" => x \notin bound' \/ "closeUser" \in uses
                        /\ \A w \in Worker : closing[w] # None =>
                              closing[w].conn \notin bound' \/ "closeUser" \in uses \/ run' = "joining"
                        /\ current' \notin bound'
      BY <1>1, <1>7 DEF Emptied
    <2>1. CASE StopBegins
      <3>1. \A w \in Worker : wq[w] = <<>> /\ closing[w] = None
        BY <1>4, <2>1 DEF Calm
      <3>2. \A w \in Worker : \A op, x : ~Has(wq[w], op, x)
        BY <3>1 DEF Has
      <3>3. current' = None /\ bound' = bound
        BY <1>4, <1>5, <2>1 DEF Begun
      <3> QED BY <1>6, <3>1, <3>2, <3>3
    <2>2. CASE ~Begun
      <3>1. /\ \A w \in Worker : \A op, x : Has(wq[w], op, x) =>
                  /\ op \in {"close", "shutdown"}
                  /\ op = "close" => x \notin bound \/ "closeUser" \in uses
            /\ \A w \in Worker : closing[w] # None =>
                  closing[w].conn \notin bound \/ "closeUser" \in uses \/ run = "joining"
            /\ current \notin bound
        BY <2>2 DEF Causes, Emptied
      <3>2. CASE \E x \in Conn : StopUnbinds(x)
        <4>1. PICK x \in Conn : bound' = bound \ {x} /\ current' = x /\ run = "stopping"
          BY <3>2 DEF StopUnbinds
        <4> QED BY <3>1, <4>1
      <3>3. CASE UNCHANGED <<bound, current>>
        <4>1. run = "joining" => run' = "joining" \/ \A w \in Worker : closing[w] = None
          BY <1>2, <1>4, <2>2 DEF StopClears, StopJoins, StopUnbinds, Begun
        <4> QED BY <3>1, <3>3, <4>1
      <3> QED BY <1>2, <1>4, <2>1, <2>2, <3>2, <3>3
    <2> QED BY <1>2, <2>1, <2>2
  <1>9. Statuses'
    <2> SUFFICES ASSUME proto = "tcp"
                 PROVE  /\ idle' = {}
                        /\ \A x \in Conn :
                              /\ conns[x].status = "kConnecting" => Establishing(x)
                              /\ conns[x].status = "kDisconnecting" => ToClose(x)
                              /\ conns[x].status = "kConnected" /\ ~Hurried
                                    => Begun' \/ (run' = "stopping" /\ x \in todo')
      BY <1>1, <1>3, <1>7 DEF Statuses
    <2>1. /\ idle = {} /\ idle' = idle
          /\ \A x \in Conn :
                              /\ conns[x].status = "kConnecting" => Establishing(x)
                              /\ conns[x].status = "kDisconnecting" => ToClose(x)
                              /\ conns[x].status = "kConnected" /\ ~Hurried
                                    => Begun \/ (run = "stopping" /\ x \in todo)
      BY DEF Causes, Statuses
    <2>2. ASSUME NEW x \in Conn, conns[x].status = "kConnected", ~Hurried
          PROVE  Begun' \/ (run' = "stopping" /\ x \in todo')
      <3>1. CASE StopBegins
        <4>1. Calm /\ run = "running" /\ todo' = Held /\ run' = "stopping"
          BY <1>4, <2>2, <3>1
        <4>2. Owned(x)
          BY <1>1, <2>2 DEF Ok, BadDeath, Dead
        <4>3. ~Queues(x) /\ ~HasAny(x) /\ ~Pins(x)
          <5>1. mainq = <<>> /\ \A w \in Worker : wq[w] = <<>> /\ closing[w] = None
            BY <4>1 DEF Calm
          <5> QED BY <5>1 DEF Queues, HasAny, Has, Pins
        <4>4. x \notin todo
          BY <4>1 DEF Causes, Beginnings, Begun
        <4>5. CASE x \in Held
          BY <4>1, <4>5
        <4>6. CASE call[x] # "none"
          <5>1. "reuse" \notin uses
            <6>1. "closeUser" \in uses \/ "shutdownUser" \in uses
              BY <1>0, <4>6 DEF Causes, Callers, TypeInv, Calls
            <6> QED BY <6>1 DEF OneUse
          <5>2. table[conns[x].key] = x /\ conns[x].key \in Key
            BY <1>0, <2>2, <4>1, <5>1 DEF Listed, Lasts, Tables, Made
          <5>3. x \in Held
            BY <5>2, ServerAssumption DEF Held
          <5> QED BY <4>1, <5>3
        <4> QED BY <1>0, <4>2, <4>3, <4>4, <4>5, <4>6, OwnedBy
      <3>2. CASE Begun'
        BY <3>2
      <3>3. CASE ~Begun /\ ~StopBegins
        <4>1. run = "stopping" /\ x \in todo
          BY <2>1, <2>2, <3>3
        <4>2. CASE StopClears \/ StopJoins
          BY <4>1, <4>2 DEF StopClears, StopJoins
        <4>3. CASE \E y \in Conn : StopUnbinds(y)
          BY <4>1, <4>3 DEF StopUnbinds
        <4> QED BY <1>2, <3>3, <4>1, <4>2, <4>3
      <3> QED BY <1>2, <3>1, <3>2, <3>3
    <2> QED BY <1>2, <2>1, <2>2
  <1>10. Places'
    BY <1>1 DEF Causes, Places
  <1>11. ClosedOnce'
    <2> SUFFICES ASSUME uses \cap {"hurry", "again", "closeUser"} = {}
                 PROVE  /\ \A w \in Worker : closing[w] # None =>
                              /\ closing[w].step = "call" => closing[w].conn \in bound'
                              /\ Queues(closing[w].conn) => closing[w].conn \notin bound' \/ closing[w].step = "return"
                        /\ \A x \in bound' : Closes(x) =>
                              /\ ~Ends(x) /\ ~Establishing(x) /\ conns[x].status = "kDisconnected" /\ proto = "udp"
                              /\ \A w \in Worker : Once(wq[w], x)
                        /\ \A x \in idle' : Begun' /\ x \in Held' => ~Ends(x) /\ ~Closes(x)
      <3>1. UNCHANGED <<proto, uses, call, conns, wq, closing>>
        BY <1>1
      <3> QED BY <1>3, <3>1 DEF ClosedOnce
    <2>1. /\ \A w \in Worker : closing[w] # None =>
              /\ closing[w].step = "call" => closing[w].conn \in bound
              /\ Queues(closing[w].conn) => closing[w].conn \notin bound \/ closing[w].step = "return"
          /\ \A x \in bound : Closes(x) =>
              /\ ~Ends(x) /\ ~Establishing(x) /\ conns[x].status = "kDisconnected" /\ proto = "udp"
              /\ \A w \in Worker : Once(wq[w], x)
          /\ \A x \in idle : Begun /\ x \in Held => ~Ends(x) /\ ~Closes(x)
      BY DEF Causes, ClosedOnce
    <2>2. bound' \subseteq bound
      BY <1>2, <1>4 DEF StopUnbinds
    <2>3. ~Hurried
      BY DEF Hurried
    <2>4. ASSUME NEW w \in Worker, closing[w] # None, closing[w].step = "call"
          PROVE  closing[w].conn \in bound'
      <3>1. CASE bound' = bound
        BY <2>1, <2>4, <3>1
      <3>2. CASE \E x \in Conn : StopUnbinds(x)
        <4>1. run = "stopping" /\ ~Begun
          BY <3>2 DEF StopUnbinds, Begun
        <4> QED BY <2>1, <2>3, <2>4, <4>1 DEF Causes, Emptied
      <3> QED BY <1>2, <1>4, <3>1, <3>2
    <2>5. ASSUME NEW x \in idle', Begun', x \in Held' PROVE ~Ends(x) /\ ~Closes(x)
      <3>1. Begun /\ x \in Held
        BY <1>2, <2>5 DEF Held
      <3>2. CASE x \in idle
        BY <2>1, <3>1, <3>2
      <3>3. CASE x \notin idle
        <4>1. TimePasses(x)
          BY <2>5, <3>3 DEF TimePasses
        <4>2. x \in Conn /\ conns[x].loop \in Worker
          BY <1>0, <3>1, HeldFacts DEF Tables
        <4>3. /\ \A f \in ToSet(wq[conns[x].loop]) : f.conn # x
              /\ closing[conns[x].loop] = None /\ ~Contains(mainq, x)
          BY <4>1 DEF TimePasses
        <4>4. \A op : ~Has(wq[conns[x].loop], op, x)
          <5>1. DOMAIN wq[conns[x].loop] = 1..Len(wq[conns[x].loop])
            BY <1>0, <4>2 DEF TypeInv
          <5> QED BY <4>3, <5>1 DEF Has, ToSet
        <4>5. ~Closes(x)
          BY <1>0, <4>4 DEF Closes, Lines
        <4>6. ~Queues(x)
          <5>1. DOMAIN mainq = 1..Len(mainq)
            BY <1>0 DEF TypeInv
          <5> QED BY <4>3, <5>1 DEF Contains, Queues
        <4>7. \A w \in Worker : closing[w] # None => closing[w].conn # x
          BY <4>3 DEF Causes, Places
        <4> QED BY <4>5, <4>6, <4>7 DEF Ends, Queues
      <3> QED BY <3>2, <3>3
    <2> QED BY <2>1, <2>2, <2>4, <2>5
  <1>12. Handled'
    <2> SUFFICES ASSUME Sound, NEW w \in Worker, closing[w] # None, ~closing[w].pinned
                 PROVE  \/ Begun' /\ table'[conns[closing[w].conn].key] = closing[w].conn
                        \/ run' = "joining" /\ Claimed(w, closing[w].conn)
      <3>1. Sound' <=> Sound
        BY <1>1 DEF Sound
      <3>2. UNCHANGED <<conns, wq, closing, call>>
        BY <1>1
      <3> QED BY <3>1, <3>2 DEF Handled, HandlerSafe, Claimed
    <2>1. \/ Begun /\ table[conns[closing[w].conn].key] = closing[w].conn
          \/ run = "joining" /\ Claimed(w, closing[w].conn)
      BY DEF Causes, Handled, HandlerSafe
    <2>2. ~StopBegins
      BY <1>4 DEF Calm, Sound, Hurried
    <2>3. CASE Begun
      BY <1>2, <2>1, <2>2, <2>3 DEF Begun
    <2>4. CASE run = "joining"
      <3>1. ~StopClears /\ (\A x \in Conn : ~StopUnbinds(x)) /\ ~StopJoins
        BY <2>4 DEF StopClears, StopUnbinds, StopJoins
      <3> QED BY <1>2, <2>1, <2>2, <2>4, <3>1 DEF Begun
    <2> QED BY <2>1, <2>3, <2>4
  <1> QED BY <1>8, <1>9, <1>10, <1>11, <1>12

\* A removal: the address has no other connection, and no handler is under way.
LEMMA RemoveCauses ==
    ASSUME IndInv, Causes, RemoveConnection, UNCHANGED udpvars
    PROVE  Emptied' /\ Statuses' /\ Places' /\ ClosedOnce' /\ Handled'
  <1> USE DEF mainvars, udpvars
  <1>0. TypeInv /\ Lines /\ Tables /\ Order /\ Cleared /\ Listed /\ Unique
    BY DEF IndInv
  <1> DEFINE x == Head(mainq)
  <1>1. /\ UNCHANGED <<proto, uses, call, run, todo, current, conns, wq, closing, idle>>
        /\ mainq # <<>> /\ mainq' = Tail(mainq) /\ bound' = bound \ {x}
        /\ table' = [table EXCEPT ![conns[x].key] = None]
        /\ run \in {"running", "stopped"} /\ crash = "none"
        /\ ~Left(x) => "overtake" \in uses
    BY DEF RemoveConnection, Ok
  <1>2. mainq \in Seq(Conn)
    BY <1>0 DEF TypeInv
  <1>3. Queues(x)
    <2>1. 1 \in 1..Len(mainq) /\ Head(mainq) = mainq[1]
      BY <1>1, <1>2
    <2> QED BY <2>1 DEF Queues
  <1>4. \A y : Queues(y)' => Queues(y)
    <2> SUFFICES ASSUME NEW y, NEW i \in 1..Len(Tail(mainq)), Tail(mainq)[i] = y PROVE Queues(y)
      BY <1>1 DEF Queues
    <2>1. i + 1 \in 1..Len(mainq) /\ mainq[i + 1] = y
      BY <1>1, <1>2
    <2> QED BY <2>1 DEF Queues
  <1> HIDE DEF x
  <1>5. \A y : /\ Establishing(y)' <=> Establishing(y)
               /\ Ends(y)' => Ends(y)
               /\ Closes(y)' <=> Closes(y)
               /\ ToClose(y)' <=> ToClose(y)
    <2>1. \A y : Ends(y)' => Ends(y)
      BY <1>1, <1>4 DEF Ends, Queues
    <2> QED BY <1>1, <2>1 DEF Establishing, Closes, ToClose
  <1>6. \A k \in Key : table'[k] = table[k] \/ (table'[k] = None /\ k = conns[x].key)
    BY <1>0, <1>1 DEF TypeInv
  <1>7. \A y : y \in Held' => y \in Held
    BY <1>6 DEF Held
  <1>8. Emptied' /\ Statuses' /\ Places'
    <2>1. Emptied'
      BY <1>1 DEF Causes, Emptied, Begun, Hurried
    <2>2. Statuses'
      BY <1>1, <1>5 DEF Causes, Statuses, Begun, Hurried
    <2>3. Places'
      BY <1>1 DEF Causes, Places
    <2> QED BY <2>1, <2>2, <2>3
  <1>9. ClosedOnce'
    <2> SUFFICES ASSUME uses \cap {"hurry", "again", "closeUser"} = {}
                 PROVE  /\ \A w \in Worker : closing[w] # None =>
                              /\ closing[w].step = "call" => closing[w].conn \in bound'
                              /\ Queues(closing[w].conn)'
                                    => closing[w].conn \notin bound' \/ closing[w].step = "return"
                        /\ \A y \in bound' : Closes(y) =>
                              /\ ~Ends(y)' /\ ~Establishing(y) /\ conns[y].status = "kDisconnected" /\ proto = "udp"
                              /\ \A w \in Worker : Once(wq[w], y)
                        /\ \A y \in idle : Begun' /\ y \in Held' => ~Ends(y)' /\ ~Closes(y)
      <3>1. UNCHANGED <<proto, uses, call, conns, wq, closing, idle>>
        BY <1>1
      <3> QED BY <1>5, <3>1 DEF ClosedOnce, Queues
    <2>1. /\ \A w \in Worker : closing[w] # None =>
              /\ closing[w].step = "call" => closing[w].conn \in bound
              /\ Queues(closing[w].conn) => closing[w].conn \notin bound \/ closing[w].step = "return"
          /\ \A y \in bound : Closes(y) =>
              /\ ~Ends(y) /\ ~Establishing(y) /\ conns[y].status = "kDisconnected" /\ proto = "udp"
              /\ \A w \in Worker : Once(wq[w], y)
          /\ \A y \in idle : Begun /\ y \in Held => ~Ends(y) /\ ~Closes(y)
      BY DEF Causes, ClosedOnce
    <2>2. ASSUME NEW w \in Worker, closing[w] # None, closing[w].step = "call"
          PROVE  closing[w].conn \in bound'
      <3>1. closing[w].conn # x
        BY <1>3, <2>1, <2>2
      <3> QED BY <1>1, <2>1, <2>2, <3>1
    <2>3. ASSUME NEW w \in Worker, closing[w] # None, Queues(closing[w].conn)'
          PROVE  closing[w].conn \notin bound' \/ closing[w].step = "return"
      <3>1. Queues(closing[w].conn)
        BY <1>1, <1>4, <2>3 DEF Queues
      <3> QED BY <1>1, <2>1, <2>3, <3>1
    <2>4. Begun' <=> Begun
      BY <1>1 DEF Begun
    <2> QED BY <1>1, <1>5, <1>7, <2>1, <2>2, <2>3, <2>4
  <1>10. Handled'
    <2> SUFFICES ASSUME Sound, NEW w \in Worker, closing[w] # None, ~closing[w].pinned
                 PROVE  Begun /\ table'[conns[closing[w].conn].key] = closing[w].conn
      <3>1. (Sound' <=> Sound) /\ (Begun' <=> Begun)
        BY <1>1 DEF Sound, Begun
      <3>2. UNCHANGED <<conns, wq, closing>>
        BY <1>1
      <3> QED BY <3>1, <3>2 DEF Handled, HandlerSafe
    <2> DEFINE y == closing[w].conn
    <2>1. Begun /\ table[conns[y].key] = y
      BY <1>1 DEF Causes, Handled, HandlerSafe
    <2>2. y # x
      BY <1>1 DEF Left, Sound
    <2>3. y \in Conn /\ Made(y) /\ conns[y].key \in Key
      BY <1>0, Working DEF Tables
    <2> HIDE DEF y
    <2>4. y \in Held
      BY <1>0, <2>1, <2>3, ServerAssumption DEF Held
    <2>5. x \in Conn /\ Made(x)
      <3>1. x \in Conn
        BY <1>1, <1>2 DEF x
      <3>2. Ends(x)
        BY <1>3 DEF Ends, Queues
      <3> QED BY <1>0, <3>1, <3>2 DEF Order, Made, Ended
    <2>6. Owned(x) /\ Owned(y)
      BY <1>0, <1>3, <2>4, OwnedBy
    <2>7. conns[x].key # conns[y].key
      BY <1>0, <1>1, <2>1, <2>2, <2>3, <2>5, <2>6 DEF Unique, Begun, Sound
    <2>8. table'[conns[y].key] = y
      BY <1>6, <2>1, <2>3, <2>7
    <2> QED BY <2>1, <2>8 DEF y
  <1> QED BY <1>8, <1>9, <1>10

\* A step in closeInLoop: the callback is still there when it is called.
LEMMA CallbackCauses ==
    ASSUME IndInv, IndInv', Causes, NEW w \in Worker,
           TestCallback(w) \/ CallCallback(w) \/ HandlerReturns(w), UNCHANGED udpvars
    PROVE  Emptied' /\ Statuses' /\ Places' /\ ClosedOnce' /\ Handled'
  <1> USE DEF mainvars, udpvars
  <1>0. TypeInv /\ TypeInv' /\ Lines /\ Tables /\ Order
    BY DEF IndInv
  <1> DEFINE x == closing[w].conn
  <1> DEFINE at == closing'[w]
  <1> DEFINE QueuesNext(y) == \E i \in 1..Len(mainq') : mainq'[i] = y
  <1>1. /\ UNCHANGED <<proto, uses, call, run, todo, current, conns, wq, table, bound, idle>>
        /\ closing[w] # None
        /\ mainq' = mainq \/ (mainq' = Append(mainq, x) /\ CallCallback(w))
    BY DEF TestCallback, CallCallback, HandlerReturns
  <1>2. closing[w] \in Progress /\ x \in Conn /\ Ends(x)
    BY <1>1, Working
  <1>3. \A v \in Worker \ {w} : closing'[v] = closing[v]
    BY <1>0 DEF TestCallback, CallCallback, HandlerReturns, TypeInv
  <1>4. /\ at # None => at.conn = x /\ at.pinned = closing[w].pinned
        /\ at # None => at.step = "return" \/ (at.step = "call" /\ TestCallback(w) /\ x \in bound)
        /\ TestCallback(w) => closing[w].step = "test"
    <2>1. Returning(closing[w]) # None =>
             /\ Returning(closing[w]).conn = x /\ Returning(closing[w]).pinned = closing[w].pinned
             /\ Returning(closing[w]).step = "return"
      BY <1>2 DEF Returning, Progress
    <2>2. CASE TestCallback(w)
      <3>1. at = IF x \in bound THEN [closing[w] EXCEPT !.step = "call"] ELSE Returning(closing[w])
        BY <1>0, <2>2 DEF TestCallback, TypeInv
      <3>2. /\ [closing[w] EXCEPT !.step = "call"].conn = x
            /\ [closing[w] EXCEPT !.step = "call"].pinned = closing[w].pinned
            /\ [closing[w] EXCEPT !.step = "call"].step = "call"
        BY <1>2 DEF Progress
      <3>3. closing[w].step = "test"
        BY <2>2 DEF TestCallback
      <3> QED BY <2>1, <2>2, <3>1, <3>2, <3>3
    <2>3. CASE CallCallback(w)
      <3>1. at = Returning(closing[w]) /\ closing[w].step = "call"
        BY <1>0, <2>3 DEF CallCallback, TypeInv
      <3>2. ~TestCallback(w)
        BY <3>1 DEF TestCallback
      <3> QED BY <2>1, <3>1, <3>2
    <2>4. CASE HandlerReturns(w)
      <3>1. at = None /\ closing[w].step = "return"
        BY <1>0, <2>4 DEF HandlerReturns, TypeInv
      <3> QED BY <3>1 DEF TestCallback
    <2> QED BY <2>2, <2>3, <2>4
  <1>5. /\ \A y : QueuesNext(y) => Queues(y) \/ (y = x /\ CallCallback(w))
        /\ mainq' = mainq => \A y : QueuesNext(y) <=> Queues(y)
    <2>1. mainq \in Seq(Conn)
      BY <1>0 DEF TypeInv
    <2>2. CASE mainq' = mainq
      BY <2>2 DEF Queues
    <2>3. CASE mainq' = Append(mainq, x) /\ CallCallback(w)
      <3>1. Len(Append(mainq, x)) = Len(mainq) + 1 /\ Len(mainq) \in Nat
        BY <1>2, <2>1
      <3>2. \A i \in 1..Len(mainq) + 1 : i \in 1..Len(mainq) \/ i = Len(mainq) + 1
        BY <3>1
      <3>3. \A i \in 1..Len(mainq) : Append(mainq, x)[i] = mainq[i]
        BY <1>2, <2>1
      <3>4. Append(mainq, x)[Len(mainq) + 1] = x
        BY <1>2, <2>1
      <3>5. mainq' # mainq
        <4>1. Len(mainq) + 1 # Len(mainq)
          BY <3>1
        <4> QED BY <2>3, <3>1, <4>1
      <3> QED BY <2>3, <3>1, <3>2, <3>3, <3>4, <3>5 DEF Queues
    <2> QED BY <1>1, <2>2, <2>3
  <1>6. ~(CallCallback(w) /\ TestCallback(w))
    BY DEF CallCallback, TestCallback
  <1> HIDE DEF x, at, QueuesNext
  <1>7. \A v \in Worker : closing'[v] # None =>
            closing[v] # None /\ closing'[v].conn = closing[v].conn /\ closing'[v].pinned = closing[v].pinned
    BY <1>1, <1>3, <1>4 DEF at, x
  <1>8. \A y : /\ Establishing(y)' <=> Establishing(y)
               /\ Ends(y)' => Ends(y)
               /\ Closes(y)' <=> Closes(y)
               /\ ToClose(y)' <=> ToClose(y)
               /\ y \in Held' <=> y \in Held
    <2>1. \A y : Ends(y)' => Ends(y)
      BY <1>2, <1>5, <1>7 DEF Ends, Queues, QueuesNext
    <2> QED BY <1>1, <2>1 DEF Establishing, Closes, ToClose, Held
  <1>9. Emptied'
    BY <1>1, <1>7 DEF Causes, Emptied, Begun, Hurried
  <1>10. Statuses'
    BY <1>1, <1>8 DEF Causes, Statuses, Begun, Hurried
  <1>11. Places'
    BY <1>1, <1>7 DEF Causes, Places
  <1>12. ClosedOnce'
    <2> SUFFICES ASSUME uses \cap {"hurry", "again", "closeUser"} = {}
                 PROVE  /\ \A v \in Worker : closing'[v] # None =>
                              /\ closing'[v].step = "call" => closing'[v].conn \in bound
                              /\ QueuesNext(closing'[v].conn)
                                    => closing'[v].conn \notin bound \/ closing'[v].step = "return"
                        /\ \A y \in bound : Closes(y) =>
                              /\ ~Ends(y)' /\ ~Establishing(y) /\ conns[y].status = "kDisconnected" /\ proto = "udp"
                              /\ \A v \in Worker : Once(wq[v], y)
                        /\ \A y \in idle : Begun' /\ y \in Held => ~Ends(y)' /\ ~Closes(y)
      <3>1. UNCHANGED <<proto, uses, call, conns, wq, bound, idle>>
        BY <1>1
      <3> QED BY <1>8, <3>1 DEF ClosedOnce, Queues, QueuesNext
    <2>1. /\ \A v \in Worker : closing[v] # None =>
              /\ closing[v].step = "call" => closing[v].conn \in bound
              /\ Queues(closing[v].conn) => closing[v].conn \notin bound \/ closing[v].step = "return"
          /\ \A y \in bound : Closes(y) =>
              /\ ~Ends(y) /\ ~Establishing(y) /\ conns[y].status = "kDisconnected" /\ proto = "udp"
              /\ \A v \in Worker : Once(wq[v], y)
          /\ \A y \in idle : Begun /\ y \in Held => ~Ends(y) /\ ~Closes(y)
      BY DEF Causes, ClosedOnce
    <2>2. ASSUME NEW v \in Worker, closing'[v] # None
          PROVE  /\ closing'[v].step = "call" => closing'[v].conn \in bound
                 /\ QueuesNext(closing'[v].conn)
                       => closing'[v].conn \notin bound \/ closing'[v].step = "return"
      <3>1. CASE v # w
        <4>1. closing'[v] = closing[v] /\ closing[v] # None /\ closing[v].conn # x
          BY <1>1, <1>3, <2>2, <3>1 DEF Causes, Places, x
        <4>2. QueuesNext(closing'[v].conn) => Queues(closing[v].conn)
          BY <1>5, <4>1
        <4> QED BY <2>1, <4>1, <4>2
      <3>2. CASE v = w /\ at.step = "return"
        BY <3>2 DEF at
      <3>3. CASE v = w /\ at.step = "call" /\ TestCallback(w) /\ x \in bound
        <4>1. closing[w].step = "test" /\ closing'[v].conn = x /\ x = closing[w].conn
          BY <1>4, <2>2, <3>3 DEF at, x
        <4>2. ~Queues(x)
          BY <1>1, <2>1, <3>3, <4>1
        <4>3. ~QueuesNext(closing'[v].conn)
          BY <1>1, <1>5, <1>6, <3>3, <4>1, <4>2
        <4> QED BY <3>3, <4>1, <4>3
      <3> QED BY <1>4, <2>2, <3>1, <3>2, <3>3 DEF at
    <2>3. Begun' <=> Begun
      BY <1>1 DEF Begun
    <2> QED BY <1>8, <2>1, <2>2, <2>3
  <1>13. Handled'
    <2>1. (Sound' <=> Sound) /\ (Begun' <=> Begun)
      BY <1>1 DEF Sound, Begun
    <2> QED BY <1>1, <1>7, <2>1 DEF Causes, Handled, HandlerSafe, Claimed
  <1> QED BY <1>9, <1>10, <1>11, <1>12, <1>13

\* A connection is established: nothing closes it yet.
LEMMA EstablishCauses ==
    ASSUME IndInv, IndInv', Causes, NEW w \in Worker, Establish(w), UNCHANGED udpvars
    PROVE  Emptied' /\ Statuses' /\ Places' /\ ClosedOnce' /\ Handled'
  <1> USE DEF mainvars, udpvars
  <1>0. TypeInv /\ Lines /\ Tables /\ Order
    BY DEF IndInv
  <1> DEFINE x == Head(wq[w]).conn
  <1>1. /\ UNCHANGED <<proto, uses, call, run, todo, current, table, bound, mainq, closing, idle>>
        /\ conns' = [conns EXCEPT ![x].status = "kConnected"]
        /\ Due(w, "establish") /\ wq' = [wq EXCEPT ![w] = Tail(@)] /\ wq[w] # <<>>
    BY DEF Establish, Due
  <1>2. /\ Executed(w, "establish", x)
        /\ \A y : \A v \in Worker : Once(wq[v], y) => Once(wq'[v], y)
    BY <1>0, <1>1, Executes, OncePopped
  <1> HIDE DEF x
  <1>3. x \in Conn /\ Made(x) /\ Has(wq[w], "establish", x)
    BY <1>2 DEF Executed
  <1>4. SameIds /\ conns'[x].status = "kConnected" /\ \A y \in Conn : y # x => conns'[y] = conns[y]
    <2>1. "kConnected" \in Status \ {"none"}
      BY DEF Status
    <2> QED BY <1>0, <1>1, <1>3, <2>1, StatusSet
  <1>5. /\ \A v \in Worker : \A o, y : Has(wq'[v], o, y) => Has(wq[v], o, y)
        /\ \A v \in Worker : \A y : Has(wq[v], "close", y) => Has(wq'[v], "close", y)
    BY <1>2 DEF Executed
  <1>6. \A y : /\ Establishing(y) => Establishing(y)' \/ y = x
               /\ Establishing(y)' => Establishing(y)
               /\ Ends(y)' <=> Ends(y)
               /\ Closes(y)' <=> Closes(y)
               /\ ToClose(y)' <=> ToClose(y)
               /\ y \in Held' <=> y \in Held
    <2>1. \A y : Establishing(y) => Establishing(y)' \/ y = x
      BY <1>2 DEF Establishing, Executed
    <2>2. \A y : (Closes(y)' <=> Closes(y)) /\ (Establishing(y)' => Establishing(y))
      BY <1>5 DEF Closes, Establishing
    <2> QED BY <1>1, <2>1, <2>2 DEF Ends, Held, ToClose
  <1>7. (Begun' <=> Begun) /\ (Hurried' <=> Hurried) /\ (Begun \/ Hurried)
    <2>1. Begun \/ Hurried
      <3>1. ~Hurried /\ ~Begun => "establish" \in {"close", "shutdown"}
        BY <1>3 DEF Causes, Emptied
      <3> QED BY <3>1
    <2> QED BY <1>1, <2>1 DEF Begun, Hurried
  <1>8. Emptied'
    BY <1>7 DEF Emptied
  <1>9. Statuses'
    <2> SUFFICES ASSUME proto = "tcp"
                 PROVE  /\ idle = {}
                        /\ \A y \in Conn :
                              /\ conns'[y].status = "kConnecting" => Establishing(y)'
                              /\ conns'[y].status = "kDisconnecting" => ToClose(y)
                              /\ conns'[y].status = "kConnected" /\ ~Hurried => Begun
      BY <1>1, <1>6, <1>7 DEF Statuses
    <2>1. /\ idle = {}
          /\ \A y \in Conn :
                /\ conns[y].status = "kConnecting" => Establishing(y)
                /\ conns[y].status = "kDisconnecting" => ToClose(y)
      BY DEF Causes, Statuses
    <2> QED BY <1>4, <1>6, <1>7, <2>1
  <1>10. Places'
    BY <1>0, <1>1, <1>4, Working DEF Causes, Places, SameIds
  <1>11. ClosedOnce'
    <2> SUFFICES ASSUME uses \cap {"hurry", "again", "closeUser"} = {}
                 PROVE  /\ \A v \in Worker : closing[v] # None =>
                              /\ closing[v].step = "call" => closing[v].conn \in bound
                              /\ Queues(closing[v].conn) => closing[v].conn \notin bound \/ closing[v].step = "return"
                        /\ \A y \in bound : Closes(y) =>
                              /\ ~Ends(y) /\ ~Establishing(y)' /\ conns'[y].status = "kDisconnected" /\ proto = "udp"
                              /\ \A v \in Worker : Once(wq'[v], y)
                        /\ \A y \in idle : Begun /\ y \in Held => ~Ends(y) /\ ~Closes(y)
      <3>1. UNCHANGED <<proto, uses, call, mainq, closing, bound, idle>>
        BY <1>1
      <3> QED BY <1>6, <1>7, <3>1 DEF ClosedOnce, Queues
    <2>1. /\ \A v \in Worker : closing[v] # None =>
              /\ closing[v].step = "call" => closing[v].conn \in bound
              /\ Queues(closing[v].conn) => closing[v].conn \notin bound \/ closing[v].step = "return"
          /\ \A y \in bound : Closes(y) =>
              /\ ~Ends(y) /\ ~Establishing(y) /\ conns[y].status = "kDisconnected" /\ proto = "udp"
              /\ \A v \in Worker : Once(wq[v], y)
          /\ \A y \in idle : Begun /\ y \in Held => ~Ends(y) /\ ~Closes(y)
      BY DEF Causes, ClosedOnce
    <2>2. Establishing(x)
      BY <1>3 DEF Establishing
    <2>3. \A y \in bound : y \in Conn
      BY <1>0 DEF Tables
    <2>4. ASSUME NEW y \in bound, Closes(y)
          PROVE  /\ ~Ends(y) /\ ~Establishing(y)' /\ conns'[y].status = "kDisconnected" /\ proto = "udp"
                 /\ \A v \in Worker : Once(wq'[v], y)
      <3>1. y # x /\ conns'[y] = conns[y]
        BY <1>4, <2>1, <2>2, <2>3, <2>4
      <3> QED BY <1>2, <1>6, <2>1, <2>4, <3>1
    <2> QED BY <2>1, <2>4
  <1>12. Handled'
    <2> SUFFICES ASSUME Sound, NEW v \in Worker, closing[v] # None, ~closing[v].pinned
                 PROVE  \/ Begun /\ table[conns'[closing[v].conn].key] = closing[v].conn
                        \/ run = "joining" /\ Claimed(v, closing[v].conn)'
      <3>1. Sound' <=> Sound
        BY <1>1 DEF Sound
      <3>2. UNCHANGED <<run, table, closing>>
        BY <1>1
      <3> QED BY <1>7, <3>1, <3>2 DEF Handled, HandlerSafe
    <2>1. \/ Begun /\ table[conns[closing[v].conn].key] = closing[v].conn
          \/ run = "joining" /\ Claimed(v, closing[v].conn)
      BY DEF Causes, Handled, HandlerSafe
    <2>2. conns'[closing[v].conn].key = conns[closing[v].conn].key
      BY <1>4, Working DEF SameIds
    <2>3. Claimed(v, closing[v].conn) => Claimed(v, closing[v].conn)'
      BY <1>1, <1>5 DEF Claimed
    <2> QED BY <2>1, <2>2, <2>3
  <1> QED BY <1>8, <1>9, <1>10, <1>11, <1>12

\* A connection ends; where that leaves its handler depends on the caller.
LEMMA CloseCauses ==
    ASSUME IndInv, IndInv', Causes, NEW w \in Worker, NEW x \in Conn, NEW pinned \in BOOLEAN,
           CloseInLoop(w, x, pinned), Made(x), closing[w] = None, conns[x].loop = w,
           ~pinned => proto = "tcp",
           UNCHANGED <<proto, uses, call, run, todo, current, table, bound, mainq>>,
           idle' \subseteq idle,
           \A v \in Worker : \A op, y : Has(wq'[v], op, y) => Has(wq[v], op, y),
           \A v \in Worker : \A op, y : Has(wq[v], op, y) => Has(wq'[v], op, y) \/ y = x,
           \A v \in Worker : \A y : Once(wq[v], y) => Once(wq'[v], y),
           ~Hurried /\ ~Begun => x \notin bound \/ "closeUser" \in uses \/ run = "joining",
           uses \cap {"hurry", "again", "closeUser"} = {} =>
              /\ x \in bound => ~Queues(x) /\ ~Closes(x)'
              /\ Begun /\ x \in Held => x \notin idle',
           Sound /\ ~pinned =>
              \/ Begun /\ table[conns[x].key] = x
              \/ run = "joining" /\ Claimed(w, x)'
    PROVE  Emptied' /\ Statuses' /\ Places' /\ ClosedOnce' /\ Handled'
  <1>0. TypeInv /\ TypeInv' /\ Lines /\ Tables /\ Order
    BY DEF IndInv
  <1> DEFINE at == [conn |-> x, step |-> "test", pinned |-> pinned]
  <1>1. at.conn = x /\ at.step = "test" /\ at.pinned = pinned
    OBVIOUS
  <1> HIDE DEF at
  <1>2. \A v \in Worker : closing'[v] = IF v = w THEN at ELSE closing[v]
    BY <1>0 DEF CloseInLoop, TypeInv, at
  <1>3. SameIds /\ conns'[x].status = "kDisconnected" /\ \A y \in Conn : y # x => conns'[y] = conns[y]
    <2>1. "kDisconnected" \in Status \ {"none"} /\ conns' = [conns EXCEPT ![x].status = "kDisconnected"]
      BY DEF Status, CloseInLoop
    <2> QED BY <1>0, <2>1, StatusSet
  <1>4. \A y : /\ Establishing(y)' => Establishing(y)
               /\ Establishing(y) => Establishing(y)' \/ y = x
               /\ Ends(y)' => Ends(y) \/ y = x
               /\ Closes(y)' => Closes(y)
               /\ Closes(y) => Closes(y)' \/ y = x
               /\ ToClose(y) => ToClose(y)' \/ y = x
               /\ y \in Held' <=> y \in Held
    <2>1. \A y : Ends(y)' => Ends(y) \/ y = x
      BY <1>1, <1>2 DEF Ends
    <2>2. \A y : /\ Establishing(y)' => Establishing(y)
                 /\ Establishing(y) => Establishing(y)' \/ y = x
      BY DEF Establishing
    <2>3. \A y : /\ Closes(y)' => Closes(y)
                 /\ Closes(y) => Closes(y)' \/ y = x
      BY DEF Closes
    <2> QED BY <2>1, <2>2, <2>3 DEF Held, ToClose
  <1>5. (Begun' <=> Begun) /\ (Hurried' <=> Hurried) /\ (Sound' <=> Sound)
    BY DEF Begun, Hurried, Sound
  <1>6. Emptied'
    <2> SUFFICES ASSUME ~Hurried, ~Begun
                 PROVE  /\ \A v \in Worker : \A op, y : Has(wq'[v], op, y) =>
                              /\ op \in {"close", "shutdown"}
                              /\ op = "close" => y \notin bound \/ "closeUser" \in uses
                        /\ \A v \in Worker : closing'[v] # None =>
                              closing'[v].conn \notin bound \/ "closeUser" \in uses \/ run = "joining"
                        /\ current \notin bound
      BY <1>5 DEF Emptied
    <2>1. /\ \A v \in Worker : \A op, y : Has(wq[v], op, y) =>
                /\ op \in {"close", "shutdown"}
                /\ op = "close" => y \notin bound \/ "closeUser" \in uses
          /\ \A v \in Worker : closing[v] # None =>
                closing[v].conn \notin bound \/ "closeUser" \in uses \/ run = "joining"
          /\ current \notin bound
      BY DEF Causes, Emptied
    <2> QED BY <1>1, <1>2, <2>1
  <1>7. Statuses'
    <2> SUFFICES ASSUME proto = "tcp", NEW y \in Conn
                 PROVE  /\ idle' = {}
                        /\ conns'[y].status = "kConnecting" => Establishing(y)'
                        /\ conns'[y].status = "kDisconnecting" => ToClose(y)'
                        /\ conns'[y].status = "kConnected" /\ ~Hurried
                              => Begun \/ (run = "stopping" /\ y \in todo)
      BY <1>5 DEF Statuses
    <2>1. /\ idle = {}
          /\ conns[y].status = "kConnecting" => Establishing(y)
          /\ conns[y].status = "kDisconnecting" => ToClose(y)
          /\ conns[y].status = "kConnected" /\ ~Hurried
                => Begun \/ (run = "stopping" /\ y \in todo)
      BY DEF Causes, Statuses
    <2> QED BY <1>3, <1>4, <2>1
  <1>8. Places'
    <2> SUFFICES ASSUME NEW v \in Worker, closing'[v] # None
                 PROVE  conns'[closing'[v].conn].loop = v /\ (~closing'[v].pinned => proto = "tcp")
      BY DEF Places
    <2>1. CASE v = w
      BY <1>1, <1>2, <1>3, <2>1 DEF SameIds
    <2>2. CASE v # w
      <3>1. closing'[v] = closing[v] /\ closing[v] # None /\ closing[v].conn \in Conn
        BY <1>2, <2>2, Working
      <3> QED BY <1>3, <3>1 DEF Causes, Places, SameIds
    <2> QED BY <2>1, <2>2
  <1>9. \A v \in Worker : v # w /\ closing[v] # None => closing[v].conn # x
    BY DEF Causes, Places
  <1>10. ClosedOnce'
    <2> DEFINE QueuesNext(y) == \E i \in 1..Len(mainq') : mainq'[i] = y
    <2>1. \A y : QueuesNext(y) <=> Queues(y)
      BY DEF Queues
    <2> HIDE DEF QueuesNext
    <2> SUFFICES ASSUME uses \cap {"hurry", "again", "closeUser"} = {}
                 PROVE  /\ \A v \in Worker : closing'[v] # None =>
                              /\ closing'[v].step = "call" => closing'[v].conn \in bound
                              /\ QueuesNext(closing'[v].conn)
                                    => closing'[v].conn \notin bound \/ closing'[v].step = "return"
                        /\ \A y \in bound : Closes(y)' =>
                              /\ ~Ends(y)' /\ ~Establishing(y)' /\ conns'[y].status = "kDisconnected" /\ proto = "udp"
                              /\ \A v \in Worker : Once(wq'[v], y)
                        /\ \A y \in idle' : Begun /\ y \in Held => ~Ends(y)' /\ ~Closes(y)'
      BY <1>4, <1>5 DEF ClosedOnce, Queues, QueuesNext
    <2>2. /\ \A v \in Worker : closing[v] # None =>
              /\ closing[v].step = "call" => closing[v].conn \in bound
              /\ Queues(closing[v].conn) => closing[v].conn \notin bound \/ closing[v].step = "return"
          /\ \A y \in bound : Closes(y) =>
              /\ ~Ends(y) /\ ~Establishing(y) /\ conns[y].status = "kDisconnected" /\ proto = "udp"
              /\ \A v \in Worker : Once(wq[v], y)
          /\ \A y \in idle : Begun /\ y \in Held => ~Ends(y) /\ ~Closes(y)
      BY DEF Causes, ClosedOnce
    <2>3. (x \in bound => ~Queues(x) /\ ~Closes(x)') /\ (Begun /\ x \in Held => x \notin idle')
      OBVIOUS
    <2>4. ASSUME NEW v \in Worker, closing'[v] # None
          PROVE  /\ closing'[v].step = "call" => closing'[v].conn \in bound
                 /\ QueuesNext(closing'[v].conn) => closing'[v].conn \notin bound \/ closing'[v].step = "return"
      BY <1>1, <1>2, <2>1, <2>2, <2>3, <2>4
    <2>5. ASSUME NEW y \in bound, Closes(y)'
          PROVE  /\ ~Ends(y)' /\ ~Establishing(y)' /\ conns'[y].status = "kDisconnected" /\ proto = "udp"
                 /\ \A v \in Worker : Once(wq'[v], y)
      <3>1. y # x /\ y \in Conn /\ Closes(y)
        BY <1>0, <1>4, <2>3, <2>5 DEF Tables
      <3> QED BY <1>3, <1>4, <2>2, <3>1
    <2>6. ASSUME NEW y \in idle', Begun, y \in Held PROVE ~Ends(y)' /\ ~Closes(y)'
      BY <1>4, <2>2, <2>3, <2>6
    <2> QED BY <2>4, <2>5, <2>6
  <1>11. Handled'
    <2> SUFFICES ASSUME Sound, NEW v \in Worker, closing'[v] # None, ~closing'[v].pinned
                 PROVE  \/ Begun /\ table[conns'[closing'[v].conn].key] = closing'[v].conn
                        \/ /\ run = "joining"
                           /\ Has(wq'[v], "close", closing'[v].conn) \/ call[closing'[v].conn] # "none"
      BY <1>5 DEF Handled, HandlerSafe, Claimed
    <2>1. CASE v = w
      BY <1>1, <1>2, <1>3, <2>1 DEF SameIds, Claimed
    <2>2. CASE v # w
      <3>1. closing'[v] = closing[v] /\ closing[v] # None /\ closing[v].conn # x
        BY <1>2, <1>9, <2>2
      <3>2. \/ Begun /\ table[conns[closing[v].conn].key] = closing[v].conn
            \/ run = "joining" /\ Claimed(v, closing[v].conn)
        BY <3>1 DEF Causes, Handled, HandlerSafe
      <3>3. conns'[closing[v].conn] = conns[closing[v].conn]
        BY <1>3, <3>1, Working
      <3>4. Has(wq[v], "close", closing[v].conn) => Has(wq'[v], "close", closing[v].conn)
        BY <3>1
      <3> QED BY <3>1, <3>2, <3>3, <3>4 DEF Claimed
    <2> QED BY <2>1, <2>2
  <1> QED BY <1>6, <1>7, <1>8, <1>10, <1>11

\* After a quiet stop has begun nothing is read.
LEMMA ReadsBefore ==
    ASSUME Emptied, NEW w \in Worker, NEW x, Has(wq[w], "read", x)
    PROVE  ~Hurried => Begun
  <1> SUFFICES ASSUME ~Hurried, ~Begun PROVE FALSE
    OBVIOUS
  <1>1. \A op, y : Has(wq[w], op, y) => op \in {"close", "shutdown"}
    BY DEF Emptied
  <1>2. "read" \in {"close", "shutdown"}
    BY <1>1
  <1> QED BY <1>2

\* It ends by its functor, in a callback for a datagram, or in a handler.
LEMMA EndsCauses ==
    ASSUME IndInv, IndInv', Causes, NEW w \in Worker, NEW x \in Conn,
           \/ RunClose(w) /\ UNCHANGED udpvars
           \/ proto = "udp" /\ HandleReadCloses(w, x)
           \/ proto = "tcp" /\ TcpEnds(w, x) /\ UNCHANGED udpvars
    PROVE  Emptied' /\ Statuses' /\ Places' /\ ClosedOnce' /\ Handled'
  <1> USE DEF mainvars, udpvars
  <1>0. TypeInv /\ Lines /\ Tables /\ Order /\ Listed
    BY DEF IndInv
  <1>1. uses \cap {"hurry", "again", "closeUser"} = {} =>
           /\ \A y \in bound : Closes(y) => ~Ends(y) /\ \A v \in Worker : Once(wq[v], y)
           /\ \A y \in bound : Closes(y) => conns[y].status = "kDisconnected" /\ proto = "udp"
           /\ \A y \in idle : Begun /\ y \in Held => ~Closes(y)
    BY DEF Causes, ClosedOnce
  <1>2. \A y : Queues(y) => Ends(y)
    BY DEF Ends, Queues
  <1>3. CASE RunClose(w) /\ UNCHANGED udpvars
    <2>0. PICK y \in Conn : y = Head(wq[w]).conn
      <3>1. wq[w] # <<>> /\ wq[w] \in Seq(Functor)
        BY <1>0, <1>3 DEF RunClose, Due, TypeInv
      <3>2. Head(wq[w]) \in Functor
        BY <3>1
      <3> QED BY <3>2 DEF Functor
    <2>1. /\ Due(w, "close") /\ CloseInLoop(w, y, TRUE) /\ wq' = [wq EXCEPT ![w] = Tail(@)]
          /\ UNCHANGED <<proto, uses, call, run, todo, current, table, bound, mainq, idle>>
          /\ wq[w] # <<>> /\ Head(wq[w]).op = "close" /\ closing[w] = None
      BY <1>3, <2>0 DEF RunClose, Due
    <2>2. /\ Executed(w, "close", y)
          /\ \A z : \A v \in Worker : Once(wq[v], z) => Once(wq'[v], z)
          /\ Once(wq[w], y) => ~Has(wq'[w], "close", y)
      <3>1. Executed(w, "close", Head(wq[w]).conn)
        BY <2>1, Executes
      <3> QED BY <1>0, <2>0, <2>1, <3>1, OncePopped
    <2>3. /\ y \in Conn /\ Made(y) /\ Has(wq[w], "close", y)
          /\ \A v \in Worker : \A o, z : Has(wq'[v], o, z) => Has(wq[v], o, z)
          /\ \A v \in Worker : \A o, z : Has(wq[v], o, z) => Has(wq'[v], o, z) \/ z = y
      BY <2>2 DEF Executed
    <2>4. conns[y].loop = w /\ Closes(y)
      BY <1>0, <2>3 DEF Lines, Closes
    <2>5. ~Hurried /\ ~Begun => y \notin bound \/ "closeUser" \in uses
      BY <2>3 DEF Causes, Emptied
    <2>6. ASSUME uses \cap {"hurry", "again", "closeUser"} = {}
          PROVE  /\ y \in bound => ~Queues(y) /\ ~Closes(y)'
                 /\ Begun /\ y \in Held => y \notin idle'
      <3>1. ASSUME y \in bound PROVE ~Closes(y)'
        <4>1. ~Has(wq'[w], "close", y)
          BY <1>1, <2>2, <2>4, <2>6, <3>1
        <4>2. \A v \in Worker : v # w => ~Has(wq'[v], "close", y)
          BY <1>0, <2>3, <2>4 DEF Lines
        <4> QED BY <4>1, <4>2 DEF Closes
      <3> QED BY <1>1, <1>2, <2>1, <2>4, <2>6, <3>1
    <2> QED BY <2>1, <2>2, <2>3, <2>4, <2>5, <2>6, CloseCauses
  <1>4. CASE proto = "udp" /\ HandleReadCloses(w, x)
    <2>1. /\ Due(w, "read") /\ x = Head(wq[w]).conn
          /\ CloseInLoop(w, x, TRUE) /\ wq' = [wq EXCEPT ![w] = Tail(@)]
          /\ UNCHANGED <<proto, uses, call, run, todo, current, table, bound, mainq>>
          /\ idle' = idle \ {x} /\ wq[w] # <<>> /\ closing[w] = None
          /\ conns[x].status = "kConnected" \/ "again" \in uses
      BY <1>4 DEF HandleReadCloses, Reads, Due
    <2>2. /\ Executed(w, "read", x)
          /\ \A z : \A v \in Worker : Once(wq[v], z) => Once(wq'[v], z)
      <3>1. Executed(w, "read", Head(wq[w]).conn)
        BY <2>1, Executes
      <3> QED BY <1>0, <2>1, <3>1, OncePopped
    <2>3. /\ Made(x) /\ Has(wq[w], "read", x)
          /\ \A v \in Worker : \A o, z : Has(wq'[v], o, z) => Has(wq[v], o, z)
          /\ \A v \in Worker : \A o, z : Has(wq[v], o, z) => Has(wq'[v], o, z) \/ z = x
      BY <2>2 DEF Executed
    <2>4. conns[x].loop = w
      BY <1>0, <2>3 DEF Lines
    <2>5. ~Hurried => Begun
      BY <2>3, ReadsBefore DEF Causes
    <2>6. ASSUME uses \cap {"hurry", "again", "closeUser"} = {}
          PROVE  /\ x \in bound => ~Queues(x) /\ ~Closes(x)'
                 /\ Begun /\ x \in Held => x \notin idle'
      <3>1. conns[x].status = "kConnected" /\ ~Ends(x)
        BY <1>0, <2>1, <2>6 DEF Order, Ended
      <3>2. Closes(x)' => Closes(x)
        BY <2>3 DEF Closes
      <3>3. x \in bound => ~Closes(x)
        BY <1>1, <2>6, <3>1
      <3> QED BY <1>2, <2>1, <3>1, <3>2, <3>3
    <2> QED BY <2>1, <2>2, <2>3, <2>4, <2>5, <2>6, CloseCauses
  <1>5. CASE proto = "tcp" /\ TcpEnds(w, x) /\ UNCHANGED udpvars
    <2>1. /\ closing[w] = None /\ run # "stopped" /\ conns[x].loop = w
          /\ conns[x].status \in {"kConnected", "kDisconnecting"} /\ x \notin downs
          /\ CloseInLoop(w, x, FALSE) /\ proto = "tcp"
          /\ run = "stopping" => Hurried
          /\ UNCHANGED <<proto, uses, call, run, todo, current, table, bound, mainq, wq, idle>>
      BY <1>5 DEF TcpEnds
    <2>2. Made(x) /\ ~Ends(x)
      BY <1>0, <2>1 DEF Made, Order
    <2>3. /\ idle = {}
          /\ conns[x].status = "kDisconnecting" => ToClose(x)
          /\ conns[x].status = "kConnected" /\ ~Hurried => Begun \/ run = "stopping"
      BY <2>1 DEF Causes, Statuses
    <2>4. Sound /\ ~Begun => Closes(x) \/ call[x] # "none"
      BY <2>1, <2>3 DEF Sound, Hurried, ToClose
    <2>5. Closes(x) => Has(wq[w], "close", x)
      BY <1>0, <2>1 DEF Closes, Lines
    <2>6. ~Hurried /\ ~Begun => run = "joining"
      BY <1>0, <2>1 DEF TypeInv, Begun
    <2>7. Closes(x)' <=> Closes(x)
      BY <2>1 DEF Closes
    <2>8. uses \cap {"hurry", "again", "closeUser"} = {} =>
              /\ x \in bound => ~Queues(x) /\ ~Closes(x)'
              /\ Begun /\ x \in Held => x \notin idle'
      BY <1>1, <1>2, <2>1, <2>2, <2>3, <2>7
    <2>9. ASSUME Sound
          PROVE  \/ Begun /\ table[conns[x].key] = x
                 \/ run = "joining" /\ Claimed(w, x)'
      <3>1. ~Hurried /\ "reuse" \notin uses
        BY <2>9 DEF Sound, Hurried
      <3>2. CASE Begun
        BY <1>0, <2>1, <3>1, <3>2 DEF Listed, Lasts, Begun
      <3>3. CASE ~Begun
        BY <2>1, <2>4, <2>5, <2>6, <2>9, <3>1, <3>3 DEF Claimed
      <3> QED BY <3>2, <3>3
    <2> QED BY <2>1, <2>2, <2>6, <2>8, <2>9, CloseCauses
  <1> QED BY <1>3, <1>4, <1>5

\* Functors come or go at the loops, and nothing else changes that matters here.
LEMMA LinesCauses ==
    ASSUME IndInv, IndInv', Causes,
           UNCHANGED <<proto, uses, call, run, todo, current, conns, table, bound, mainq, closing>>,
           idle' \subseteq idle,
           ~Hurried => Begun \/ \A v \in Worker : \A op, y : Has(wq'[v], op, y) => Has(wq[v], op, y),
           \A v \in Worker : \A y : Has(wq'[v], "close", y) <=> Has(wq[v], "close", y),
           \A v \in Worker : \A y : Has(wq'[v], "establish", y) <=> Has(wq[v], "establish", y),
           \A v \in Worker : \A y : Once(wq[v], y) => Once(wq'[v], y)
    PROVE  Emptied' /\ Statuses' /\ Places' /\ ClosedOnce' /\ Handled'
  <1>1. \A y : /\ Establishing(y)' <=> Establishing(y)
               /\ Ends(y)' <=> Ends(y)
               /\ Closes(y)' <=> Closes(y)
               /\ ToClose(y)' <=> ToClose(y)
               /\ y \in Held' <=> y \in Held
    BY DEF Establishing, Ends, Closes, ToClose, Held
  <1>2. (Begun' <=> Begun) /\ (Hurried' <=> Hurried)
    BY DEF Begun, Hurried
  <1>3. Emptied' /\ Statuses' /\ Places'
    <2>1. Emptied'
      <3> SUFFICES ASSUME ~Hurried, ~Begun PROVE Emptied'
        BY <1>2 DEF Emptied
      <3>1. \A v \in Worker : \A op, y : Has(wq'[v], op, y) => Has(wq[v], op, y)
        OBVIOUS
      <3> QED BY <1>2, <3>1 DEF Emptied, Causes
    <2>2. Statuses'
      BY <1>1, <1>2 DEF Statuses, Causes
    <2>3. Places'
      BY DEF Causes, Places
    <2> QED BY <2>1, <2>2, <2>3
  <1>4. ClosedOnce'
    <2> SUFFICES ASSUME uses \cap {"hurry", "again", "closeUser"} = {}
                 PROVE  /\ \A v \in Worker : closing[v] # None =>
                              /\ closing[v].step = "call" => closing[v].conn \in bound
                              /\ Queues(closing[v].conn) => closing[v].conn \notin bound \/ closing[v].step = "return"
                        /\ \A y \in bound : Closes(y)' =>
                              /\ ~Ends(y) /\ ~Establishing(y)' /\ conns[y].status = "kDisconnected" /\ proto = "udp"
                              /\ \A v \in Worker : Once(wq'[v], y)
                        /\ \A y \in idle' : Begun /\ y \in Held => ~Ends(y) /\ ~Closes(y)'
      BY <1>1, <1>2 DEF ClosedOnce, Queues
    <2>1. /\ \A v \in Worker : closing[v] # None =>
              /\ closing[v].step = "call" => closing[v].conn \in bound
              /\ Queues(closing[v].conn) => closing[v].conn \notin bound \/ closing[v].step = "return"
          /\ \A y \in bound : Closes(y) =>
              /\ ~Ends(y) /\ ~Establishing(y) /\ conns[y].status = "kDisconnected" /\ proto = "udp"
              /\ \A v \in Worker : Once(wq[v], y)
          /\ \A y \in idle : Begun /\ y \in Held => ~Ends(y) /\ ~Closes(y)
      BY DEF Causes, ClosedOnce
    <2> QED BY <1>1, <2>1
  <1>5. Handled'
    <2>1. Sound' <=> Sound
      BY DEF Sound
    <2>2. \A v \in Worker : \A y : Claimed(v, y)' <=> Claimed(v, y)
      BY DEF Claimed
    <2> QED BY <1>2, <2>1, <2>2 DEF Handled, HandlerSafe, Causes
  <1> QED BY <1>3, <1>4, <1>5

\* A datagram is read, and perhaps answered.
LEMMA ReadCauses ==
    ASSUME IndInv, IndInv', Causes, proto = "udp", NEW w \in Worker, NEW x \in Conn,
           HandleRead(w, x) \/ \E sent \in BOOLEAN : HandleReadSends(w, x, sent)
    PROVE  Emptied' /\ Statuses' /\ Places' /\ ClosedOnce' /\ Handled'
  <1> USE DEF mainvars
  <1>1. /\ Due(w, "read") /\ x = Head(wq[w]).conn
        /\ wq' = [wq EXCEPT ![w] = Tail(@)] /\ wq[w] # <<>>
        /\ UNCHANGED <<proto, uses, call, run, todo, current, conns, table, bound, mainq, closing>>
        /\ idle' \subseteq idle
    BY DEF HandleRead, HandleReadSends, Reads, Due
  <1>2. TypeInv
    BY DEF IndInv
  <1>3. /\ Executed(w, "read", x)
        /\ \A z : \A v \in Worker : Once(wq[v], z) => Once(wq'[v], z)
    <2>1. Executed(w, "read", Head(wq[w]).conn)
      BY <1>1, Executes
    <2> QED BY <1>1, <1>2, <2>1, OncePopped
  <1>4. ~Hurried => Begun
    <2>1. Has(wq[w], "read", x)
      BY <1>3 DEF Executed
    <2> QED BY <2>1, ReadsBefore DEF Causes
  <1>5. /\ \A v \in Worker : \A y : Has(wq'[v], "close", y) <=> Has(wq[v], "close", y)
        /\ \A v \in Worker : \A y : Has(wq'[v], "establish", y) <=> Has(wq[v], "establish", y)
    BY <1>3 DEF Executed
  <1> QED BY <1>1, <1>3, <1>4, <1>5, LinesCauses

\* A datagram is handed to the loop of its connection.
LEMMA RecvKnownCauses ==
    ASSUME IndInv, IndInv', Causes, proto = "udp", NEW k \in Key, RecvKnown(k)
    PROVE  Emptied' /\ Statuses' /\ Places' /\ ClosedOnce' /\ Handled'
  <1> USE DEF mainvars
  <1>0. TypeInv /\ Lines /\ Tables
    BY DEF IndInv
  <1> DEFINE y == table[k]
  <1> DEFINE w == conns[y].loop
  <1>1. /\ UNCHANGED <<proto, uses, call, run, todo, current, conns, table, bound, mainq, closing, idle>>
        /\ y # None /\ Post(w, "read", y) /\ run = "running"
    BY DEF RecvKnown, Arrives, Receiving
  <1>2. y \in Conn /\ w \in Worker
    BY <1>0, <1>1 DEF TypeInv, Tables
  <1> HIDE DEF y, w
  <1>3. \A v \in Worker : \A op, z : Has(wq'[v], op, z) <=> Has(wq[v], op, z) \/ (v = w /\ op = "read" /\ z = y)
    BY <1>0, <1>1, <1>2, Posted
  <1>4. \A v \in Worker : \A z : Once(wq[v], z) => Once(wq'[v], z)
    BY <1>0, <1>1, <1>2, OncePosted
  <1>5. Begun
    BY <1>1 DEF Begun
  <1> QED BY <1>1, <1>3, <1>4, <1>5, LinesCauses

\* The functor of shutdown() changes nothing here.
LEMMA ShutdownCauses ==
    ASSUME IndInv, IndInv', Causes, NEW w \in Worker, RunShutdown(w), UNCHANGED udpvars
    PROVE  Emptied' /\ Statuses' /\ Places' /\ ClosedOnce' /\ Handled'
  <1> USE DEF mainvars, udpvars
  <1> DEFINE x == Head(wq[w]).conn
  <1>1. /\ Due(w, "shutdown") /\ wq' = [wq EXCEPT ![w] = Tail(@)] /\ wq[w] # <<>>
        /\ UNCHANGED <<proto, uses, call, run, todo, current, conns, table, bound, mainq, closing, idle>>
    BY DEF RunShutdown, Due
  <1>2. Executed(w, "shutdown", x)
    BY <1>1, Executes
  <1>3. \A v \in Worker : \A y : Once(wq[v], y) => Once(wq'[v], y)
    BY <1>1, OncePopped DEF IndInv
  <1> HIDE DEF x
  <1>4. /\ \A v \in Worker : \A op, y : Has(wq'[v], op, y) => Has(wq[v], op, y)
        /\ \A v \in Worker : \A y : Has(wq'[v], "close", y) <=> Has(wq[v], "close", y)
        /\ \A v \in Worker : \A y : Has(wq'[v], "establish", y) <=> Has(wq[v], "establish", y)
    BY <1>2 DEF Executed
  <1> QED BY <1>1, <1>3, <1>4, LinesCauses

\* stop() closes a connection that it has unbound.
LEMMA StopClosesCauses ==
    ASSUME IndInv, IndInv', Causes, StopCloses, UNCHANGED udpvars
    PROVE  Emptied' /\ Statuses' /\ Places' /\ ClosedOnce' /\ Handled'
  <1> USE DEF mainvars, udpvars
  <1>0. TypeInv /\ Lines /\ Tables /\ Order
    BY DEF IndInv
  <1>1. /\ run = "stopping" /\ current # None /\ todo' = todo \ {current} /\ current' = None
        /\ UNCHANGED <<proto, uses, call, run, table, bound, mainq, closing, idle>>
    BY DEF StopCloses
  <1>2. PICK x \in Conn : x = current /\ x \in todo /\ Made(x) /\ conns[x].loop \in Worker
    <2>1. current \in Conn /\ current \in todo
      BY <1>0, <1>1 DEF TypeInv, Tables
    <2> QED BY <1>0, <2>1 DEF Tables
  <1> DEFINE st == IF proto = "udp" THEN "kDisconnected" ELSE "kDisconnecting"
  <1> DEFINE posts == proto = "udp" \/ conns[x].status = "kConnected"
  <1>3. /\ SameIds
        /\ posts => conns'[x].status = st
        /\ \A y \in Conn : y # x \/ ~posts => conns'[y] = conns[y]
    <2>1. CASE posts
      <3>1. st \in Status \ {"none"}
        BY DEF Status
      <3>2. conns' = [conns EXCEPT ![x].status = st]
        BY <1>2, <2>1 DEF StopCloses
      <3> HIDE DEF st
      <3>3. /\ SameIds /\ conns'[x].status = st
            /\ \A y \in Conn : y # x => conns'[y] = conns[y]
        BY <1>0, <1>2, <3>1, <3>2, StatusSet
      <3> QED BY <2>1, <3>3
    <2>2. CASE ~posts
      BY <1>2, <2>2 DEF StopCloses, SameIds
    <2> QED BY <2>1, <2>2
  <1>4. /\ \A v \in Worker : \A op, y : Has(wq[v], op, y) => Has(wq'[v], op, y)
        /\ \A v \in Worker : \A op, y : Has(wq'[v], op, y) => Has(wq[v], op, y) \/ (op = "close" /\ y = x)
        /\ posts => Closes(x)'
        /\ \A v \in Worker : \A y : y # x /\ Once(wq[v], y) => Once(wq'[v], y)
    <2>1. CASE posts
      <3> DEFINE w == conns[x].loop
      <3>1. w \in Worker /\ Post(w, "close", x)
        BY <1>2, <2>1 DEF StopCloses
      <3> HIDE DEF w, posts
      <3>2. \A v \in Worker : \A op, y :
                  Has(wq'[v], op, y) <=> Has(wq[v], op, y) \/ (v = w /\ op = "close" /\ y = x)
        BY <1>0, <3>1, Posted
      <3>3. \A v \in Worker : \A y : y # x /\ Once(wq[v], y) => Once(wq'[v], y)
        BY <1>0, <3>1, OncePosted
      <3>4. Closes(x)'
        BY <3>1, <3>2 DEF Closes
      <3> QED BY <3>2, <3>3, <3>4
    <2>2. CASE ~posts
      <3>1. wq' = wq
        BY <1>2, <2>2 DEF StopCloses
      <3> QED BY <2>2, <3>1
    <2> QED BY <2>1, <2>2
  <1> HIDE DEF posts
  <1>5. \A y : /\ Establishing(y)' <=> Establishing(y)
               /\ Ends(y)' <=> Ends(y)
               /\ Closes(y) => Closes(y)'
               /\ Closes(y)' => Closes(y) \/ y = x
               /\ ToClose(y) => ToClose(y)'
    <2>1. \A v \in Worker : \A y : Has(wq'[v], "establish", y) <=> Has(wq[v], "establish", y)
      BY <1>4
    <2>2. \A v \in Worker : \A y : Has(wq'[v], "close", y) => Has(wq[v], "close", y) \/ y = x
      BY <1>4
    <2> QED BY <1>1, <1>4, <2>1, <2>2 DEF Establishing, Ends, Closes, ToClose
  <1>6. (Begun' <=> Begun) /\ (Hurried' <=> Hurried) /\ (Sound' <=> Sound) /\ ~Begun
    BY <1>1 DEF Begun, Hurried, Sound
  <1>7. ~Hurried =>
          /\ \A v \in Worker : \A op, y : Has(wq[v], op, y) =>
                /\ op \in {"close", "shutdown"}
                /\ op = "close" => y \notin bound \/ "closeUser" \in uses
          /\ \A v \in Worker : closing[v] # None =>
                closing[v].conn \notin bound \/ "closeUser" \in uses
          /\ x \notin bound
    BY <1>1, <1>2, <1>6 DEF Causes, Emptied
  <1>8. None \notin bound
    BY <1>0, ServerAssumption DEF Tables
  <1>9. Emptied'
    <2>0. UNCHANGED <<bound, closing, uses, run>>
      BY <1>1
    <2> SUFFICES ASSUME ~Hurried
                 PROVE  /\ \A v \in Worker : \A op, y : Has(wq'[v], op, y) =>
                              /\ op \in {"close", "shutdown"}
                              /\ op = "close" => y \notin bound \/ "closeUser" \in uses
                        /\ \A v \in Worker : closing[v] # None =>
                              closing[v].conn \notin bound \/ "closeUser" \in uses
                        /\ current' \notin bound
      BY <1>6, <2>0, SMTT(30) DEF Emptied
    <2>1. ASSUME NEW v \in Worker, NEW op, NEW y, Has(wq'[v], op, y)
          PROVE  /\ op \in {"close", "shutdown"}
                 /\ op = "close" => y \notin bound \/ "closeUser" \in uses
      <3>1. Has(wq[v], op, y) \/ (op = "close" /\ y = x)
        BY <1>4, <2>1
      <3> QED BY <1>7, <3>1
    <2> QED BY <1>1, <1>7, <1>8, <2>1
  <1>10. Statuses'
    <2> SUFFICES ASSUME proto = "tcp", NEW y \in Conn
                 PROVE  /\ idle = {}
                        /\ conns'[y].status = "kConnecting" => Establishing(y)'
                        /\ conns'[y].status = "kDisconnecting" => ToClose(y)'
                        /\ conns'[y].status = "kConnected" /\ ~Hurried => y \in todo'
      BY <1>1, <1>6 DEF Statuses
    <2>1. /\ idle = {}
          /\ conns[y].status = "kConnecting" => Establishing(y)
          /\ conns[y].status = "kDisconnecting" => ToClose(y)
          /\ conns[y].status = "kConnected" /\ ~Hurried => y \in todo
      BY <1>6 DEF Causes, Statuses
    <2>2. CASE y # x
      BY <1>1, <1>2, <1>3, <1>5, <1>6, <2>1, <2>2
    <2>3. CASE y = x /\ posts
      BY <1>3, <1>4, <1>6, <2>1, <2>3 DEF ToClose
    <2>4. CASE y = x /\ ~posts
      BY <1>3, <1>5, <1>6, <2>1, <2>4 DEF posts
    <2> QED BY <2>2, <2>3, <2>4
  <1>11. \A v \in Worker : closing[v] # None =>
            /\ closing[v].conn \in Conn /\ conns'[closing[v].conn].loop = conns[closing[v].conn].loop
            /\ conns'[closing[v].conn].key = conns[closing[v].conn].key
    BY <1>3, Working DEF SameIds
  <1>12. Places'
    BY <1>1, <1>11 DEF Causes, Places
  <1>13. ClosedOnce'
    <2> SUFFICES ASSUME uses \cap {"hurry", "again", "closeUser"} = {}
                 PROVE  /\ \A v \in Worker : closing[v] # None =>
                              /\ closing[v].step = "call" => closing[v].conn \in bound
                              /\ Queues(closing[v].conn) => closing[v].conn \notin bound \/ closing[v].step = "return"
                        /\ \A y \in bound : Closes(y)' =>
                              /\ ~Ends(y) /\ ~Establishing(y) /\ conns'[y].status = "kDisconnected" /\ proto = "udp"
                              /\ \A v \in Worker : Once(wq'[v], y)
      <3>1. UNCHANGED <<proto, uses, call, mainq, closing, bound>>
        BY <1>1
      <3> QED BY <1>5, <1>6, <3>1 DEF ClosedOnce, Queues
    <2>1. /\ \A v \in Worker : closing[v] # None =>
              /\ closing[v].step = "call" => closing[v].conn \in bound
              /\ Queues(closing[v].conn) => closing[v].conn \notin bound \/ closing[v].step = "return"
          /\ \A y \in bound : Closes(y) =>
              /\ ~Ends(y) /\ ~Establishing(y) /\ conns[y].status = "kDisconnected" /\ proto = "udp"
              /\ \A v \in Worker : Once(wq[v], y)
      BY DEF Causes, ClosedOnce
    <2>2. ~Hurried
      BY DEF Hurried
    <2>3. ASSUME NEW y \in bound, Closes(y)'
          PROVE  /\ ~Ends(y) /\ ~Establishing(y) /\ conns'[y].status = "kDisconnected" /\ proto = "udp"
                 /\ \A v \in Worker : Once(wq'[v], y)
      <3>1. y # x /\ y \in Conn /\ Closes(y)
        BY <1>0, <1>5, <1>7, <2>2, <2>3 DEF Tables
      <3> QED BY <1>3, <1>4, <2>1, <3>1
    <2> QED BY <2>1, <2>3
  <1>14. Handled'
    <2>1. Sound => \A v \in Worker : closing[v] = None \/ closing[v].pinned
      BY <1>1, <1>6 DEF Causes, Handled, HandlerSafe
    <2> QED BY <1>1, <1>6, <2>1 DEF Handled, HandlerSafe
  <1> QED BY <1>9, <1>10, <1>12, <1>13, <1>14

\* A connection begins, with functors that do not close it.
LEMMA NewCauses ==
    ASSUME IndInv, IndInv', Causes, NEW x \in Conn, NEW k \in Key, NEW w \in Worker,
           NEW then \in Seq(Functor), \A y : ~Has(then, "close", y) /\ ~Has(then, "establish", y),
           NewConnection(x, k, w, then), run = "running", crash = "none",
           UNCHANGED <<proto, uses, call, run, todo, current, mainq, closing, idle>>
    PROVE  Emptied' /\ Statuses' /\ Places' /\ ClosedOnce' /\ Handled'
  <1>0. TypeInv /\ Lines /\ Tables /\ Order /\ Unique
    BY DEF IndInv
  <1> DEFINE new == [status |-> "kConnecting", key |-> k, loop |-> w]
  <1> DEFINE est == [op |-> "establish", conn |-> x]
  <1>1. /\ ~Made(x) /\ (Fresh(k) \/ "reuse" \in uses)
        /\ conns' = [conns EXCEPT ![x] = new] /\ table' = [table EXCEPT ![k] = x]
        /\ bound' = bound \cup {x}
        /\ wq' = [wq EXCEPT ![w] = @ \o <<est>> \o then]
    BY DEF NewConnection, Made
  <1>2. new.status = "kConnecting" /\ new.key = k /\ new.loop = w
    OBVIOUS
  <1>3. est \in Functor /\ est.op = "establish" /\ est.conn = x
    BY DEF Functor
  <1> HIDE DEF new, est
  <1>4. conns'[x] = new /\ \A y \in Conn : y # x => conns'[y] = conns[y]
    BY <1>0, <1>1 DEF TypeInv
  <1>5. \A j \in Key : table'[j] = IF j = k THEN x ELSE table[j]
    BY <1>0, <1>1 DEF TypeInv
  <1>6. /\ \A v \in Worker : \A op : ~Has(wq[v], op, x)
        /\ ~Ends(x) /\ x \notin bound /\ x \notin idle
    BY <1>0, <1>1 DEF Lines, Tables, Order, Made, Ended
  <1> DEFINE q == wq[w] \o <<est>>
  <1>7. <<est>> \in Seq(Functor) /\ wq[w] \in Seq(Functor)
        /\ \A op, y : Has(<<est>>, op, y) <=> est.op = op /\ est.conn = y
    BY <1>0, <1>3, HasOne DEF TypeInv
  <1>8. q \in Seq(Functor) /\ \A op, y : Has(q, op, y) <=> Has(wq[w], op, y) \/ Has(<<est>>, op, y)
    BY <1>7, HasConcat
  <1>9. \A y : Once(wq[w], y) => Once(q, y)
    <2>1. \A y : Once(<<est>>, y) /\ ~Has(<<est>>, "close", y)
      BY <1>3, <1>7 DEF Once
    <2> QED BY <1>7, <2>1, OnceConcat
  <1>10. wq'[w] = q \o then /\ \A v \in Worker : v # w => wq'[v] = wq[v]
    BY <1>0, <1>1 DEF TypeInv
  <1> HIDE DEF q
  <1>11. \A op, y : Has(q \o then, op, y) <=> Has(q, op, y) \/ Has(then, op, y)
    BY <1>8, HasConcat
  <1>12. \A y : Once(wq[w], y) => Once(q \o then, y)
    <2>1. \A y : Once(then, y)
      BY DEF Once, Has
    <2> QED BY <1>8, <1>9, <2>1, OnceConcat
  <1>13. /\ \A v \in Worker : \A y : Once(wq[v], y) => Once(wq'[v], y)
         /\ \A v \in Worker : \A y : Has(wq'[v], "close", y) <=> Has(wq[v], "close", y)
         /\ \A v \in Worker : \A y : Has(wq'[v], "establish", y) => Has(wq[v], "establish", y) \/ y = x
         /\ \A v \in Worker : \A y : Has(wq[v], "establish", y) => Has(wq'[v], "establish", y)
         /\ Has(wq'[w], "establish", x)
    <2>1. \A y : /\ Has(wq'[w], "close", y) <=> Has(wq[w], "close", y)
                 /\ Has(wq'[w], "establish", y) <=> Has(wq[w], "establish", y) \/ y = x
      BY <1>3, <1>7, <1>8, <1>10, <1>11
    <2> QED BY <1>10, <1>12, <2>1
  <1>14. \A y : /\ Establishing(y)' <=> Establishing(y) \/ y = x
                /\ Ends(y)' <=> Ends(y)
                /\ Closes(y)' <=> Closes(y)
                /\ ToClose(y)' <=> ToClose(y)
                /\ y \in Held' => y \in Held \/ y = x
    <2>1. \A y : Establishing(y)' <=> Establishing(y) \/ y = x
      BY <1>13 DEF Establishing
    <2>2. \A y : Closes(y)' <=> Closes(y)
      BY <1>13 DEF Closes
    <2>3. \A y : y \in Held' => y \in Held \/ y = x
      BY <1>5 DEF Held
    <2> QED BY <2>1, <2>2, <2>3 DEF Ends, ToClose
  <1>15. Begun /\ Begun' /\ (Hurried' <=> Hurried) /\ (Sound' <=> Sound)
    BY DEF Begun, Hurried, Sound
  <1>16. Emptied'
    BY <1>15 DEF Emptied
  <1>17. Statuses'
    <2> SUFFICES ASSUME proto = "tcp", NEW y \in Conn
                 PROVE  /\ idle = {}
                        /\ conns'[y].status = "kConnecting" => Establishing(y)'
                        /\ conns'[y].status = "kDisconnecting" => ToClose(y)'
      BY <1>15 DEF Statuses
    <2>1. /\ idle = {}
          /\ conns[y].status = "kConnecting" => Establishing(y)
          /\ conns[y].status = "kDisconnecting" => ToClose(y)
      BY <1>15 DEF Causes, Statuses
    <2> QED BY <1>2, <1>4, <1>14, <2>1
  <1>18. \A v \in Worker : closing[v] # None =>
            /\ closing[v].conn \in Conn /\ closing[v].conn # x
            /\ conns'[closing[v].conn] = conns[closing[v].conn]
    BY <1>1, <1>4, Working
  <1>19. Places'
    BY <1>18 DEF Causes, Places
  <1>20. ClosedOnce'
    <2> SUFFICES ASSUME uses \cap {"hurry", "again", "closeUser"} = {}
                 PROVE  /\ \A v \in Worker : closing[v] # None =>
                              /\ closing[v].step = "call" => closing[v].conn \in bound'
                              /\ Queues(closing[v].conn) => closing[v].conn \notin bound' \/ closing[v].step = "return"
                        /\ \A y \in bound' : Closes(y) =>
                              /\ ~Ends(y) /\ ~Establishing(y)' /\ conns'[y].status = "kDisconnected" /\ proto = "udp"
                              /\ \A v \in Worker : Once(wq'[v], y)
                        /\ \A y \in idle : y \in Held' => ~Ends(y) /\ ~Closes(y)
      <3>1. UNCHANGED <<proto, uses, call, mainq, closing, idle>>
        OBVIOUS
      <3> QED BY <1>14, <1>15, <3>1 DEF ClosedOnce, Queues
    <2>1. /\ \A v \in Worker : closing[v] # None =>
              /\ closing[v].step = "call" => closing[v].conn \in bound
              /\ Queues(closing[v].conn) => closing[v].conn \notin bound \/ closing[v].step = "return"
          /\ \A y \in bound : Closes(y) =>
              /\ ~Ends(y) /\ ~Establishing(y) /\ conns[y].status = "kDisconnected" /\ proto = "udp"
              /\ \A v \in Worker : Once(wq[v], y)
          /\ \A y \in idle : y \in Held => ~Ends(y) /\ ~Closes(y)
      BY <1>15 DEF Causes, ClosedOnce
    <2>2. ASSUME NEW v \in Worker, closing[v] # None
          PROVE  /\ closing[v].step = "call" => closing[v].conn \in bound'
                 /\ Queues(closing[v].conn) => closing[v].conn \notin bound' \/ closing[v].step = "return"
      BY <1>1, <1>18, <2>1, <2>2
    <2>3. ASSUME NEW y \in bound', Closes(y)
          PROVE  /\ ~Ends(y) /\ ~Establishing(y)' /\ conns'[y].status = "kDisconnected" /\ proto = "udp"
                 /\ \A v \in Worker : Once(wq'[v], y)
      <3>1. ~Closes(x)
        BY <1>6 DEF Closes
      <3>2. y # x /\ y \in bound /\ y \in Conn
        BY <1>0, <1>1, <2>3, <3>1 DEF Tables
      <3> QED BY <1>4, <1>13, <1>14, <2>1, <2>3, <3>2
    <2>4. ASSUME NEW y \in idle, y \in Held' PROVE ~Ends(y) /\ ~Closes(y)
      BY <1>6, <1>14, <2>1, <2>4
    <2> QED BY <2>2, <2>3, <2>4
  <1>21. Handled'
    <2> SUFFICES ASSUME Sound, NEW v \in Worker, closing[v] # None, ~closing[v].pinned
                 PROVE  table'[conns'[closing[v].conn].key] = closing[v].conn
      BY <1>15 DEF Handled, HandlerSafe
    <2> DEFINE y == closing[v].conn
    <2>1. table[conns[y].key] = y
      BY DEF Causes, Handled, HandlerSafe
    <2>2. y \in Conn /\ Made(y) /\ conns[y].key \in Key /\ conns'[y] = conns[y]
      BY <1>0, <1>18, Working DEF Tables
    <2> HIDE DEF y
    <2>3. conns[y].key # k
      <3> SUFFICES ASSUME conns[y].key = k PROVE FALSE
        OBVIOUS
      <3>1. Dead(y)
        BY <1>1, <2>2 DEF Fresh, Sound
      <3>2. y \in Held
        BY <1>0, <2>1, <2>2, ServerAssumption DEF Held
      <3> QED BY <3>1, <3>2 DEF Dead, Owned
    <2>4. table'[conns'[y].key] = y
      BY <1>5, <2>1, <2>2, <2>3
    <2> QED BY <2>4 DEF y
  <1> QED BY <1>16, <1>17, <1>19, <1>20, <1>21

\* A connection begins with functors that neither close nor establish another.
LEMMA BeginsCauses ==
    ASSUME IndInv, IndInv', Causes, NEW x \in Conn, NEW k \in Key, NEW w \in Worker,
           (Accept(x, k, w) /\ UNCHANGED udpvars) \/ RecvNew(x, k, w)
    PROVE  Emptied' /\ Statuses' /\ Places' /\ ClosedOnce' /\ Handled'
  <1> USE DEF mainvars, udpvars
  <1>1. CASE Accept(x, k, w) /\ UNCHANGED udpvars
    <2>1. <<>> \in Seq(Functor) /\ \A y : ~Has(<<>>, "close", y) /\ ~Has(<<>>, "establish", y)
      BY DEF Has
    <2>2. /\ NewConnection(x, k, w, <<>>) /\ run = "running" /\ crash = "none"
          /\ UNCHANGED <<proto, uses, call, run, todo, current, mainq, closing, idle>>
      BY <1>1 DEF Accept, Accepts, Listening, Ok
    <2> QED BY <2>1, <2>2, NewCauses
  <1>2. CASE RecvNew(x, k, w)
    <2> DEFINE f == [op |-> "read", conn |-> x]
    <2>1. f \in Functor /\ f.op = "read"
      BY DEF Functor
    <2>2. /\ NewConnection(x, k, w, <<f>>) /\ run = "running" /\ crash = "none"
          /\ UNCHANGED <<proto, uses, call, run, todo, current, mainq, closing, idle>>
      BY <1>2 DEF RecvNew, Arrives, Receiving, Ok
    <2> HIDE DEF f
    <2>3. <<f>> \in Seq(Functor) /\ \A y : ~Has(<<f>>, "close", y) /\ ~Has(<<f>>, "establish", y)
      BY <2>1 DEF Has
    <2> QED BY <2>2, <2>3, NewCauses
  <1> QED BY <1>1, <1>2

\* The repeated timer closes connections that nobody else closes.
LEMMA CheckExpiredCauses ==
    ASSUME IndInv, IndInv', Causes, proto = "udp", CheckExpired
    PROVE  Emptied' /\ Statuses' /\ Places' /\ ClosedOnce' /\ Handled'
  <1> USE DEF mainvars, udpvars
  <1>0. TypeInv /\ Lines /\ Tables /\ Order
    BY DEF IndInv
  <1> DEFINE E == Held \cap idle
  <1>1. /\ run = "running" /\ crash = "none"
        /\ table' = [k \in Key |-> IF table[k] \in E THEN None ELSE table[k]]
        /\ conns' = [x \in Conn |-> IF x \in E
                                    THEN [conns[x] EXCEPT !.status = "kDisconnected"] ELSE conns[x]]
        /\ wq' = [w \in Worker |-> wq[w] \o CloseAll(ExpiredAt(w))]
        /\ UNCHANGED <<proto, uses, call, run, bound, mainq, closing, idle>>
    BY DEF CheckExpired, expiredChecker, Ok, CloseAll, ExpiredAt
  <1>2. /\ \A x \in E : x \in Conn /\ x \in idle /\ x \in Held
        /\ \A w : ExpiredAt(w) = {y \in E : conns[y].loop = w}
    BY <1>0, HeldFacts DEF ExpiredAt
  <1>3. ASSUME NEW x, x \in Held' PROVE x \in Held /\ x \notin E
    <2>1. PICK k \in Key : table'[k] = x /\ x # None
      BY <1>3 DEF Held
    <2>2. table[k] = x /\ x \notin E
      BY <1>1, <2>1
    <2> QED BY <2>1, <2>2 DEF Held
  <1> HIDE DEF E
  <1>4. Begun /\ Begun' /\ (Hurried' <=> Hurried)
    BY <1>1 DEF Begun, Hurried
  <1>5. \A x \in Conn : conns'[x] = IF x \in E THEN [conns[x] EXCEPT !.status = "kDisconnected"]
                                    ELSE conns[x]
    BY <1>1
  <1>6. \A x \in Conn : /\ conns'[x].loop = conns[x].loop
                        /\ x \in E => conns'[x].status = "kDisconnected"
    <2>1. conns \in [Conn -> [status : Status, key : Key \cup {None}, loop : Worker \cup {None}]]
      BY <1>0 DEF TypeInv
    <2> QED BY <1>5, <2>1
  <1>7. ASSUME NEW w \in Worker
        PROVE  /\ wq'[w] \in Seq(Functor) /\ wq[w] \in Seq(Functor)
               /\ \A x : Has(wq'[w], "establish", x) <=> Has(wq[w], "establish", x)
               /\ \A x : Has(wq'[w], "close", x) <=> Has(wq[w], "close", x) \/ x \in ExpiredAt(w)
               /\ \A x : Once(wq[w], x) /\ (~Has(wq[w], "close", x) \/ x \notin ExpiredAt(w))
                            => Once(wq'[w], x)
    <2> DEFINE D == ExpiredAt(w)
    <2> DEFINE q == wq[w]
    <2> DEFINE s == CloseAll(D)
    <2>1. D \in SUBSET Conn /\ IsFiniteSet(D)
      BY <1>0, Expired
    <2>2. q \in Seq(Functor) /\ wq'[w] = q \o s
      BY <1>0, <1>1 DEF TypeInv
    <2> HIDE DEF D
    <2>3. /\ s \in Seq(Functor)
          /\ \A op, x : Has(s, op, x) <=> op = "close" /\ x \in D
          /\ \A x : Once(s, x)
      BY <2>1, ClosesAll
    <2> HIDE DEF q, s
    <2>4. q \o s \in Seq(Functor) /\ \A op, x : Has(q \o s, op, x) <=> Has(q, op, x) \/ Has(s, op, x)
      BY <2>2, <2>3, HasConcat
    <2>5. \A x : ~Has(s, "establish", x) /\ (Has(s, "close", x) <=> x \in D)
      BY <2>3
    <2>6. \A x : /\ Has(q \o s, "establish", x) <=> Has(q, "establish", x)
                 /\ Has(q \o s, "close", x) <=> Has(q, "close", x) \/ x \in D
      BY <2>4, <2>5
    <2>7. ASSUME NEW x, Once(q, x), ~Has(q, "close", x) \/ x \notin D PROVE Once(q \o s, x)
      BY <2>2, <2>3, <2>5, <2>7, OnceConcat
    <2>8. q \in Seq(Functor) /\ wq'[w] = q \o s /\ q \o s \in Seq(Functor)
      BY <2>2, <2>4
    <2> QED BY <2>6, <2>7, <2>8 DEF q, D
  <1>8. \A x : /\ Establishing(x)' <=> Establishing(x)
               /\ Ends(x)' <=> Ends(x)
               /\ Closes(x)' => Closes(x) \/ x \in E
    <2>1. \A x : Establishing(x)' <=> Establishing(x)
      BY <1>7 DEF Establishing
    <2>2. \A x : Closes(x)' => Closes(x) \/ x \in E
      BY <1>2, <1>7 DEF Closes
    <2>3. \A x : Ends(x)' <=> Ends(x)
      BY <1>1 DEF Ends
    <2> QED BY <2>1, <2>2, <2>3
  <1>9. Emptied' /\ Statuses'
    BY <1>1, <1>4 DEF Emptied, Statuses
  <1>10. ASSUME NEW w \in Worker, closing[w] # None
         PROVE  closing[w].pinned /\ conns[closing[w].conn].loop = w /\ closing[w].conn \in Conn
    BY <1>10, Working DEF Causes, Places
  <1>11. Places'
    <2> SUFFICES ASSUME NEW w \in Worker, closing[w] # None
                 PROVE  conns'[closing[w].conn].loop = w /\ closing[w].pinned
      BY <1>1 DEF Places
    <2> QED BY <1>6, <1>10
  <1>12. Handled'
    BY <1>1, <1>10 DEF Handled, HandlerSafe
  <1>13. ClosedOnce'
    <2> SUFFICES ASSUME uses \cap {"hurry", "again", "closeUser"} = {}
                 PROVE  /\ \A v \in Worker : closing[v] # None =>
                              /\ closing[v].step = "call" => closing[v].conn \in bound
                              /\ Queues(closing[v].conn) => closing[v].conn \notin bound \/ closing[v].step = "return"
                        /\ \A y \in bound : Closes(y)' =>
                              /\ ~Ends(y) /\ ~Establishing(y) /\ conns'[y].status = "kDisconnected"
                              /\ \A v \in Worker : Once(wq'[v], y)
                        /\ \A y \in idle : y \in Held' => ~Ends(y) /\ ~Closes(y)'
      <3>1. UNCHANGED <<proto, uses, call, mainq, closing, idle, bound>>
        BY <1>1
      <3> QED BY <1>4, <1>8, <3>1 DEF ClosedOnce, Queues
    <2>1. /\ \A v \in Worker : closing[v] # None =>
              /\ closing[v].step = "call" => closing[v].conn \in bound
              /\ Queues(closing[v].conn) => closing[v].conn \notin bound \/ closing[v].step = "return"
          /\ \A y \in bound : Closes(y) =>
              /\ ~Ends(y) /\ ~Establishing(y) /\ conns[y].status = "kDisconnected"
              /\ \A v \in Worker : Once(wq[v], y)
          /\ \A y \in idle : y \in Held => ~Ends(y) /\ ~Closes(y)
      BY <1>4 DEF Causes, ClosedOnce
    <2>2. ASSUME NEW y \in bound, Closes(y)'
          PROVE  /\ ~Ends(y) /\ ~Establishing(y) /\ conns'[y].status = "kDisconnected"
                 /\ \A v \in Worker : Once(wq'[v], y)
      <3>1. y \in Conn
        BY <1>0 DEF Tables
      <3>2. CASE y \in E
        <4>1. y \in idle /\ y \in Held
          BY <1>2, <3>2
        <4>2. ~Ends(y) /\ ~Closes(y) /\ ~Establishing(y)
          BY <1>0, <2>1, <3>1, <4>1 DEF Order
        <4>3. \A v \in Worker : ~Has(wq[v], "close", y)
          BY <4>2 DEF Closes
        <4>4. \A v \in Worker : Once(wq[v], y)
          BY <4>3 DEF Once, Has
        <4> QED BY <1>6, <1>7, <3>1, <3>2, <4>2, <4>3, <4>4
      <3>3. CASE y \notin E
        <4>1. Closes(y)
          BY <1>8, <2>2, <3>3
        <4>2. \A v \in Worker : y \notin ExpiredAt(v)
          BY <1>2, <3>3
        <4> QED BY <1>5, <1>7, <2>1, <3>1, <3>3, <4>1, <4>2
      <3> QED BY <3>2, <3>3
    <2>3. ASSUME NEW y \in idle, y \in Held' PROVE ~Ends(y) /\ ~Closes(y)'
      BY <1>3, <1>8, <2>1, <2>3 DEF E
    <2> QED BY <2>1, <2>2, <2>3
  <1> QED BY <1>9, <1>11, <1>12, <1>13

\* A step of close() or shutdown() on another thread: its connection is accounted
\* for by the call, then by the functor.
LEMMA AppCauses ==
    ASSUME IndInv, IndInv', Causes, NEW x \in Conn, UNCHANGED udpvars, AppSteps(x)
    PROVE  Emptied' /\ Statuses' /\ Places' /\ ClosedOnce' /\ Handled'
  <1> USE DEF mainvars, udpvars
  <1>0. TypeInv /\ Lines /\ Tables /\ Order
    BY DEF IndInv
  <1>1. UNCHANGED <<proto, uses, run, todo, current, table, bound, mainq, closing, idle>>
    BY DEF AppSteps, AppChecks, AppChanges, AppQueues, AppQueuesLate
  <1>2. /\ call[x] \in {"close", "closing"} => "closeUser" \in uses
        /\ call[x] \in {"shutdown", "shutting"} => "shutdownUser" \in uses
    BY DEF Causes, Callers
  <1>3. /\ ~Establishing(x)
        /\ \A y \in Conn : y # x => call'[y] = call[y]
        /\ \/ call'[x] = call[x]
           \/ call[x] = "none"
           \/ call[x] \in {"close", "shutdown"} /\ call'[x] # "none"
                 /\ (call[x] = "close" => call'[x] = "closing")
           \/ call[x] \in {"closing", "shutting"} /\ AppQueues(x)
        /\ AppQueues(x) /\ call[x] = "closing" => Has(wq'[conns[x].loop], "close", x)
    BY AppFacts
  <1>4. /\ SameIds
        /\ \A y \in Conn : y # x => conns'[y] = conns[y]
        /\ \/ conns'[x].status = conns[x].status
           \/ /\ call[x] \in {"close", "shutdown"} /\ (call[x] = "close" => call'[x] = "closing")
              /\ \/ proto = "tcp" /\ conns'[x].status = "kDisconnecting"
                 \/ proto = "udp" /\ conns'[x].status = "kDisconnected"
    BY AppFacts
  <1>5. \A v \in Worker : \A op, y : Has(wq[v], op, y) => Has(wq'[v], op, y)
    BY AppFacts
  <1>6. \A v \in Worker : \A op, y :
           Has(wq'[v], op, y) => \/ Has(wq[v], op, y)
                                 \/ /\ y = x /\ conns[x].loop = v
                                    /\ \/ op = "close" /\ call[x] = "closing"
                                       \/ op = "shutdown" /\ call[x] = "shutting"
    BY AppFacts
  <1>7. \A v \in Worker : \A y :
           /\ Has(wq'[v], "establish", y) => Has(wq[v], "establish", y)
           /\ Has(wq'[v], "close", y) => Has(wq[v], "close", y) \/ (y = x /\ call[x] = "closing")
    BY <1>6
  <1>8. \A y : /\ Establishing(y)' <=> Establishing(y)
               /\ Ends(y)' <=> Ends(y)
               /\ Closes(y) => Closes(y)'
               /\ Closes(y)' => Closes(y) \/ (y = x /\ call[x] = "closing")
               /\ y \in Held' <=> y \in Held
    <2>1. \A y : Establishing(y)' <=> Establishing(y)
      BY <1>5, <1>7 DEF Establishing
    <2>2. \A y : /\ Closes(y) => Closes(y)'
                 /\ Closes(y)' => Closes(y) \/ (y = x /\ call[x] = "closing")
      BY <1>5, <1>7 DEF Closes
    <2> QED BY <1>1, <2>1, <2>2 DEF Ends, Held
  <1>9. (Begun' <=> Begun) /\ (Hurried' <=> Hurried) /\ (Sound' <=> Sound)
    BY <1>1 DEF Begun, Hurried, Sound
  <1>10. x \in Conn /\ conns[x].loop \in Worker
    <2>1. Made(x)
      BY AppFacts
    <2> QED BY <1>0, <2>1 DEF Tables
  <1>11. Emptied'
    <2> SUFFICES ASSUME ~Hurried, ~Begun
                 PROVE  /\ \A v \in Worker : \A op, y : Has(wq'[v], op, y) =>
                              /\ op \in {"close", "shutdown"}
                              /\ op = "close" => y \notin bound \/ "closeUser" \in uses
                        /\ \A v \in Worker : closing[v] # None =>
                              closing[v].conn \notin bound \/ "closeUser" \in uses \/ run = "joining"
                        /\ current \notin bound
      <3>1. UNCHANGED <<bound, closing, uses, run, current>>
        BY <1>1
      <3> QED BY <1>9, <3>1 DEF Emptied
    <2>1. /\ \A v \in Worker : \A op, y : Has(wq[v], op, y) =>
                /\ op \in {"close", "shutdown"}
                /\ op = "close" => y \notin bound \/ "closeUser" \in uses
          /\ \A v \in Worker : closing[v] # None =>
                closing[v].conn \notin bound \/ "closeUser" \in uses \/ run = "joining"
          /\ current \notin bound
      BY DEF Causes, Emptied
    <2>2. ASSUME NEW v \in Worker, NEW op, NEW y, Has(wq'[v], op, y)
          PROVE  /\ op \in {"close", "shutdown"}
                 /\ op = "close" => y \notin bound \/ "closeUser" \in uses
      <3>1. CASE Has(wq[v], op, y)
        BY <2>1, <3>1
      <3>2. CASE op = "close" /\ call[x] = "closing"
        BY <1>2, <3>2
      <3>3. CASE op = "shutdown"
        BY <3>3
      <3> QED BY <1>6, <2>2, <3>1, <3>2, <3>3
    <2> QED BY <2>1, <2>2
  <1>12. Statuses'
    <2> SUFFICES ASSUME proto = "tcp", NEW y \in Conn
                 PROVE  /\ idle = {}
                        /\ conns'[y].status = "kConnecting" => Establishing(y)
                        /\ conns'[y].status = "kDisconnecting" => ToClose(y)'
                        /\ conns'[y].status = "kConnected" /\ ~Hurried
                              => Begun \/ (run = "stopping" /\ y \in todo)
      BY <1>1, <1>8, <1>9 DEF Statuses
    <2>1. /\ idle = {}
          /\ conns[y].status = "kConnecting" => Establishing(y)
          /\ conns[y].status = "kDisconnecting" => ToClose(y)
          /\ conns[y].status = "kConnected" /\ ~Hurried
                => Begun \/ (run = "stopping" /\ y \in todo)
      BY DEF Causes, Statuses
    <2>2. ToClose(y) => ToClose(y)'
      <3>1. CASE y # x
        BY <1>1, <1>3, <1>8, <3>1 DEF ToClose
      <3>2. CASE y = x /\ call[x] = "closing" /\ AppQueues(x)
        BY <1>3, <1>10, <3>2 DEF ToClose, Closes
      <3>3. CASE y = x /\ ~(call[x] = "closing" /\ AppQueues(x))
        BY <1>1, <1>3, <1>8, <3>3 DEF ToClose
      <3> QED BY <3>1, <3>2, <3>3
    <2>3. CASE conns'[y].status = conns[y].status
      BY <2>1, <2>2, <2>3
    <2>4. CASE conns'[y].status # conns[y].status
      <3>1. y = x /\ conns'[x].status = "kDisconnecting"
        BY <1>4, <2>4
      <3>2. ToClose(x)'
        BY <1>1, <1>2, <1>4, <2>4, <3>1 DEF ToClose
      <3> QED BY <2>1, <3>1, <3>2
    <2> QED BY <2>3, <2>4
  <1>13. \A v \in Worker : closing[v] # None =>
            /\ closing[v].conn \in Conn /\ conns'[closing[v].conn].loop = conns[closing[v].conn].loop
            /\ conns'[closing[v].conn].key = conns[closing[v].conn].key
    BY <1>4, Working DEF SameIds
  <1>14. Places'
    BY <1>1, <1>13 DEF Causes, Places
  <1>15. ClosedOnce'
    <2> SUFFICES ASSUME uses \cap {"hurry", "again", "closeUser"} = {}
                 PROVE  /\ \A v \in Worker : closing[v] # None =>
                              /\ closing[v].step = "call" => closing[v].conn \in bound
                              /\ Queues(closing[v].conn) => closing[v].conn \notin bound \/ closing[v].step = "return"
                        /\ \A y \in bound : Closes(y)' =>
                              /\ ~Ends(y) /\ ~Establishing(y) /\ conns'[y].status = "kDisconnected" /\ proto = "udp"
                              /\ \A v \in Worker : Once(wq'[v], y)
                        /\ \A y \in idle : Begun /\ y \in Held => ~Ends(y) /\ ~Closes(y)'
      <3>1. UNCHANGED <<proto, uses, mainq, closing, bound, idle>>
        BY <1>1
      <3> QED BY <1>8, <1>9, <3>1 DEF ClosedOnce, Queues
    <2>1. /\ \A v \in Worker : closing[v] # None =>
              /\ closing[v].step = "call" => closing[v].conn \in bound
              /\ Queues(closing[v].conn) => closing[v].conn \notin bound \/ closing[v].step = "return"
          /\ \A y \in bound : Closes(y) =>
              /\ ~Ends(y) /\ ~Establishing(y) /\ conns[y].status = "kDisconnected" /\ proto = "udp"
              /\ \A v \in Worker : Once(wq[v], y)
          /\ \A y \in idle : Begun /\ y \in Held => ~Ends(y) /\ ~Closes(y)
      BY DEF Causes, ClosedOnce
    <2>2. call[x] # "closing" /\ \A y : Closes(y)' => Closes(y)
      BY <1>2, <1>8
    <2>3. \A v \in Worker : \A y : Once(wq[v], y) => Once(wq'[v], y)
      <3>1. CASE AppQueues(x)
        <4>1. Post(conns[x].loop, "shutdown", x)
          BY <2>2, <3>1 DEF AppQueues
        <4> QED BY <1>0, <1>10, <4>1, OncePosted
      <3>2. CASE wq' = wq
        BY <3>2
      <3> QED BY <3>1, <3>2 DEF AppSteps, AppChecks, AppChanges, AppQueuesLate
    <2>4. ASSUME NEW y \in bound, Closes(y)
          PROVE  conns'[y].status = "kDisconnected"
      <3>1. y \in Conn /\ conns[y].status = "kDisconnected" /\ proto = "udp"
        BY <1>0, <2>1, <2>4 DEF Tables
      <3> QED BY <1>4, <3>1
    <2> QED BY <2>1, <2>2, <2>3, <2>4
  <1>16. Handled'
    <2> SUFFICES ASSUME Sound, NEW v \in Worker, closing[v] # None, ~closing[v].pinned
                 PROVE  \/ Begun /\ table[conns[closing[v].conn].key] = closing[v].conn
                        \/ /\ run = "joining"
                           /\ Has(wq'[v], "close", closing[v].conn) \/ call'[closing[v].conn] # "none"
      <3>1. UNCHANGED <<run, table, closing>>
        BY <1>1
      <3> QED BY <1>9, <1>13, <3>1 DEF Handled, HandlerSafe, Claimed
    <2> DEFINE c == closing[v].conn
    <2>1. \/ Begun /\ table[conns[c].key] = c
          \/ run = "joining" /\ (Has(wq[v], "close", c) \/ call[c] # "none")
      BY DEF Causes, Handled, HandlerSafe, Claimed
    <2>2. c \in Conn /\ conns[c].loop = v
      BY <1>13 DEF Causes, Places
    <2> HIDE DEF c
    <2>3. call[c] # "none" => Has(wq'[v], "close", c) \/ call'[c] # "none"
      <3>1. CASE c # x
        BY <1>3, <2>2, <3>1
      <3>2. CASE c = x
        <4>1. call[x] # "shutting"
          BY <1>2 DEF Sound
        <4> QED BY <1>3, <2>2, <3>2, <4>1
      <3> QED BY <3>1, <3>2
    <2>4. Has(wq[v], "close", c) => Has(wq'[v], "close", c)
      BY <1>5
    <2> QED BY <2>1, <2>3, <2>4 DEF c
  <1> QED BY <1>11, <1>12, <1>14, <1>15, <1>16

\* What the steps do to stop()'s list and to what comes before start().
LEMMA BeginningsNext ==
    ASSUME IndInv, Causes, MCNext
    PROVE  Beginnings' /\ uses' = uses
  <1> USE DEF mainvars, udpvars, servervars
  <1>0. /\ Begun => todo = {}
        /\ run = "new" => (\A w \in Worker : wq[w] = <<>>) /\ \A x \in Conn : ~Made(x)
    BY DEF Causes, Beginnings
  <1> SUFFICES /\ uses' = uses
               /\ \/ run' \notin {"new", "running"}
                  \/ run \in {"new", "running"} /\ todo' = todo /\ run' # "new"
                  \/ run \in {"new", "running"} /\ todo' = todo /\ UNCHANGED <<run, wq, conns>>
    BY <1>0 DEF Beginnings, Begun, Made
  <1> DEFINE Good ==
               /\ uses' = uses
               /\ \/ run' \notin {"new", "running"}
                  \/ run \in {"new", "running"} /\ todo' = todo /\ run' # "new"
                  \/ run \in {"new", "running"} /\ todo' = todo /\ UNCHANGED <<run, wq, conns>>
  <1>1. CASE ServerNext
    <2>1. CASE ServerStart \/ StartFails
      BY <2>1 DEF ServerStart, StartFails
    <2>2. CASE StopBegins \/ StopClears \/ StopJoins
      BY <2>2 DEF StopBegins, StopClears, StopJoins
    <2>3. CASE \E x \in Conn : StopUnbinds(x)
      BY <2>3 DEF StopUnbinds
    <2>4. CASE RemoveConnection
      BY <2>4 DEF RemoveConnection
    <2>5. CASE StopCloses
      BY <2>5 DEF StopCloses
    <2>6. ASSUME NEW w \in Worker, Establish(w) PROVE Good
      BY <1>0, <2>6 DEF Establish, Due, IndInv, TypeInv
    <2>7. ASSUME NEW w \in Worker, RunClose(w) PROVE Good
      BY <1>0, <2>7 DEF RunClose, Due, IndInv, TypeInv
    <2>8. ASSUME NEW w \in Worker, TestCallback(w) \/ CallCallback(w) \/ HandlerReturns(w) PROVE Good
      BY <2>8 DEF TestCallback, CallCallback, HandlerReturns, IndInv, TypeInv
    <2>9. ASSUME NEW w \in Worker, RunShutdown(w) PROVE Good
      BY <1>0, <2>9 DEF RunShutdown, Due, IndInv, TypeInv
    <2>10. ASSUME NEW x \in Conn, AppSteps(x) PROVE Good
      <3>1. run # "new"
        <4>1. Made(x)
          BY <2>10, AppFacts
        <4> QED BY <1>0, <4>1
      <3>2. UNCHANGED <<uses, run, todo>>
        BY <2>10 DEF AppSteps, AppChecks, AppChanges, AppQueues, AppQueuesLate
      <3> QED BY <3>1, <3>2 DEF IndInv, TypeInv
    <2> QED BY <1>1, <2>1, <2>2, <2>3, <2>4, <2>5, <2>6, <2>7, <2>8, <2>9, <2>10 DEF ServerNext, AppSteps
  <1>2. CASE TcpNext /\ ~ServerNext
    <2>1. ASSUME NEW x \in Conn, NEW k \in Key, NEW w \in Worker, Accept(x, k, w) PROVE Good
      BY <2>1 DEF Accept, Accepts, Listening
    <2>2. CASE AcceptFails
      BY <2>2 DEF AcceptFails, Accepts, Listening
    <2>3. ASSUME NEW x \in Conn, NEW w \in Worker, TcpEnds(w, x) PROVE Good
      BY <1>0, <2>3 DEF TcpEnds, Made, IndInv, TypeInv
    <2> QED BY <1>2, <2>1, <2>2, <2>3 DEF TcpNext
  <1>3. CASE UdpNext /\ ~ServerNext
    <2>1. ASSUME NEW x \in Conn, NEW k \in Key, NEW w \in Worker, RecvNew(x, k, w) PROVE Good
      BY <2>1 DEF RecvNew, Arrives, Receiving
    <2>2. ASSUME NEW k \in Key, RecvKnown(k) PROVE Good
      BY <2>2 DEF RecvKnown, Arrives, Receiving
    <2>3. ASSUME NEW x \in Conn, TimePasses(x) PROVE Good
      BY <2>3 DEF TimePasses, IndInv, TypeInv
    <2>4. CASE CheckExpired
      BY <2>4 DEF CheckExpired, expiredChecker
    <2>5. ASSUME NEW w \in Worker, NEW x \in Conn, Reads(w, x) PROVE Good
      BY <1>0, <2>5 DEF Reads, Due, IndInv, TypeInv
    <2> QED BY <1>3, <2>1, <2>2, <2>3, <2>4, <2>5 DEF UdpNext, HandleRead, HandleReadCloses, HandleReadSends
  <1> QED BY <1>1, <1>2, <1>3 DEF MCNext

\* A connection is alive while it is in closeInLoop, unless something took it away.
LEMMA HandlerOwned ==
    ASSUME IndInv, Causes, Sound, NEW w \in Worker, closing[w] # None
    PROVE  ~Dead(closing[w].conn)
  <1> DEFINE y == closing[w].conn
  <1>0. TypeInv /\ Tables
    BY DEF IndInv
  <1>1. y \in Conn /\ Made(y) /\ conns[y].key \in Key
    BY <1>0, Working DEF Tables
  <1>2. CASE closing[w].pinned
    <2>1. Pins(y)
      BY <1>2 DEF Pins
    <2> HIDE DEF y
    <2>2. Owned(y)
      BY <1>0, <2>1, OwnedBy
    <2> QED BY <2>2 DEF Dead, y
  <1>3. CASE ~closing[w].pinned
    <2>1. table[conns[y].key] = y \/ Has(wq[w], "close", y) \/ call[y] # "none"
      BY <1>3 DEF Causes, Handled, HandlerSafe, Claimed
    <2> HIDE DEF y
    <2>2. y \in Held \/ HasAny(y) \/ call[y] # "none"
      BY <1>1, <2>1, ServerAssumption DEF Held, HasAny
    <2>3. Owned(y)
      BY <1>0, <2>2, OwnedBy
    <2> QED BY <2>3 DEF Dead, y
  <1> QED BY <1>2, <1>3

\* What ends the program.
LEMMA ReasonsNext ==
    ASSUME IndInv, Causes, Reasons, MCNext, uses' = uses
    PROVE  Reasons'
  <1> USE DEF mainvars, udpvars, servervars
  <1>0. TypeInv /\ Lines /\ Tables
    BY DEF IndInv
  <1>1. (Hurried' <=> Hurried) /\ (Sound' <=> Sound)
    BY DEF Hurried, Sound
  <1>2. ASSUME crash' \in {"none", crash} PROVE Reasons'
    BY <1>1, <1>2 DEF Reasons
  <1>3. ASSUME crash' = "abort", "limit" \in uses \/ "shutdownUser" \in uses PROVE Reasons'
    BY <1>3 DEF Reasons
  <1>4. CASE ServerNext
    <2>1. CASE ServerStart \/ StopBegins \/ StopClears \/ StopJoins \/ \E x \in Conn : StopUnbinds(x)
      BY <1>2, <2>1 DEF ServerStart, StopBegins, StopClears, StopJoins, StopUnbinds
    <2>2. CASE StartFails
      BY <1>3, <2>2 DEF StartFails
    <2>3. CASE RemoveConnection
      BY <1>2, <2>3 DEF RemoveConnection
    <2>4. CASE StopCloses
      BY <1>2, <2>4 DEF StopCloses
    <2>5. ASSUME NEW w \in Worker, Establish(w) \/ RunClose(w) PROVE Reasons'
      BY <1>2, <2>5 DEF Establish, RunClose
    <2>6. ASSUME NEW w \in Worker, TestCallback(w) \/ HandlerReturns(w) PROVE Reasons'
      <3>1. closing[w] # None /\ crash' = IF Dead(closing[w].conn) THEN "dead" ELSE "none"
        BY <2>6 DEF TestCallback, HandlerReturns
      <3>2. crash' = "none" \/ (crash' = "dead" /\ ~Sound)
        BY <3>1, HandlerOwned
      <3> QED BY <1>1, <1>2, <3>2 DEF Reasons
    <2>7. ASSUME NEW w \in Worker, CallCallback(w) PROVE Reasons'
      <3> DEFINE y == closing[w].conn
      <3>1. /\ closing[w] # None /\ closing[w].step = "call"
            /\ crash' = CASE Dead(y) -> "dead"
                          [] ~Dead(y) /\ y \notin bound -> "bad_function_call"
                          [] OTHER -> "none"
        BY <2>7 DEF CallCallback
      <3>2. uses \cap {"hurry", "again", "closeUser"} = {} => y \in bound
        BY <3>1 DEF Causes, ClosedOnce
      <3>3. Dead(y) => ~Sound
        BY <3>1, HandlerOwned
      <3> HIDE DEF y
      <3>4. \/ crash' = "none"
            \/ crash' = "dead" /\ ~Sound
            \/ crash' = "bad_function_call" /\ uses \cap {"hurry", "again", "closeUser"} # {}
        BY <3>1, <3>2, <3>3
      <3> QED BY <1>1, <1>2, <3>4 DEF Reasons
    <2>8. ASSUME NEW w \in Worker, RunShutdown(w) PROVE Reasons'
      <3>1. Due(w, "shutdown") /\ wq' = [wq EXCEPT ![w] = Tail(@)] /\ crash' \in {"none", "abort"}
        BY <2>8 DEF RunShutdown
      <3>2. Has(wq[w], "shutdown", Head(wq[w]).conn)
        BY <3>1, Executes DEF Executed
      <3>3. "shutdownUser" \in uses
        BY <3>2 DEF Causes, Callers
      <3> QED BY <1>2, <1>3, <3>1, <3>3
    <2>9. ASSUME NEW x \in Conn, AppSteps(x) PROVE Reasons'
      <3>1. CASE AppQueuesLate(x)
        <4>1. crash' = "loop" /\ call[x] \in {"closing", "shutting"}
          BY <3>1 DEF AppQueuesLate
        <4>2. "closeUser" \in uses \/ "shutdownUser" \in uses
          BY <4>1 DEF Causes, Callers
        <4> QED BY <4>1, <4>2 DEF Reasons
      <3>2. CASE ~AppQueuesLate(x)
        BY <1>2, <2>9, <3>2 DEF AppSteps, AppChecks, AppChanges, AppQueues
      <3> QED BY <3>1, <3>2
    <2> QED BY <1>4, <2>1, <2>2, <2>3, <2>4, <2>5, <2>6, <2>7, <2>8, <2>9 DEF ServerNext, AppSteps
  <1>5. CASE TcpNext /\ ~ServerNext
    <2>1. ASSUME NEW x \in Conn, NEW k \in Key, NEW w \in Worker, Accept(x, k, w) PROVE Reasons'
      BY <1>2, <2>1 DEF Accept
    <2>2. CASE AcceptFails
      BY <1>3, <2>2 DEF AcceptFails
    <2>3. ASSUME NEW x \in Conn, NEW w \in Worker, TcpEnds(w, x) PROVE Reasons'
      BY <1>2, <2>3 DEF TcpEnds
    <2> QED BY <1>5, <2>1, <2>2, <2>3 DEF TcpNext
  <1>6. CASE UdpNext /\ ~ServerNext
    <2>1. ASSUME NEW x \in Conn, NEW k \in Key, NEW w \in Worker, RecvNew(x, k, w) PROVE Reasons'
      BY <1>2, <2>1 DEF RecvNew
    <2>2. ASSUME NEW k \in Key, RecvKnown(k) PROVE Reasons'
      BY <1>2, <2>2 DEF RecvKnown
    <2>3. ASSUME NEW x \in Conn, TimePasses(x) PROVE Reasons'
      BY <1>2, <2>3 DEF TimePasses
    <2>4. CASE CheckExpired
      BY <1>2, <2>4 DEF CheckExpired
    <2>5. ASSUME NEW w \in Worker, NEW x \in Conn, HandleRead(w, x) \/ HandleReadCloses(w, x) PROVE Reasons'
      BY <1>2, <2>5 DEF HandleRead, HandleReadCloses
    <2>6. ASSUME NEW w \in Worker, NEW x \in Conn, NEW sent \in BOOLEAN, HandleReadSends(w, x, sent)
          PROVE  Reasons'
      <3>1. /\ wq[w] # <<>> /\ Head(wq[w]).op = "read"
            /\ crash' = "none" \/ (crash' = "descriptor" /\ ~Receiving)
        BY <2>6 DEF HandleReadSends, Reads, Due
      <3>2. ASSUME ~Hurried PROVE Receiving
        <4> DEFINE z == Head(wq[w]).conn
        <4>1. wq[w] \in Seq(Functor)
          BY <1>0 DEF TypeInv
        <4>2. Has(wq[w], Head(wq[w]).op, z)
          BY <3>1, <4>1, HasTail
        <4>3. Has(wq[w], "read", z)
          BY <3>1, <4>2
        <4>4. Begun
          <5> HIDE DEF z
          <5> QED BY <3>2, <4>3, ReadsBefore DEF Causes
        <4>5. run # "new"
          BY <3>1 DEF Causes, Beginnings
        <4> QED BY <4>4, <4>5 DEF Begun, Receiving
      <3> QED BY <1>1, <1>2, <3>1, <3>2 DEF Reasons
    <2> QED BY <1>6, <2>1, <2>2, <2>3, <2>4, <2>5, <2>6 DEF UdpNext
  <1> QED BY <1>4, <1>5, <1>6 DEF MCNext

\* Functors of shutdown() come from shutdown() only.
LEMMA CallersNext ==
    ASSUME IndInv, Causes, MCNext
    PROVE  Callers'
  <1> USE DEF mainvars, udpvars, servervars
  <1>0. TypeInv /\ Lines /\ Tables
    BY DEF IndInv
  <1> DEFINE Kept == /\ UNCHANGED <<uses, call>>
                     /\ \A v \in Worker : \A y : Has(wq'[v], "shutdown", y) => Has(wq[v], "shutdown", y)
  <1>1. ASSUME Kept PROVE Callers'
    BY <1>1 DEF Causes, Callers
  <1>2. ASSUME UNCHANGED <<uses, call, wq>> PROVE Kept
    BY <1>2
  <1>3. ASSUME NEW w \in Worker, NEW op, Due(w, op), wq' = [wq EXCEPT ![w] = Tail(@)], UNCHANGED <<uses, call>>
        PROVE  Kept
    BY <1>3, Executes DEF Executed
  <1>4. ASSUME NEW w \in Worker, NEW o \in {"close", "read"}, NEW y \in Conn, Post(w, o, y),
               UNCHANGED <<uses, call>>
        PROVE  Kept
    <2>1. CASE o = "close"
      <3>1. Post(w, "close", y)
        BY <1>4, <2>1
      <3>2. \A v \in Worker : \A op, x :
               Has(wq'[v], op, x) <=> Has(wq[v], op, x) \/ (v = w /\ op = "close" /\ x = y)
        BY <1>0, <3>1, Posted
      <3> QED BY <1>4, <3>2
    <2>2. CASE o = "read"
      <3>1. Post(w, "read", y)
        BY <1>4, <2>2
      <3>2. \A v \in Worker : \A op, x :
               Has(wq'[v], op, x) <=> Has(wq[v], op, x) \/ (v = w /\ op = "read" /\ x = y)
        BY <1>0, <3>1, Posted
      <3> QED BY <1>4, <3>2
    <2> QED BY <2>1, <2>2
  <1>5. ASSUME NEW x \in Conn, NEW k \in Key, NEW w \in Worker, NEW then \in Seq(Functor),
               \A y : ~Has(then, "shutdown", y), NewConnection(x, k, w, then), UNCHANGED <<uses, call>>
        PROVE  Kept
    <2> DEFINE est == [op |-> "establish", conn |-> x]
    <2> DEFINE q == wq[w]
    <2> DEFINE r == q \o <<est>> \o then
    <2>1. est \in Functor /\ est.op = "establish"
      BY DEF Functor
    <2>2. q \in Seq(Functor) /\ \A v \in Worker : wq'[v] = IF v = w THEN r ELSE wq[v]
      BY <1>0, <1>5 DEF TypeInv, NewConnection
    <2> HIDE DEF est, q
    <2>3. <<est>> \in Seq(Functor) /\ \A y : ~Has(<<est>>, "shutdown", y)
      BY <2>1, HasOne
    <2>4. q \o <<est>> \in Seq(Functor) /\ \A y : Has(q \o <<est>>, "shutdown", y) => Has(q, "shutdown", y)
      BY <2>2, <2>3, HasConcat
    <2>5. \A y : Has(r, "shutdown", y) => Has(q, "shutdown", y)
      BY <1>5, <2>4, HasConcat
    <2> HIDE DEF r
    <2> QED BY <1>5, <2>2, <2>5 DEF q
  <1> HIDE DEF Kept
  <1>6. CASE ServerNext
    <2>1. CASE \/ ServerStart \/ StartFails \/ StopBegins \/ StopClears \/ StopJoins \/ RemoveConnection
               \/ \E x \in Conn : StopUnbinds(x)
      BY <1>1, <1>2, <2>1 DEF ServerStart, StartFails, StopBegins, StopClears, StopJoins,
         RemoveConnection, StopUnbinds
    <2>2. CASE StopCloses
      <3>1. CASE wq' = wq
        BY <1>1, <1>2, <2>2, <3>1 DEF StopCloses
      <3>2. CASE wq' # wq
        <4>1. Post(conns[current].loop, "close", current) /\ current # None /\ UNCHANGED <<uses, call>>
          BY <2>2, <3>2 DEF StopCloses
        <4>2. current \in Conn /\ conns[current].loop \in Worker
          BY <1>0, <4>1 DEF TypeInv, Tables
        <4> QED BY <1>1, <1>4, <4>1, <4>2
      <3> QED BY <3>1, <3>2
    <2>3. ASSUME NEW w \in Worker, Establish(w) \/ RunClose(w) \/ RunShutdown(w) PROVE Callers'
      BY <1>1, <1>3, <2>3 DEF Establish, RunClose, RunShutdown
    <2>4. ASSUME NEW w \in Worker, TestCallback(w) \/ CallCallback(w) \/ HandlerReturns(w) PROVE Callers'
      BY <1>1, <1>2, <2>4 DEF TestCallback, CallCallback, HandlerReturns
    <2>5. ASSUME NEW x \in Conn, AppSteps(x) PROVE Callers'
      <3>1. /\ \A v \in Worker : \A op, y :
                 Has(wq'[v], op, y) => \/ Has(wq[v], op, y)
                                       \/ /\ y = x /\ conns[x].loop = v
                                          /\ \/ op = "close" /\ call[x] = "closing"
                                             \/ op = "shutdown" /\ call[x] = "shutting"
            /\ \A y \in Conn : y # x => call'[y] = call[y]
        BY <2>5, AppFacts
      <3>2. uses' = uses
        BY <2>5 DEF AppSteps, AppChecks, AppChanges, AppQueues, AppQueuesLate
      <3>3. \A v \in Worker : \A y : Has(wq'[v], "shutdown", y) =>
               Has(wq[v], "shutdown", y) \/ call[x] = "shutting"
        BY <3>1
      <3>4. /\ call'[x] \in {"close", "closing"} => "closeUser" \in uses
            /\ call'[x] \in {"shutdown", "shutting"} => "shutdownUser" \in uses
        <4>1. call \in [Conn -> Calls]
          BY <1>0 DEF TypeInv
        <4>2. /\ call[x] \in {"close", "closing"} => "closeUser" \in uses
              /\ call[x] \in {"shutdown", "shutting"} => "shutdownUser" \in uses
          BY DEF Causes, Callers
        <4>3. CASE \E which \in {"close", "shutdown"} : AppChecks(x, which)
          BY <4>1, <4>3 DEF AppChecks
        <4>4. CASE AppChanges(x)
          BY <4>1, <4>2, <4>4 DEF AppChanges
        <4>5. CASE AppQueues(x)
          BY <4>1, <4>5 DEF AppQueues
        <4>6. CASE AppQueuesLate(x)
          BY <4>2, <4>6 DEF AppQueuesLate
        <4> QED BY <2>5, <4>3, <4>4, <4>5, <4>6 DEF AppSteps
      <3> QED BY <3>1, <3>2, <3>3, <3>4 DEF Causes, Callers
    <2> QED BY <1>6, <2>1, <2>2, <2>3, <2>4, <2>5 DEF ServerNext, AppSteps
  <1>7. CASE TcpNext /\ ~ServerNext
    <2>1. ASSUME NEW x \in Conn, NEW k \in Key, NEW w \in Worker, Accept(x, k, w) PROVE Callers'
      <3>1. <<>> \in Seq(Functor) /\ \A y : ~Has(<<>>, "shutdown", y)
        BY DEF Has
      <3> QED BY <1>1, <1>5, <2>1, <3>1 DEF Accept
    <2>2. CASE AcceptFails
      BY <1>1, <1>2, <2>2 DEF AcceptFails
    <2>3. ASSUME NEW x \in Conn, NEW w \in Worker, TcpEnds(w, x) PROVE Callers'
      BY <1>1, <1>2, <2>3 DEF TcpEnds
    <2> QED BY <1>7, <2>1, <2>2, <2>3 DEF TcpNext
  <1>8. CASE UdpNext /\ ~ServerNext
    <2>1. ASSUME NEW x \in Conn, NEW k \in Key, NEW w \in Worker, RecvNew(x, k, w) PROVE Callers'
      <3> DEFINE f == [op |-> "read", conn |-> x]
      <3>1. f \in Functor /\ f.op = "read"
        BY DEF Functor
      <3>2. NewConnection(x, k, w, <<f>>) /\ UNCHANGED <<uses, call>>
        BY <2>1 DEF RecvNew
      <3> HIDE DEF f
      <3>3. <<f>> \in Seq(Functor) /\ \A y : ~Has(<<f>>, "shutdown", y)
        BY <3>1, HasOne
      <3> QED BY <1>1, <1>5, <3>2, <3>3
    <2>2. ASSUME NEW k \in Key, RecvKnown(k) PROVE Callers'
      <3>1. table[k] # None /\ Post(conns[table[k]].loop, "read", table[k]) /\ UNCHANGED <<uses, call>>
        BY <2>2 DEF RecvKnown
      <3>2. table[k] \in Conn /\ conns[table[k]].loop \in Worker
        BY <1>0, <3>1 DEF TypeInv, Tables
      <3> QED BY <1>1, <1>4, <3>1, <3>2
    <2>3. ASSUME NEW x \in Conn, TimePasses(x) PROVE Callers'
      BY <1>1, <1>2, <2>3 DEF TimePasses
    <2>4. CASE CheckExpired
      <3>1. /\ wq' = [w \in Worker |-> wq[w] \o CloseAll(ExpiredAt(w))]
            /\ UNCHANGED <<uses, call>>
        BY <2>4 DEF CheckExpired, CloseAll, ExpiredAt
      <3>2. ASSUME NEW w \in Worker, NEW y, Has(wq'[w], "shutdown", y) PROVE Has(wq[w], "shutdown", y)
        <4> DEFINE D == ExpiredAt(w)
        <4> DEFINE s == CloseAll(D)
        <4>1. D \in SUBSET Conn /\ IsFiniteSet(D)
          BY <1>0, Expired
        <4>2. wq[w] \in Seq(Functor) /\ wq'[w] = wq[w] \o s
          BY <1>0, <3>1 DEF TypeInv
        <4> HIDE DEF D
        <4>3. s \in Seq(Functor) /\ ~Has(s, "shutdown", y)
          BY <4>1, ClosesAll
        <4> HIDE DEF s
        <4> QED BY <3>2, <4>2, <4>3, HasConcat
      <3> QED BY <1>1, <3>1, <3>2 DEF Kept
    <2>5. ASSUME NEW w \in Worker, NEW x \in Conn,
                 \/ HandleRead(w, x) \/ HandleReadCloses(w, x)
                 \/ \E sent \in BOOLEAN : HandleReadSends(w, x, sent)
          PROVE  Callers'
      <3>1. Reads(w, x)
        BY <2>5 DEF HandleRead, HandleReadCloses, HandleReadSends
      <3> QED BY <1>1, <1>3, <3>1 DEF Reads
    <2> QED BY <1>8, <2>1, <2>2, <2>3, <2>4, <2>5 DEF UdpNext
  <1> QED BY <1>6, <1>7, <1>8 DEF MCNext

\* Nothing has happened in the beginning.
LEMMA InitCauses ==
    ASSUME MCInit
    PROVE  Causes /\ Reasons
  <1>1. /\ run = "new" /\ todo = {} /\ crash = "none" /\ bound = {} /\ idle = {}
        /\ conns = [x \in Conn |-> [status |-> "none", key |-> None, loop |-> None]]
        /\ wq = [w \in Worker |-> <<>>] /\ closing = [w \in Worker |-> None]
        /\ call = [x \in Conn |-> "none"]
    BY DEF MCInit, TcpInit, ServerInit, UdpInit
  <1>2. /\ \A x \in Conn : conns[x].status = "none" /\ call[x] = "none"
        /\ \A w \in Worker : wq[w] = <<>> /\ closing[w] = None
    BY <1>1
  <1>3. Beginnings /\ Emptied
    BY <1>1, <1>2 DEF Beginnings, Emptied, Begun, Made
  <1>4. Statuses
    BY <1>1, <1>2 DEF Statuses
  <1>5. Places /\ Handled
    BY <1>2 DEF Places, Handled, HandlerSafe
  <1>6. ClosedOnce
    BY <1>1, <1>2 DEF ClosedOnce
  <1>7. Callers
    BY <1>2 DEF Callers, Has
  <1>8. Reasons
    BY <1>1 DEF Reasons
  <1> QED BY <1>3, <1>4, <1>5, <1>6, <1>7, <1>8 DEF Causes

\* At most one thing happens that the code does not expect.
LEMMA InitOneUse ==
    ASSUME MCInit
    PROVE  OneUse
  <1>1. uses \in SUBSET Uses /\ Cardinality(uses) <= 1
    BY DEF MCInit, TcpInit, ServerInit, UsesOf
  <1>2. IsFiniteSet(Use)
    <2>1. \A S, x : IsFiniteSet(S) => IsFiniteSet(S \cup {x})
      BY FS_AddElement
    <2> DEFINE three == {"hurry"} \cup {"reuse"} \cup {"again"}
    <2>2. IsFiniteSet({"hurry"})
      BY FS_Singleton
    <2>3. IsFiniteSet({"hurry"} \cup {"reuse"})
      BY <2>1, <2>2
    <2>4. IsFiniteSet(three)
      BY <2>1, <2>3
    <2> HIDE DEF three
    <2>5. IsFiniteSet(three \cup {"overtake"})
      BY <2>1, <2>4
    <2> DEFINE four == three \cup {"overtake"}
    <2> HIDE DEF four
    <2>6. IsFiniteSet(four \cup {"limit"})
      BY <2>1, <2>5 DEF four
    <2>7. IsFiniteSet(four \cup {"limit"} \cup {"closeUser"})
      BY <2>1, <2>6
    <2>8. IsFiniteSet(four \cup {"limit"} \cup {"closeUser"} \cup {"shutdownUser"})
      BY <2>1, <2>7
    <2>9. Use = four \cup {"limit"} \cup {"closeUser"} \cup {"shutdownUser"}
      BY DEF Use, three, four
    <2> QED BY <2>8, <2>9
  <1>3. uses \in SUBSET Use
    BY <1>1, ServerAssumption
  <1>4. IsFiniteSet(uses)
    BY <1>2, <1>3, FS_Subset
  <1>5. Cardinality(uses) \in Nat
    BY <1>4, FS_CardinalityType
  <1>6. Cardinality(uses) = 0 \/ Cardinality(uses) = 1
    BY <1>1, <1>5
  <1>7. uses = {} \/ \E u : uses = {u}
    BY <1>4, <1>6, FS_EmptySet, FS_Singleton
  <1> QED BY <1>7 DEF OneUse

\* No step breaks most of the second invariant,
LEMMA MostCauses ==
    ASSUME IndInv, IndInv', Causes, OneUse, MCNext
    PROVE  Emptied' /\ Statuses' /\ Places' /\ ClosedOnce' /\ Handled'
  <1> DEFINE Rest == Emptied' /\ Statuses' /\ Places' /\ ClosedOnce' /\ Handled'
  <1>1. CASE ServerNext /\ UNCHANGED udpvars
    <2>1. CASE ServerStart \/ StartFails \/ StopBegins \/ StopClears \/ StopJoins
               \/ \E x \in Conn : StopUnbinds(x)
      <3>1. Quietly /\ UNCHANGED udpvars
        BY <1>1, <2>1 DEF Quietly
      <3> QED BY <3>1, QuietlyCauses
    <2>2. CASE RemoveConnection
      BY <1>1, <2>2, RemoveCauses
    <2>3. CASE StopCloses
      BY <1>1, <2>3, StopClosesCauses
    <2>4. ASSUME NEW w \in Worker, Establish(w) PROVE Rest
      BY <1>1, <2>4, EstablishCauses
    <2>5. ASSUME NEW w \in Worker, RunClose(w) PROVE Rest
      <3>1. PICK x \in Conn : TRUE
        <4>1. TypeInv /\ wq[w] # <<>>
          BY <2>5 DEF IndInv, RunClose, Due
        <4>2. Head(wq[w]) \in Functor
          BY <4>1 DEF TypeInv
        <4> QED BY <4>2 DEF Functor
      <3> QED BY <1>1, <2>5, <3>1, EndsCauses
    <2>6. ASSUME NEW w \in Worker, TestCallback(w) \/ CallCallback(w) \/ HandlerReturns(w)
          PROVE  Rest
      BY <1>1, <2>6, CallbackCauses
    <2>7. ASSUME NEW w \in Worker, RunShutdown(w) PROVE Rest
      BY <1>1, <2>7, ShutdownCauses
    <2>8. ASSUME NEW x \in Conn, AppSteps(x) PROVE Rest
      BY <1>1, <2>8, AppCauses
    <2> QED BY <1>1, <2>1, <2>2, <2>3, <2>4, <2>5, <2>6, <2>7, <2>8 DEF ServerNext, AppSteps
  <1>2. CASE proto = "tcp" /\ TcpNext /\ UNCHANGED udpvars
    <2>1. ASSUME NEW x \in Conn, NEW k \in Key, NEW w \in Worker, Accept(x, k, w) PROVE Rest
      BY <1>2, <2>1, BeginsCauses
    <2>2. CASE AcceptFails
      <3>1. Quietly /\ UNCHANGED udpvars
        BY <1>2, <2>2 DEF Quietly
      <3> QED BY <3>1, QuietlyCauses
    <2>3. ASSUME NEW x \in Conn, NEW w \in Worker, TcpEnds(w, x) PROVE Rest
      BY <1>2, <2>3, EndsCauses
    <2> QED BY <1>1, <1>2, <2>1, <2>2, <2>3 DEF TcpNext
  <1>3. CASE proto = "udp" /\ UdpNext
    <2>1. ASSUME NEW x \in Conn, NEW k \in Key, NEW w \in Worker, RecvNew(x, k, w) PROVE Rest
      BY <2>1, BeginsCauses
    <2>2. ASSUME NEW k \in Key, RecvKnown(k) PROVE Rest
      BY <1>3, <2>2, RecvKnownCauses
    <2>3. CASE \E x \in Conn : TimePasses(x)
      BY <1>3, <2>3, QuietlyCauses
    <2>4. CASE CheckExpired
      BY <1>3, <2>4, CheckExpiredCauses
    <2>5. ASSUME NEW w \in Worker, NEW x \in Conn,
                 HandleRead(w, x) \/ \E sent \in BOOLEAN : HandleReadSends(w, x, sent)
          PROVE  Rest
      BY <1>3, <2>5, ReadCauses
    <2>6. ASSUME NEW w \in Worker, NEW x \in Conn, HandleReadCloses(w, x) PROVE Rest
      BY <1>3, <2>6, EndsCauses
    <2> QED BY <1>1, <1>3, <2>1, <2>2, <2>3, <2>4, <2>5, <2>6 DEF UdpNext
  <1> QED BY <1>2, <1>3 DEF MCNext

\* or the rest of it.
LEMMA NextCauses ==
    ASSUME IndInv, IndInv', Causes, Reasons, OneUse, [MCNext]_allvars
    PROVE  Causes' /\ Reasons' /\ OneUse'
  <1>1. CASE MCNext
    <2>1. Emptied' /\ Statuses' /\ Places' /\ ClosedOnce' /\ Handled'
      BY <1>1, MostCauses
    <2>2. Beginnings' /\ uses' = uses
      BY <1>1, BeginningsNext
    <2>3. Reasons'
      BY <1>1, <2>2, ReasonsNext
    <2>4. OneUse' /\ Callers'
      BY <1>1, <2>2, CallersNext DEF OneUse
    <2> QED BY <2>1, <2>2, <2>3, <2>4 DEF Causes
  <1>2. CASE UNCHANGED allvars
    <2>1. UNCHANGED <<proto, uses, call, run, todo, current, table, conns, bound, mainq, wq, closing,
                      crash, idle>>
      BY <1>2 DEF allvars, servervars, udpvars
    <2>2. /\ Beginnings /\ Emptied /\ Statuses /\ Places /\ ClosedOnce /\ Handled /\ Callers
          /\ (Begun' <=> Begun) /\ (Hurried' <=> Hurried) /\ (Sound' <=> Sound)
      BY <2>1 DEF Causes, Begun, Hurried, Sound
    <2>3. \A x : /\ Establishing(x)' <=> Establishing(x)
                 /\ Ends(x)' <=> Ends(x)
                 /\ Closes(x)' <=> Closes(x)
                 /\ Queues(x)' <=> Queues(x)
                 /\ ToClose(x)' <=> ToClose(x)
                 /\ x \in Held' <=> x \in Held
      BY <2>1 DEF Establishing, Ends, Closes, Queues, Held, ToClose
    <2>4. Beginnings' /\ Places' /\ Callers'
      BY <2>1, <2>2 DEF Beginnings, Places, Callers, Made
    <2>5. Emptied'
      BY <2>1, <2>2 DEF Emptied
    <2>6. Statuses'
      BY <2>1, <2>2, <2>3 DEF Statuses
    <2>7. ClosedOnce'
      BY <2>1, <2>2, <2>3 DEF ClosedOnce, Queues
    <2>8. Handled'
      BY <2>1, <2>2 DEF Handled, HandlerSafe, Claimed
    <2>9. Reasons' /\ OneUse'
      BY <2>1, <2>2 DEF Reasons, OneUse
    <2> QED BY <2>4, <2>5, <2>6, <2>7, <2>8, <2>9 DEF Causes
  <1> QED BY <1>1, <1>2

\* A TcpConnection that dies has been closed, unless something took it away.
LEMMA NoBadDeath ==
    ASSUME IndInv, Causes, Sound, NEW x \in Conn
    PROVE  ~BadDeath(x)
  <1> SUFFICES ASSUME proto = "tcp", Made(x), ~Owned(x), conns[x].status # "kDisconnected"
               PROVE  FALSE
    BY DEF BadDeath, Dead, Made
  <1>0. TypeInv /\ Tables /\ Listed
    BY DEF IndInv
  <1>1. ~(x \in Held) /\ x \notin todo /\ ~HasAny(x) /\ call[x] = "none"
    BY <1>0, OwnedBy
  <1>2. ~Establishing(x) /\ ~Closes(x)
    BY <1>1 DEF Establishing, Closes, HasAny
  <1>3. ~Hurried /\ "reuse" \notin uses
    BY DEF Sound, Hurried
  <1>4. conns[x].status = "kConnected"
    BY <1>0, <1>1, <1>2 DEF Causes, Statuses, ToClose, Sound, TypeInv, Status, Made
  <1>5. Begun
    BY <1>1, <1>3, <1>4 DEF Causes, Statuses
  <1>6. table[conns[x].key] = x /\ conns[x].key \in Key
    BY <1>0, <1>3, <1>4, <1>5 DEF Listed, Lasts, Begun, Tables
  <1> QED BY <1>1, <1>6, ServerAssumption DEF Held

\* Neither server ends the program, or lets a connection die, but for the reasons
\* that are listed: the callback of a connection that has none, the descriptor of a
\* socket that is closed, an assertion in ~TcpConnection or ~IOFd, a FATAL log line
\* and a functor for a loop that is gone each need the use that leads to them, close()
\* and shutdown() on another thread among these (IOFd::handleEvent,
\* TcpConnection::close, shutdown and closeInLoop, Server::unbindDefaultCallbacks,
\* UdpConnection::handleWriteInLoop, Socket::accept and shutdown).
THEOREM CrashesAreKnown == MCSpec => []OnlyKnownCrashes
  <1> DEFINE Both == IndInv /\ Causes /\ Reasons /\ OneUse
  <1>1. MCInit => Both
    BY InitInv, InitCauses, InitOneUse
  <1>2. Both /\ [MCNext]_allvars => Both'
    BY NextInv, NextCauses
  <1>3. Both => OnlyKnownCrashes
    <2> SUFFICES ASSUME IndInv, Causes, Reasons, OneUse PROVE OnlyKnownCrashes
      OBVIOUS
    <2>1. (\E x \in Conn : BadDeath(x)) => ~Sound
      BY NoBadDeath
    <2>2. crash = "descriptor" => uses = {"hurry"}
      BY DEF Reasons, Hurried, OneUse
    <2>3. crash = "bad_function_call" => uses # {} /\ uses \subseteq {"hurry", "again", "closeUser"}
      BY DEF Reasons, OneUse
    <2>4. (crash = "dead" \/ \E x \in Conn : BadDeath(x))
              => uses # {} /\ uses \subseteq {"hurry", "reuse", "overtake", "shutdownUser"}
      BY <2>1 DEF Reasons, Sound, OneUse
    <2>5. /\ crash = "abort" => uses # {} /\ uses \subseteq {"limit", "shutdownUser"}
          /\ crash = "loop" => uses # {} /\ uses \subseteq {"closeUser", "shutdownUser"}
      BY DEF Reasons, OneUse
    <2>6. ~Ok => uses # {}
      BY <2>2, <2>3, <2>4, <2>5 DEF Ok, Reasons
    <2> QED BY <2>2, <2>3, <2>4, <2>5, <2>6 DEF OnlyKnownCrashes
  <1> QED BY <1>1, <1>2, <1>3, PTL DEF MCSpec
=============================================================================
