------------------------------ MODULE PartsProofs ------------------------------
(***************************************************************************)
(* The thread pool loses no wakeup, for any tasks and numbers of workers;  *)
(* the buffer's indices stay in order and its content is a queue of bytes, *)
(* for bytes, integers and a buffer of any size; the logger keeps the      *)
(* lines in order, for any lines and buffers of any size; the pipeline     *)
(* hands on whole payloads in order, for any payloads that fit the header. *)
(***************************************************************************)
EXTENDS Pipeline, AsyncLogger, ThreadPool, FiniteSetTheorems, SequenceTheorems, TLAPS

-----------------------------------------------------------------------------
(* ThreadPool *)

State == {"begin", "waiting", "woken", "running", "done"}

PoolTypeInv ==
    /\ poolStop \in BOOLEAN
    /\ tasks \in Seq(PoolTask)
    /\ worker \in Seq(State)
    /\ toStart \in Nat

PoolInv == PoolTypeInv /\ NoLostWakeup

Awake == In({"begin", "woken"})
Idle == In({"begin", "woken", "waiting"})

\* The workers in some states are finitely many.
LEMMA InFinite ==
    ASSUME PoolTypeInv
    PROVE  /\ DOMAIN worker = 1..Len(worker) /\ Len(worker) \in Nat
           /\ \A states : In(states) \subseteq 1..Len(worker) /\ IsFiniteSet(In(states))
  <1>1. DOMAIN worker = 1..Len(worker) /\ Len(worker) \in Nat
    BY DEF PoolTypeInv
  <1>2. IsFiniteSet(1..Len(worker))
    BY <1>1, FS_Interval
  <1>3. \A states : In(states) \in SUBSET (1..Len(worker))
    BY <1>1 DEF In
  <1> QED BY <1>1, <1>2, <1>3, FS_Subset

\* Counts of the workers that are awake and of those that had no task yet.
LEMMA Counts ==
    ASSUME PoolTypeInv
    PROVE  /\ IsFiniteSet(Awake) /\ IsFiniteSet(Idle) /\ Awake \subseteq Idle
           /\ Cardinality(Awake) \in Nat /\ Cardinality(Idle) \in Nat
           /\ Cardinality(Awake) <= Cardinality(Idle)
           /\ Cardinality(Awake) = Cardinality(Idle) <=> In({"waiting"}) = {}
  <1>1. IsFiniteSet(Awake) /\ IsFiniteSet(Idle)
    BY InFinite DEF Awake, Idle
  <1>2. Awake \in SUBSET Idle
    BY DEF Awake, Idle, In
  <1>3. Cardinality(Awake) \in Nat /\ Cardinality(Idle) \in Nat
    BY <1>1, FS_CardinalityType
  <1>4. /\ Cardinality(Awake) <= Cardinality(Idle)
        /\ Cardinality(Awake) = Cardinality(Idle) => Awake = Idle
    BY <1>1, <1>2, FS_Subset
  <1>5. Awake = Idle <=> In({"waiting"}) = {}
    BY DEF Awake, Idle, In
  <1> QED BY <1>1, <1>2, <1>3, <1>4, <1>5

\* One worker changes its state.
LEMMA WorkerMoves ==
    ASSUME PoolTypeInv, NEW w \in DOMAIN worker, NEW st \in State,
           worker' = [worker EXCEPT ![w] = st]
    PROVE  /\ worker' \in Seq(State)
           /\ Awake' = IF st \in {"begin", "woken"} THEN Awake \cup {w} ELSE Awake \ {w}
           /\ Idle' = IF st \in {"begin", "woken", "waiting"} THEN Idle \cup {w} ELSE Idle \ {w}
  <1>1. DOMAIN worker = 1..Len(worker) /\ worker \in Seq(State)
    BY DEF PoolTypeInv
  <1>2. worker' \in Seq(State) /\ DOMAIN worker' = DOMAIN worker
    BY <1>1
  <1>3. \A v \in DOMAIN worker : worker'[v] = IF v = w THEN st ELSE worker[v]
    BY <1>1
  <1>4. Awake' = IF st \in {"begin", "woken"} THEN Awake \cup {w} ELSE Awake \ {w}
    BY <1>2, <1>3 DEF Awake, In
  <1>5. Idle' = IF st \in {"begin", "woken", "waiting"} THEN Idle \cup {w} ELSE Idle \ {w}
    BY <1>2, <1>3 DEF Idle, In
  <1> QED BY <1>2, <1>4, <1>5

\* The property, in the terms of the lemmas.
LEMMA WakeupDef ==
    NoLostWakeup <=>
        (~poolStop => Cardinality(Awake) >= Len(tasks) \/ Cardinality(Awake) = Cardinality(Idle))
  BY DEF NoLostWakeup, Awake, Idle

\* run() pushes a task and notifies a worker that waits.
LEMMA RunPushesInv ==
    ASSUME PoolInv, NEW t \in PoolTask, RunPushes(t)
    PROVE  PoolInv'
  <1>0. PoolTypeInv /\ NoLostWakeup
    BY DEF PoolInv
  <1>1. /\ UNCHANGED <<poolStop, toStart>> /\ tasks' = Append(tasks, t)
        /\ tasks' \in Seq(PoolTask) /\ Len(tasks') = Len(tasks) + 1 /\ Len(tasks) \in Nat
    BY <1>0 DEF RunPushes, PoolTypeInv
  <1>2. CASE In({"waiting"}) = {} /\ UNCHANGED worker
    <2>1. Awake' = Awake /\ Idle' = Idle
      BY <1>2 DEF Awake, Idle, In
    <2>2. Cardinality(Awake) = Cardinality(Idle)
      BY <1>0, <1>2, Counts
    <2>3. PoolTypeInv'
      BY <1>0, <1>1, <1>2 DEF PoolTypeInv
    <2>4. NoLostWakeup'
      BY <2>1, <2>2 DEF NoLostWakeup, Awake, Idle
    <2> QED BY <2>3, <2>4 DEF PoolInv
  <1>3. ASSUME NEW w \in In({"waiting"}), worker' = [worker EXCEPT ![w] = "woken"]
        PROVE  PoolInv'
    <2>1. w \in DOMAIN worker /\ worker[w] = "waiting"
      BY <1>3 DEF In
    <2>2. worker' \in Seq(State) /\ Awake' = Awake \cup {w} /\ Idle' = Idle \cup {w}
      <3>1. "woken" \in State
        BY DEF State
      <3> QED BY <1>0, <1>3, <2>1, <3>1, WorkerMoves
    <2>3. w \notin Awake /\ w \in Idle
      BY <2>1 DEF Awake, Idle, In
    <2>4. Idle' = Idle
      BY <2>2, <2>3
    <2>5. Cardinality(Awake') = Cardinality(Awake) + 1
      BY <1>0, <2>2, <2>3, Counts, FS_AddElement
    <2>6. ~poolStop => Cardinality(Awake) >= Len(tasks)
      BY <1>0, <1>3, Counts DEF NoLostWakeup, Awake, Idle
    <2>7. ~poolStop' => Cardinality(Awake') >= Len(tasks')
      BY <1>0, <1>1, <2>5, <2>6, Counts
    <2>8. NoLostWakeup'
      BY <2>7 DEF NoLostWakeup, Awake, Idle
    <2>9. PoolTypeInv'
      BY <1>0, <1>1, <2>2 DEF PoolTypeInv
    <2> QED BY <2>8, <2>9 DEF PoolInv
  <1> QED BY <1>2, <1>3 DEF RunPushes, NotifyOne

\* A worker ends, takes a task or waits.
LEMMA WorkInv ==
    ASSUME PoolInv, NEW w \in DOMAIN worker, Work(w)
    PROVE  PoolInv'
  <1>0. PoolTypeInv /\ NoLostWakeup
    BY DEF PoolInv
  <1>1. UNCHANGED <<poolStop, toStart>> /\ worker[w] \in {"begin", "woken", "waiting"}
    BY DEF Work
  <1>2. w \in Idle /\ (w \in Awake <=> worker[w] # "waiting")
    BY <1>1 DEF Idle, Awake, In
  <1>3. {"begin", "waiting", "woken", "running", "done"} = State
    BY DEF State
  <1>4. CASE poolStop /\ worker' = [worker EXCEPT ![w] = "done"] /\ UNCHANGED tasks
    <2>1. worker' \in Seq(State)
      BY <1>0, <1>3, <1>4, WorkerMoves
    <2> QED BY <1>0, <1>1, <1>4, <2>1 DEF PoolInv, PoolTypeInv, NoLostWakeup
  <1>5. CASE /\ ~poolStop /\ tasks # <<>> /\ worker' = [worker EXCEPT ![w] = "running"]
             /\ tasks' = Tail(tasks)
    <2>1. worker' \in Seq(State) /\ Awake' = Awake \ {w} /\ Idle' = Idle \ {w}
      BY <1>0, <1>3, <1>5, WorkerMoves
    <2>2. tasks' \in Seq(PoolTask) /\ Len(tasks') = Len(tasks) - 1 /\ Len(tasks) \in Nat
      BY <1>0, <1>5 DEF PoolTypeInv
    <2>3. /\ Cardinality(Idle') = Cardinality(Idle) - 1
          /\ Cardinality(Awake') = IF w \in Awake THEN Cardinality(Awake) - 1 ELSE Cardinality(Awake)
      BY <1>0, <1>2, <2>1, Counts, FS_RemoveElement
    <2>4. w \notin Awake => In({"waiting"}) # {}
      BY <1>2 DEF In
    <2>5. Cardinality(Awake) >= Len(tasks) \/ Cardinality(Awake) = Cardinality(Idle)
      BY <1>0, <1>5 DEF NoLostWakeup, Awake, Idle
    <2>6. Cardinality(Awake') >= Len(tasks') \/ Cardinality(Awake') = Cardinality(Idle')
      BY <1>0, <2>2, <2>3, <2>4, <2>5, Counts
    <2>7. NoLostWakeup'
      BY <2>6 DEF NoLostWakeup, Awake, Idle
    <2> QED BY <1>0, <1>1, <2>1, <2>2, <2>7 DEF PoolInv, PoolTypeInv
  <1>6. CASE ~poolStop /\ tasks = <<>> /\ worker' = [worker EXCEPT ![w] = "waiting"] /\ UNCHANGED tasks
    <2>1. worker' \in Seq(State)
      BY <1>0, <1>3, <1>6, WorkerMoves
    <2>2. PoolTypeInv'
      BY <1>0, <1>1, <1>6, <2>1 DEF PoolTypeInv
    <2>3. Cardinality(Awake') \in Nat
      <3>1. IsFiniteSet(Awake')
        <4>1. Awake' = Awake \ {w}
          BY <1>0, <1>3, <1>6, WorkerMoves
        <4> QED BY <1>0, <4>1, Counts, FS_RemoveElement
      <3> QED BY <3>1, FS_CardinalityType
    <2>4. Len(tasks') = 0
      BY <1>6
    <2>5. Cardinality(Awake') >= Len(tasks')
      BY <2>3, <2>4
    <2>6. NoLostWakeup'
      BY <2>5 DEF NoLostWakeup, Awake, Idle
    <2> QED BY <2>2, <2>6 DEF PoolInv
  <1> QED BY <1>4, <1>5, <1>6 DEF Work

\* start() makes one more thread.
LEMMA StartWorkerInv ==
    ASSUME PoolInv, StartWorker
    PROVE  PoolInv'
  <1>0. PoolTypeInv /\ NoLostWakeup
    BY DEF PoolInv
  <1>1. /\ UNCHANGED <<poolStop, tasks>> /\ worker' = Append(worker, "begin")
        /\ toStart > 0 /\ toStart' = toStart - 1
    BY DEF StartWorker
  <1> DEFINE n == Len(worker) + 1
  <1>2. /\ worker \in Seq(State) /\ DOMAIN worker = 1..Len(worker) /\ Len(worker) \in Nat
        /\ worker' \in Seq(State) /\ Len(worker') = n /\ DOMAIN worker' = 1..n
    <2>1. worker \in Seq(State) /\ "begin" \in State
      BY <1>0 DEF PoolTypeInv, State
    <2> QED BY <1>1, <2>1
  <1>3. /\ DOMAIN worker' = DOMAIN worker \cup {n} /\ n \notin DOMAIN worker
        /\ worker'[n] = "begin" /\ \A v \in DOMAIN worker : worker'[v] = worker[v]
    <2>1. worker'[n] = "begin"
      BY <1>1, <1>2
    <2>2. \A v \in 1..Len(worker) : worker'[v] = worker[v]
      BY <1>1, <1>2
    <2>3. 1..n = (1..Len(worker)) \cup {n} /\ n \notin 1..Len(worker)
      BY <1>2
    <2> QED BY <1>2, <2>1, <2>2, <2>3
  <1> HIDE DEF n
  <1>4. Awake' = Awake \cup {n} /\ Idle' = Idle \cup {n} /\ n \notin Awake /\ n \notin Idle
    BY <1>3 DEF Awake, Idle, In
  <1>5. /\ Cardinality(Awake') = Cardinality(Awake) + 1 /\ Cardinality(Idle') = Cardinality(Idle) + 1
    BY <1>0, <1>4, Counts, FS_AddElement
  <1>6. ~poolStop => Cardinality(Awake) >= Len(tasks) \/ Cardinality(Awake) = Cardinality(Idle)
    BY <1>0, WakeupDef
  <1>7. Len(tasks) \in Nat
    BY <1>0 DEF PoolTypeInv
  <1>8. ~poolStop' => Cardinality(Awake') >= Len(tasks') \/ Cardinality(Awake') = Cardinality(Idle')
    BY <1>0, <1>1, <1>5, <1>6, <1>7, Counts
  <1>9. NoLostWakeup'
    BY <1>8 DEF NoLostWakeup, Awake, Idle
  <1>10. PoolTypeInv'
    <2>1. toStart' \in Nat
      BY <1>0, <1>1 DEF PoolTypeInv
    <2> QED BY <1>0, <1>1, <1>2, <2>1 DEF PoolTypeInv
  <1> QED BY <1>9, <1>10 DEF PoolInv

\* stop() and the end of a task; join() leaves no worker.
LEMMA OtherPoolInv ==
    ASSUME PoolInv,
           \/ PoolStop \/ PoolJoin \/ StartReturnsToOwner
           \/ \E w \in DOMAIN worker : TaskReturns(w)
           \/ \E count \in 0..MaxWorkers : PoolStart(count)
           \/ \E t \in PoolTask : RunChecksStop(t) \/ RunChecksWorkers(t) \/ RunInline(t)
           \/ UNCHANGED poolvars
    PROVE  PoolInv'
  <1>0. PoolTypeInv /\ NoLostWakeup
    BY DEF PoolInv
  <1>1. CASE PoolStop
    <2>1. worker' \in Seq(State)
      <3>1. worker \in Seq(State) /\ DOMAIN worker = 1..Len(worker) /\ Len(worker) \in Nat
        BY <1>0 DEF PoolTypeInv
      <3>2. \A v \in DOMAIN worker : worker[v] \in State
        BY <3>1
      <3>3. worker' = [v \in 1..Len(worker) |-> IF worker[v] = "waiting" THEN "woken" ELSE worker[v]]
        BY <1>1, <3>1 DEF PoolStop
      <3>4. \A v \in 1..Len(worker) : (IF worker[v] = "waiting" THEN "woken" ELSE worker[v]) \in State
        BY <3>1, <3>2 DEF State
      <3> DEFINE f(v) == IF worker[v] = "waiting" THEN "woken" ELSE worker[v]
      <3>5. worker' = [v \in 1..Len(worker) |-> f(v)] /\ \A v \in 1..Len(worker) : f(v) \in State
        BY <3>3, <3>4
      <3> HIDE DEF f
      <3> QED BY <3>1, <3>5
    <2> QED BY <1>0, <1>1, <2>1 DEF PoolStop, PoolInv, PoolTypeInv, NoLostWakeup
  <1>2. CASE PoolJoin
    <2>1. worker' = <<>> /\ UNCHANGED <<poolStop, tasks, toStart>> /\ worker' \in Seq(State)
      BY <1>2 DEF PoolJoin
    <2>2. DOMAIN worker' = {}
      BY <2>1
    <2>3. Awake' = Idle'
      BY <2>2 DEF Awake, Idle, In
    <2>4. NoLostWakeup'
      BY <2>3 DEF NoLostWakeup, Awake, Idle
    <2> QED BY <1>0, <2>1, <2>4 DEF PoolInv, PoolTypeInv
  <1>3. ASSUME NEW w \in DOMAIN worker, TaskReturns(w) PROVE PoolInv'
    <2>1. /\ worker[w] = "running" /\ worker' = [worker EXCEPT ![w] = "done"]
          /\ UNCHANGED <<poolStop, tasks, toStart>>
      BY <1>3 DEF TaskReturns
    <2>2. "done" \in State
      BY DEF State
    <2>3. worker' \in Seq(State) /\ Awake' = Awake \ {w} /\ Idle' = Idle \ {w}
      BY <1>0, <2>1, <2>2, WorkerMoves
    <2>4. w \notin Awake /\ w \notin Idle
      BY <2>1 DEF Awake, Idle, In
    <2>5. Awake' = Awake /\ Idle' = Idle
      BY <2>3, <2>4
    <2>6. NoLostWakeup'
      BY <1>0, <2>1, <2>5 DEF NoLostWakeup, Awake, Idle
    <2> QED BY <1>0, <2>1, <2>3, <2>6 DEF PoolInv, PoolTypeInv
  <1>4. ASSUME UNCHANGED <<poolStop, tasks, worker>>, toStart' \in Nat PROVE PoolInv'
    <2>1. Awake' = Awake /\ Idle' = Idle
      BY <1>4 DEF Awake, Idle, In
    <2>2. NoLostWakeup'
      BY <1>0, <1>4, <2>1 DEF NoLostWakeup, Awake, Idle
    <2> QED BY <1>0, <1>4, <2>2 DEF PoolInv, PoolTypeInv
  <1>5. CASE \E count \in 0..MaxWorkers : PoolStart(count)
    <2>1. UNCHANGED <<poolStop, tasks, worker>> /\ toStart' \in Nat
      BY <1>5, PoolAssumption DEF PoolStart
    <2> QED BY <1>4, <2>1
  <1>6. CASE \/ StartReturnsToOwner \/ UNCHANGED poolvars
             \/ \E t \in PoolTask : RunChecksStop(t) \/ RunChecksWorkers(t) \/ RunInline(t)
    <2>1. UNCHANGED <<poolStop, tasks, worker, toStart>>
      BY <1>6 DEF StartReturnsToOwner, poolvars, RunChecksStop, RunChecksWorkers, RunInline
    <2>2. toStart' \in Nat
      BY <1>0, <2>1 DEF PoolTypeInv
    <2> QED BY <1>4, <2>1, <2>2
  <1> QED BY <1>1, <1>2, <1>3, <1>5, <1>6

\* A task in the queue has a worker on its way, or every worker that has not had a
\* task is: ThreadPool::run notifies for each push, and spurious wakeups and new
\* threads do not make up for too few.
THEOREM WakeupsSuffice == PoolSpec => []NoLostWakeup
  <1>1. PoolInit => PoolInv
    <2> SUFFICES ASSUME PoolInit PROVE PoolInv
      OBVIOUS
    <2>1. poolStop = FALSE /\ tasks = <<>> /\ worker = <<>> /\ toStart = 0
      BY DEF PoolInit
    <2>2. Awake = Idle
      BY <2>1 DEF Awake, Idle, In
    <2>3. NoLostWakeup
      BY <2>2 DEF NoLostWakeup, Awake, Idle
    <2>4. <<>> \in Seq(PoolTask) /\ <<>> \in Seq(State)
      OBVIOUS
    <2>5. PoolTypeInv
      BY <2>1, <2>4 DEF PoolTypeInv
    <2> QED BY <2>3, <2>5 DEF PoolInv
  <1>2. ASSUME PoolInv, [PoolNext]_poolvars PROVE PoolInv'
    <2>1. ASSUME NEW t \in PoolTask, RunPushes(t) PROVE PoolInv'
      BY <1>2, <2>1, RunPushesInv
    <2>2. ASSUME NEW w \in DOMAIN worker, Work(w) PROVE PoolInv'
      BY <1>2, <2>2, WorkInv
    <2>3. CASE StartWorker
      BY <1>2, <2>3, StartWorkerInv
    <2> QED BY <1>2, <2>1, <2>2, <2>3, OtherPoolInv DEF PoolNext
  <1>3. PoolInv => NoLostWakeup
    BY DEF PoolInv
  <1> QED BY <1>1, <1>2, <1>3, PTL DEF PoolSpec

-----------------------------------------------------------------------------
(* Buffer *)

Record == [bytes : Seq(Byte), r : Nat, w : Nat]

\* A buffer with its indices in order.
InOrder(b) == b \in Record /\ b.r <= b.w /\ b.w <= Len(b.bytes)

\* What is between the indices.
LEMMA ContentIs ==
    ASSUME NEW b, InOrder(b)
    PROVE  /\ Content(b) \in Seq(Byte) /\ Len(Content(b)) = b.w - b.r /\ b.w - b.r \in Nat
           /\ \A i \in 1..(b.w - b.r) : Content(b)[i] = b.bytes[b.r + i]
  <1>1. /\ b.bytes \in Seq(Byte) /\ b.r \in Nat /\ b.w \in Nat /\ b.r <= b.w /\ b.w <= Len(b.bytes)
        /\ Len(b.bytes) \in Nat
    BY DEF InOrder, Record
  <1> DEFINE s == b.bytes
  <1> DEFINE m == b.r + 1
  <1> DEFINE n == b.w
  <1>2. m \in Int /\ n \in Int /\ \A i \in m..n : s[i] \in Byte
    <2>1. \A i \in m..n : i \in 1..Len(s)
      BY <1>1
    <2> QED BY <1>1, <2>1
  <1>3. /\ n - m + 1 = b.w - b.r /\ b.w - b.r \in Nat /\ (m <= n \/ b.w - b.r = 0)
        /\ \A i \in 1..(b.w - b.r) : m + i - 1 = b.r + i
    <2>1. b.w - b.r \in Nat /\ n - m + 1 = b.w - b.r
      BY <1>1
    <2>2. m <= n \/ b.w - b.r = 0
      BY <1>1
    <2>3. \A i \in 1..(b.w - b.r) : m + i - 1 = b.r + i
      BY <1>1
    <2> QED BY <2>1, <2>2, <2>3
  <1> HIDE DEF s, m, n
  <1>4. /\ SubSeq(s, m, n) \in Seq(Byte)
        /\ Len(SubSeq(s, m, n)) = IF m <= n THEN n - m + 1 ELSE 0
        /\ \A i \in 1..n - m + 1 : SubSeq(s, m, n)[i] = s[m + i - 1]
    BY <1>2, SubSeqProperties
  <1>5. Content(b) = SubSeq(s, m, n)
    BY DEF Content, s, m, n
  <1>6. \A i \in 1..(b.w - b.r) : Content(b)[i] = s[b.r + i]
    BY <1>3, <1>4, <1>5
  <1>7. Len(Content(b)) = b.w - b.r
    BY <1>2, <1>3, <1>4, <1>5
  <1> QED BY <1>3, <1>4, <1>5, <1>6, <1>7 DEF s

\* Two buffers whose bytes between the indices are the same have the same content.
LEMMA SameContent ==
    ASSUME NEW b, NEW d, InOrder(b), InOrder(d), d.w - d.r = b.w - b.r,
           \A i \in 1..(b.w - b.r) : d.bytes[d.r + i] = b.bytes[b.r + i]
    PROVE  Content(d) = Content(b)
  <1>1. /\ Content(b) \in Seq(Byte) /\ Len(Content(b)) = b.w - b.r
        /\ \A i \in 1..(b.w - b.r) : Content(b)[i] = b.bytes[b.r + i]
    BY ContentIs
  <1>2. /\ Content(d) \in Seq(Byte) /\ Len(Content(d)) = d.w - d.r
        /\ \A i \in 1..(d.w - d.r) : Content(d)[i] = d.bytes[d.r + i]
    BY ContentIs
  <1>3. \A i \in 1..Len(Content(b)) : Content(d)[i] = Content(b)[i]
    BY <1>1, <1>2
  <1> QED BY <1>1, <1>2, <1>3, SeqEqual

\* makeSpace() makes room without a change of the content.
LEMMA SpaceIsMade ==
    ASSUME NEW b, InOrder(b), NEW len \in Nat, writableBytes(b) < len
    PROVE  /\ InOrder(makeSpace(b, len)) /\ Content(makeSpace(b, len)) = Content(b)
           /\ writableBytes(makeSpace(b, len)) >= len
  <1> DEFINE d == makeSpace(b, len)
  <1>1. /\ b.bytes \in Seq(Byte) /\ b.r \in Nat /\ b.w \in Nat /\ b.r <= b.w /\ b.w <= Len(b.bytes)
        /\ Len(b.bytes) \in Nat /\ b \in Record
    BY DEF InOrder, Record
  <1>2. /\ Len(b.bytes) - b.w < len /\ 0 \in Byte
        /\ \A i \in 1..Len(b.bytes) : b.bytes[i] \in Byte
    BY <1>1, BufferAssumption DEF writableBytes, Byte
  <1>3. CASE writableBytes(b) + prependableBytes(b) < len
    <2> DEFINE g == [i \in 1..(b.w + len) |-> IF i <= Len(b.bytes) THEN b.bytes[i] ELSE 0]
    <2>1. d = [b EXCEPT !.bytes = g]
      BY <1>3 DEF makeSpace
    <2>2. \A i \in 1..(b.w + len) : (IF i <= Len(b.bytes) THEN b.bytes[i] ELSE 0) \in Byte
      BY <1>1, <1>2
    <2>3. /\ g \in Seq(Byte) /\ Len(g) = b.w + len
          /\ \A i \in 1..b.w : g[i] = b.bytes[i]
      <3>1. b.w + len \in Nat
        BY <1>1
      <3>2. g \in [1..(b.w + len) -> Byte]
        BY <2>2
      <3>3. \A i \in 1..b.w : i \in 1..(b.w + len) /\ i <= Len(b.bytes)
        BY <1>1
      <3> QED BY <3>1, <3>2, <3>3
    <2> HIDE DEF g
    <2>4. d \in Record /\ d.bytes = g /\ d.r = b.r /\ d.w = b.w
      BY <1>1, <2>1, <2>3 DEF Record
    <2> HIDE DEF d
    <2>5. InOrder(d)
      BY <1>1, <2>3, <2>4 DEF InOrder
    <2>6. \A i \in 1..(b.w - b.r) : d.bytes[d.r + i] = b.bytes[b.r + i]
      <3>1. \A i \in 1..(b.w - b.r) : b.r + i \in 1..b.w
        BY <1>1
      <3> QED BY <2>3, <2>4, <3>1
    <2>7. Content(d) = Content(b)
      BY <2>4, <2>5, <2>6, SameContent
    <2>8. writableBytes(d) >= len
      BY <1>1, <2>3, <2>4 DEF writableBytes
    <2> QED BY <2>5, <2>7, <2>8 DEF d
  <1>4. CASE ~(writableBytes(b) + prependableBytes(b) < len)
    <2> DEFINE n == readableBytes(b)
    <2> DEFINE f(i) == IF i <= n THEN b.bytes[b.r + i] ELSE b.bytes[i]
    <2> DEFINE g == [i \in 1..Len(b.bytes) |-> f(i)]
    <2>0. n \in Nat /\ n = b.w - b.r
      BY <1>1 DEF readableBytes
    <2>1. d = [bytes |-> g, r |-> 0, w |-> n]
      BY <1>4 DEF makeSpace
    <2>2. \A i \in 1..Len(b.bytes) : f(i) \in Byte
      <3>1. \A i \in 1..Len(b.bytes) : i <= n => b.r + i \in 1..Len(b.bytes)
        BY <1>1, <2>0
      <3> QED BY <1>2, <3>1
    <2>3. \A i \in 1..n : f(i) = b.bytes[b.r + i] /\ i \in 1..Len(b.bytes)
      BY <1>1, <2>0
    <2> HIDE DEF f
    <2>4. /\ g \in Seq(Byte) /\ Len(g) = Len(b.bytes)
          /\ \A i \in 1..n : g[i] = b.bytes[b.r + i]
      BY <1>1, <2>2, <2>3
    <2> HIDE DEF g
    <2>5. d \in Record /\ d.bytes = g /\ d.r = 0 /\ d.w = n
      BY <2>0, <2>1, <2>4 DEF Record
    <2> HIDE DEF d, n
    <2>6. InOrder(d)
      BY <1>1, <2>0, <2>4, <2>5 DEF InOrder
    <2>7. \A i \in 1..(b.w - b.r) : d.bytes[d.r + i] = b.bytes[b.r + i]
      BY <1>1, <2>0, <2>4, <2>5
    <2>8. Content(d) = Content(b)
      BY <1>1, <2>0, <2>5, <2>6, <2>7, SameContent
    <2>9. writableBytes(d) >= len
      BY <1>1, <1>4, <2>0, <2>4, <2>5 DEF writableBytes, prependableBytes
    <2> QED BY <2>6, <2>8, <2>9 DEF d
  <1> QED BY <1>3, <1>4

\* ensureWritableBytes() makes room if there is none.
LEMMA RoomIsEnsured ==
    ASSUME NEW b, InOrder(b), NEW len \in Nat
    PROVE  /\ InOrder(ensureWritableBytes(b, len))
           /\ Content(ensureWritableBytes(b, len)) = Content(b)
           /\ writableBytes(ensureWritableBytes(b, len)) >= len
  <1>1. writableBytes(b) \in Int
    BY DEF InOrder, Record, writableBytes
  <1>2. CASE writableBytes(b) < len
    BY <1>2, SpaceIsMade DEF ensureWritableBytes
  <1>3. CASE ~(writableBytes(b) < len)
    BY <1>1, <1>3 DEF ensureWritableBytes
  <1> QED BY <1>2, <1>3

\* Bytes stored where there is room come behind the content.
LEMMA StoreAppends ==
    ASSUME NEW b, InOrder(b), NEW data \in Seq(Byte), Len(data) <= writableBytes(b)
    PROVE  /\ InOrder(Store(b, data)) /\ Content(Store(b, data)) = Content(b) \o data
           /\ writableBytes(Store(b, data)) = writableBytes(b) - Len(data)
  <1> DEFINE d == Store(b, data)
  <1> DEFINE k == Len(data)
  <1>1. /\ b.bytes \in Seq(Byte) /\ b.r \in Nat /\ b.w \in Nat /\ b.r <= b.w /\ b.w <= Len(b.bytes)
        /\ Len(b.bytes) \in Nat /\ b \in Record /\ k \in Nat /\ k <= Len(b.bytes) - b.w
        /\ \A i \in 1..Len(b.bytes) : b.bytes[i] \in Byte
        /\ \A i \in 1..k : data[i] \in Byte
    BY DEF InOrder, Record, writableBytes
  <1> DEFINE f(i) == IF i > b.w /\ i <= b.w + k THEN data[i - b.w] ELSE b.bytes[i]
  <1> DEFINE g == [i \in 1..Len(b.bytes) |-> f(i)]
  <1>2. d = [b EXCEPT !.bytes = g, !.w = b.w + k]
    BY DEF Store
  <1>3. \A i \in 1..Len(b.bytes) : f(i) \in Byte
    <2>1. \A i \in 1..Len(b.bytes) : i > b.w /\ i <= b.w + k => i - b.w \in 1..k
      BY <1>1
    <2> QED BY <1>1, <2>1
  <1>4. \A i \in 1..b.w : i \in 1..Len(b.bytes) /\ f(i) = b.bytes[i]
    BY <1>1
  <1>5. \A i \in 1..k : b.w + i \in 1..Len(b.bytes) /\ f(b.w + i) = data[i]
    BY <1>1
  <1> HIDE DEF f
  <1>6. /\ g \in Seq(Byte) /\ Len(g) = Len(b.bytes)
        /\ \A i \in 1..b.w : g[i] = b.bytes[i]
        /\ \A i \in 1..k : g[b.w + i] = data[i]
    BY <1>1, <1>3, <1>4, <1>5
  <1> HIDE DEF g
  <1>7. b.w + k \in Nat
    BY <1>1
  <1>8. d \in Record /\ d.bytes = g /\ d.r = b.r /\ d.w = b.w + k
    BY <1>1, <1>2, <1>6, <1>7 DEF Record
  <1> HIDE DEF d, k
  <1>9. InOrder(d)
    BY <1>1, <1>6, <1>8 DEF InOrder
  <1>10. writableBytes(d) = writableBytes(b) - k
    BY <1>1, <1>6, <1>8 DEF writableBytes
  <1>11. Content(d) = Content(b) \o data
    <2>1. /\ Content(b) \in Seq(Byte) /\ Len(Content(b)) = b.w - b.r /\ b.w - b.r \in Nat
          /\ \A i \in 1..(b.w - b.r) : Content(b)[i] = b.bytes[b.r + i]
      BY ContentIs
    <2>2. /\ Content(d) \in Seq(Byte) /\ Len(Content(d)) = (b.w - b.r) + k
          /\ \A i \in 1..(b.w - b.r) + k : Content(d)[i] = g[b.r + i]
      <3>1. d.w - d.r = (b.w - b.r) + k
        BY <1>1, <1>8
      <3>2. /\ Content(d) \in Seq(Byte) /\ Len(Content(d)) = d.w - d.r
            /\ \A i \in 1..(d.w - d.r) : Content(d)[i] = d.bytes[d.r + i]
        BY <1>9, ContentIs
      <3> QED BY <1>8, <3>1, <3>2
    <2> DEFINE c == Content(b)
    <2>3. /\ c \o data \in Seq(Byte) /\ Len(c \o data) = Len(c) + Len(data)
          /\ \A i \in 1..Len(c) + Len(data) : (c \o data)[i] = IF i <= Len(c) THEN c[i] ELSE data[i - Len(c)]
      BY <2>1, ConcatProperties
    <2> DEFINE n == b.w - b.r
    <2>4. ASSUME NEW i \in 1..n + k PROVE Content(d)[i] = (c \o data)[i]
      <3>1. CASE i <= n
        <4>1. i \in 1..n /\ b.r + i \in 1..b.w
          BY <1>1, <3>1
        <4>2. Content(d)[i] = b.bytes[b.r + i]
          BY <1>6, <2>2, <4>1
        <4>3. (c \o data)[i] = c[i]
          BY <2>1, <2>3, <4>1 DEF k
        <4> QED BY <2>1, <4>1, <4>2, <4>3
      <3>2. CASE ~(i <= n)
        <4>1. i - n \in 1..k /\ b.w + (i - n) = b.r + i
          BY <1>1, <3>2
        <4>2. Content(d)[i] = data[i - n]
          BY <1>6, <2>2, <4>1
        <4>3. (c \o data)[i] = data[i - n]
          BY <2>1, <2>3, <3>2 DEF k
        <4> QED BY <4>2, <4>3
      <3> QED BY <3>1, <3>2
    <2>5. Len(c \o data) = Len(Content(d)) /\ Len(Content(d)) = n + k
      BY <2>1, <2>2, <2>3 DEF k
    <2> HIDE DEF c, n
    <2> QED BY <2>2, <2>3, <2>4, <2>5, SeqEqual DEF c
  <1> QED BY <1>9, <1>10, <1>11 DEF d, k

\* append() adds bytes behind the content.
LEMMA AppendAppends ==
    ASSUME NEW b, InOrder(b), NEW data \in Seq(Byte)
    PROVE  InOrder(append(b, data)) /\ Content(append(b, data)) = Content(b) \o data
  <1> DEFINE e == ensureWritableBytes(b, Len(data))
  <1>1. Len(data) \in Nat
    OBVIOUS
  <1>2. InOrder(e) /\ Content(e) = Content(b) /\ writableBytes(e) >= Len(data)
    BY <1>1, RoomIsEnsured
  <1>3. writableBytes(e) \in Int
    BY <1>2 DEF InOrder, Record, writableBytes
  <1>4. append(b, data) = Store(e, data)
    BY DEF append
  <1> HIDE DEF e
  <1>5. Len(data) <= writableBytes(e)
    BY <1>1, <1>2, <1>3
  <1> QED BY <1>2, <1>4, <1>5, StoreAppends

\* readFrom() adds a datagram of at most the extra size behind the content.
LEMMA ReadFromAppends ==
    ASSUME NEW b, InOrder(b), NEW data \in Seq(Byte), Len(data) <= Extra
    PROVE  InOrder(readFrom(b, data)) /\ Content(readFrom(b, data)) = Content(b) \o data
  <1> DEFINE e == ensureWritableBytes(b, Extra)
  <1>1. Len(data) \in Nat /\ Extra \in Nat
    BY BufferAssumption
  <1>2. InOrder(e) /\ Content(e) = Content(b) /\ writableBytes(e) >= Extra
    BY <1>1, RoomIsEnsured
  <1>3. writableBytes(e) \in Int
    BY <1>2 DEF InOrder, Record, writableBytes
  <1>4. readFrom(b, data) = Store(e, data)
    BY DEF readFrom
  <1> HIDE DEF e
  <1>5. Len(data) <= writableBytes(e)
    BY <1>1, <1>2, <1>3
  <1> QED BY <1>2, <1>4, <1>5, StoreAppends

\* Bytes joined in either order.
LEMMA BytesGrouped ==
    \A a, b, c \in Seq(Byte) : (a \o b) \o c = a \o (b \o c)
  BY ConcatAssociative

\* readFd() adds what the socket has behind the content, across the two iovecs.
LEMMA ReadFdAppends ==
    ASSUME NEW b, InOrder(b), NEW data \in Seq(Byte)
    PROVE  InOrder(readFd(b, data)) /\ Content(readFd(b, data)) = Content(b) \o data
  <1> DEFINE n == writableBytes(b)
  <1>1. n \in Nat /\ Len(data) \in Nat
    BY DEF InOrder, Record, writableBytes
  <1>2. CASE Len(data) <= n
    BY <1>2, StoreAppends DEF readFd
  <1>3. CASE ~(Len(data) <= n)
    <2> DEFINE here == SubSeq(data, 1, n)
    <2> DEFINE there == SubSeq(data, n + 1, Len(data))
    <2> DEFINE e == Store(b, here)
    <2>1. readFd(b, data) = append(e, there)
      BY <1>3 DEF readFd
    <2>2. here \in Seq(Byte) /\ Len(here) = n
      <3>1. \A i \in 1..n : data[i] \in Byte
        BY <1>1, <1>3
      <3>2. 1 \in Int /\ n \in Int /\ n - 1 + 1 = n /\ (1 <= n \/ n = 0)
        BY <1>1
      <3> HIDE DEF n
      <3>3. here \in Seq(Byte) /\ Len(here) = IF 1 <= n THEN n - 1 + 1 ELSE 0
        BY <3>1, <3>2, SubSeqProperties
      <3> QED BY <3>2, <3>3
    <2>3. there \in Seq(Byte)
      <3> DEFINE m == n + 1
      <3> DEFINE l == Len(data)
      <3>1. \A i \in m..l : data[i] \in Byte
        BY <1>1
      <3>2. m \in Int /\ l \in Int
        BY <1>1
      <3> HIDE DEF m, l
      <3>3. SubSeq(data, m, l) \in Seq(Byte)
        BY <3>1, <3>2, SubSeqProperties
      <3> QED BY <3>3 DEF m, l
    <2>4. here \o there = data
      <3>1. /\ SubSeq(data, 1, n) \o SubSeq(data, n + 1, Len(data)) = SubSeq(data, 1, Len(data))
        <4>1. 1 \in 1..Len(data) + 1 /\ n \in 0..Len(data) /\ Len(data) \in n..Len(data)
          BY <1>1, <1>3
        <4> DEFINE l == Len(data)
        <4>2. 1 \in 1..Len(data) + 1 /\ n \in (1 - 1)..Len(data) /\ l \in n..Len(data)
          BY <4>1
        <4> HIDE DEF n, l
        <4>3. SubSeq(data, 1, n) \o SubSeq(data, n + 1, l) = SubSeq(data, 1, l)
          BY <4>2, ConcatAdjacentSubSeq
        <4> QED BY <4>3 DEF l
      <3>2. SubSeq(data, 1, Len(data)) = data
        BY SubSeqFull
      <3> QED BY <3>1, <3>2
    <2> HIDE DEF here, there
    <2>5. InOrder(e) /\ Content(e) = Content(b) \o here
      <3>1. Len(here) <= writableBytes(b)
        BY <1>1, <2>2
      <3> QED BY <2>2, <3>1, StoreAppends
    <2> HIDE DEF e
    <2>6. InOrder(append(e, there)) /\ Content(append(e, there)) = Content(e) \o there
      BY <2>3, <2>5, AppendAppends
    <2>7. (Content(b) \o here) \o there = Content(b) \o (here \o there)
      <3> DEFINE c == Content(b)
      <3>1. c \in Seq(Byte)
        BY ContentIs
      <3> HIDE DEF c
      <3>2. (c \o here) \o there = c \o (here \o there)
        <4>1. here \in Seq(Byte) /\ there \in Seq(Byte) /\ c \in Seq(Byte)
          BY <2>2, <2>3, <3>1
        <4> QED BY <4>1, BytesGrouped, Zenon
      <3> QED BY <3>2 DEF c
    <2> QED BY <2>1, <2>4, <2>5, <2>6, <2>7
  <1> QED BY <1>2, <1>3

\* retrieve() takes bytes off the front of the content.
LEMMA RetrieveTakes ==
    ASSUME NEW b, InOrder(b), NEW len \in Nat, len <= readableBytes(b)
    PROVE  /\ InOrder(retrieve(b, len))
           /\ Len(Content(retrieve(b, len))) = Len(Content(b)) - len
           /\ \A i \in 1..Len(Content(retrieve(b, len))) :
                 Content(retrieve(b, len))[i] = Content(b)[len + i]
  <1> DEFINE d == retrieve(b, len)
  <1>1. /\ b.bytes \in Seq(Byte) /\ b.r \in Nat /\ b.w \in Nat /\ b.r <= b.w /\ b.w <= Len(b.bytes)
        /\ Len(b.bytes) \in Nat /\ b \in Record /\ readableBytes(b) = b.w - b.r
    BY DEF InOrder, Record, readableBytes
  <1>2. /\ Len(Content(b)) = b.w - b.r /\ \A i \in 1..(b.w - b.r) : Content(b)[i] = b.bytes[b.r + i]
    BY ContentIs
  <1>3. CASE len < readableBytes(b)
    <2>1. d = [b EXCEPT !.r = b.r + len]
      BY <1>3 DEF retrieve
    <2>2. d \in Record /\ d.bytes = b.bytes /\ d.r = b.r + len /\ d.w = b.w
      BY <1>1, <2>1 DEF Record
    <2> HIDE DEF d
    <2>3. InOrder(d)
      BY <1>1, <1>3, <2>2 DEF InOrder
    <2>4. /\ Len(Content(d)) = d.w - d.r /\ \A i \in 1..(d.w - d.r) : Content(d)[i] = d.bytes[d.r + i]
      BY <2>3, ContentIs
    <2>5. Len(Content(d)) = Len(Content(b)) - len
      BY <1>1, <1>2, <2>2, <2>4
    <2>6. \A i \in 1..(d.w - d.r) : len + i \in 1..(b.w - b.r) /\ d.r + i = b.r + (len + i)
      BY <1>1, <1>3, <2>2
    <2>7. \A i \in 1..(d.w - d.r) : Content(d)[i] = Content(b)[len + i]
      BY <1>2, <2>2, <2>4, <2>6
    <2> QED BY <2>3, <2>4, <2>5, <2>7 DEF d
  <1>4. CASE ~(len < readableBytes(b))
    <2>1. d = [b EXCEPT !.r = 0, !.w = 0]
      BY <1>4 DEF retrieve, retrieveAll
    <2>2. d \in Record /\ d.bytes = b.bytes /\ d.r = 0 /\ d.w = 0
      <3>1. b \in [bytes : Seq(Byte), r : Nat, w : Nat]
        BY <1>1 DEF Record
      <3>2. d = [bytes |-> b.bytes, r |-> 0, w |-> 0]
        BY <2>1, <3>1
      <3> HIDE DEF d
      <3> QED BY <1>1, <3>2 DEF Record
    <2> HIDE DEF d
    <2>3. InOrder(d)
      BY <1>1, <2>2 DEF InOrder
    <2>4. Len(Content(d)) = 0
      BY <2>2, <2>3, ContentIs
    <2>5. Len(Content(d)) = Len(Content(b)) - len
      BY <1>1, <1>2, <1>4, <2>4
    <2> QED BY <2>3, <2>4, <2>5 DEF d
  <1> QED BY <1>3, <1>4

\* hostToNetwork gives bytes.
LEMMA IntBytesAreBytes ==
    ASSUME NEW x \in Int, NEW n \in Nat, \A m \in 0..n : Base^m \in Nat \ {0}
    PROVE  IntBytes(x, n) \in Seq(Byte) /\ Len(IntBytes(x, n)) = n
  <1>1. ASSUME NEW i \in 1..n PROVE ((x % Base^n) \div Base^(n - i)) % Base \in Byte
    <2> DEFINE p == Base^n
    <2> DEFINE q == Base^(n - i)
    <2>1. n \in 0..n /\ n - i \in 0..n
      OBVIOUS
    <2>2. p \in Nat \ {0} /\ q \in Nat \ {0} /\ Base \in Nat \ {0}
      BY <2>1, BufferAssumption
    <2> HIDE DEF p, q
    <2>3. (x % p) \div q \in Int
      BY <2>2
    <2>4. ((x % p) \div q) % Base \in 0..(Base - 1)
      BY <2>2, <2>3
    <2> QED BY <2>4 DEF p, q, Byte
  <1> DEFINE f(i) == ((x % Base^n) \div Base^(n - i)) % Base
  <1>2. IntBytes(x, n) = [i \in 1..n |-> f(i)] /\ \A i \in 1..n : f(i) \in Byte
    BY <1>1 DEF IntBytes
  <1> HIDE DEF f
  <1> QED BY <1>2

\* What is put behind a sequence leaves it as a prefix.
LEMMA PrefixOfConcat ==
    ASSUME NEW c \in Seq(Byte), NEW t \in Seq(Byte)
    PROVE  IsPrefix(c, c \o t)
  <1> DEFINE d == c \o t
  <1> DEFINE n == Len(c)
  <1>1. /\ d \in Seq(Byte) /\ Len(d) = n + Len(t) /\ n \in Nat /\ Len(t) \in Nat
        /\ \A i \in 1..n + Len(t) : d[i] = IF i <= n THEN c[i] ELSE t[i - n]
    BY ConcatProperties
  <1> HIDE DEF d
  <1>2. \A i \in 1..n : d[i] = c[i] /\ c[i] \in Byte /\ d[i] \in Byte
    BY <1>1
  <1> HIDE DEF n
  <1>3. 1 \in Int /\ n \in Int /\ n - 1 + 1 = n /\ \A i \in 1..n : 1 + i - 1 = i
    BY <1>1
  <1>4. /\ SubSeq(c, 1, n) \in Seq(Byte)
        /\ Len(SubSeq(c, 1, n)) = IF 1 <= n THEN n - 1 + 1 ELSE 0
        /\ \A i \in 1..n - 1 + 1 : SubSeq(c, 1, n)[i] = c[1 + i - 1]
    BY <1>2, <1>3, SubSeqProperties
  <1>5. /\ SubSeq(d, 1, n) \in Seq(Byte)
        /\ Len(SubSeq(d, 1, n)) = IF 1 <= n THEN n - 1 + 1 ELSE 0
        /\ \A i \in 1..n - 1 + 1 : SubSeq(d, 1, n)[i] = d[1 + i - 1]
    BY <1>2, <1>3, SubSeqProperties
  <1>6. Len(SubSeq(c, 1, n)) = n /\ Len(SubSeq(d, 1, n)) = n
    BY <1>1, <1>3, <1>4, <1>5
  <1>7. \A i \in 1..n : SubSeq(c, 1, n)[i] = SubSeq(d, 1, n)[i]
    BY <1>2, <1>3, <1>4, <1>5
  <1>8. SubSeq(c, 1, n) = SubSeq(d, 1, n)
    BY <1>4, <1>5, <1>6, <1>7, SeqEqual
  <1>9. n <= Len(d)
    BY <1>1
  <1> QED BY <1>8, <1>9 DEF IsPrefix, d, n

\* Reverse gives the elements from the last to the first.
LEMMA ReverseIs ==
    ASSUME NEW c \in Seq(Byte)
    PROVE  /\ Reverse(c) \in Seq(Byte) /\ Len(Reverse(c)) = Len(c)
           /\ \A i \in 1..Len(c) : Reverse(c)[i] = c[(Len(c) - i) + 1]
  <1> DEFINE rc == Reverse(c)
  <1>1. \A i \in 1..Len(c) : c[(Len(c) - i) + 1] \in Byte
    OBVIOUS
  <1>2. rc = [i \in 1..Len(c) |-> c[(Len(c) - i) + 1]]
    BY DEF Reverse
  <1> HIDE DEF rc
  <1>3. Len(c) \in Nat
    OBVIOUS
  <1>4. rc \in Seq(Byte) /\ Len(rc) = Len(c) /\ \A i \in 1..Len(c) : rc[i] = c[(Len(c) - i) + 1]
    BY <1>1, <1>2, <1>3
  <1> QED BY <1>4 DEF rc

\* What is left when a sequence loses its front is a suffix of it.
LEMMA SuffixOfRest ==
    ASSUME NEW c \in Seq(Byte), NEW d \in Seq(Byte), NEW len \in Nat,
           Len(d) = Len(c) - len, \A i \in 1..Len(d) : d[i] = c[len + i]
    PROVE  IsSuffix(d, c)
  <1>1. Len(c) \in Nat /\ Len(d) \in Nat
    OBVIOUS
  <1> DEFINE rc == Reverse(c)
  <1> DEFINE rd == Reverse(d)
  <1> DEFINE n == Len(d)
  <1>2. /\ rc \in Seq(Byte) /\ Len(rc) = Len(c)
        /\ \A i \in 1..Len(c) : rc[i] = c[(Len(c) - i) + 1]
    BY ReverseIs
  <1>3. rd \in Seq(Byte) /\ Len(rd) = n /\ \A i \in 1..n : rd[i] = d[(n - i) + 1]
    BY ReverseIs
  <1> HIDE DEF rc, rd
  <1>4. \A i \in 1..n : rd[i] = rc[i] /\ rc[i] \in Byte /\ rd[i] \in Byte
    <2> SUFFICES ASSUME NEW i \in 1..n PROVE rd[i] = rc[i] /\ rc[i] \in Byte
      OBVIOUS
    <2>1. (n - i) + 1 \in 1..n /\ i \in 1..Len(c) /\ len + ((n - i) + 1) = (Len(c) - i) + 1
      BY <1>1
    <2>2. rd[i] = d[(n - i) + 1] /\ rc[i] = c[(Len(c) - i) + 1]
      BY <1>2, <1>3, <2>1
    <2>3. d[(n - i) + 1] = c[len + ((n - i) + 1)]
      BY <2>1
    <2>4. rc[i] \in Byte
      BY <1>2, <2>1
    <2> QED BY <2>1, <2>2, <2>3, <2>4
  <1>5. n \in Nat /\ n <= Len(rc)
    BY <1>1, <1>2
  <1> HIDE DEF n
  <1>6. 1 \in Int /\ n \in Int /\ n - 1 + 1 = n /\ \A i \in 1..n : 1 + i - 1 = i
    BY <1>5
  <1>7. /\ SubSeq(rc, 1, n) \in Seq(Byte)
        /\ Len(SubSeq(rc, 1, n)) = IF 1 <= n THEN n - 1 + 1 ELSE 0
        /\ \A i \in 1..n - 1 + 1 : SubSeq(rc, 1, n)[i] = rc[1 + i - 1]
    BY <1>4, <1>6, SubSeqProperties
  <1>8. /\ SubSeq(rd, 1, n) \in Seq(Byte)
        /\ Len(SubSeq(rd, 1, n)) = IF 1 <= n THEN n - 1 + 1 ELSE 0
        /\ \A i \in 1..n - 1 + 1 : SubSeq(rd, 1, n)[i] = rd[1 + i - 1]
    BY <1>4, <1>6, SubSeqProperties
  <1>9. Len(SubSeq(rc, 1, n)) = n /\ Len(SubSeq(rd, 1, n)) = n
    BY <1>5, <1>6, <1>7, <1>8
  <1>10. \A i \in 1..n : SubSeq(rd, 1, n)[i] = SubSeq(rc, 1, n)[i]
    BY <1>4, <1>6, <1>7, <1>8
  <1>11. SubSeq(rd, 1, n) = SubSeq(rc, 1, n)
    BY <1>7, <1>8, <1>9, <1>10, SeqEqual
  <1>12. IsPrefix(rd, rc)
    BY <1>3, <1>5, <1>11 DEF IsPrefix
  <1> QED BY <1>12 DEF IsSuffix, rc, rd

\* Every call keeps the indices in order and treats the content as a queue.
LEMMA BufferStep ==
    ASSUME InOrder(buf), BufferNext
    PROVE  /\ InOrder(buf')
           /\ IsPrefix(Content(buf), Content(buf')) \/ IsSuffix(Content(buf'), Content(buf))
  <1>0. Content(buf) \in Seq(Byte) /\ readableBytes(buf) \in Nat
    BY ContentIs DEF readableBytes
  <1>1. ASSUME NEW data \in Seq(Byte), InOrder(buf'), Content(buf') = Content(buf) \o data
        PROVE  InOrder(buf') /\ IsPrefix(Content(buf), Content(buf'))
    BY <1>0, <1>1, PrefixOfConcat
  <1>2. ASSUME NEW len \in Nat, len <= readableBytes(buf), buf' = retrieve(buf, len)
        PROVE  InOrder(buf') /\ IsSuffix(Content(buf'), Content(buf))
    <2>1. /\ InOrder(buf')
          /\ Len(Content(buf')) = Len(Content(buf)) - len
          /\ \A i \in 1..Len(Content(buf')) : Content(buf')[i] = Content(buf)[len + i]
      BY <1>2, RetrieveTakes
    <2>2. Content(buf') \in Seq(Byte)
      BY <2>1, ContentIs
    <2> QED BY <1>0, <2>1, <2>2, SuffixOfRest
  <1>3. Data \subseteq Seq(Byte)
    <2> SUFFICES ASSUME NEW n \in 0..MaxContent, NEW data \in [1..n -> {1, Base - 1}]
                 PROVE  data \in Seq(Byte)
      BY DEF Data
    <2>1. {1, Base - 1} \subseteq Byte /\ n \in Nat
      BY BufferAssumption DEF Byte
    <2>2. data \in [1..n -> Byte]
      BY <2>1
    <2> QED BY <2>1, <2>2
  <1>4. ASSUME NEW data \in Data, AppendData(data) \/ ReadFd(data) \/ ReadFrom(data)
        PROVE  InOrder(buf') /\ IsPrefix(Content(buf), Content(buf'))
    <2>1. data \in Seq(Byte)
      BY <1>3
    <2>2. CASE AppendData(data)
      BY <1>1, <2>1, <2>2, AppendAppends DEF AppendData
    <2>3. CASE ReadFd(data)
      BY <1>1, <2>1, <2>3, ReadFdAppends DEF ReadFd
    <2>4. CASE ReadFrom(data)
      BY <1>1, <2>1, <2>4, ReadFromAppends DEF ReadFrom
    <2> QED BY <1>4, <2>2, <2>3, <2>4
  <1>5. ASSUME NEW x \in {-1, 1}, NEW n \in {1, 2}, AppendInt(x, n)
        PROVE  InOrder(buf') /\ IsPrefix(Content(buf), Content(buf'))
    <2>1. x \in Int /\ n \in Nat /\ \A m \in 0..n : m \in 0..2
      OBVIOUS
    <2>2. IntBytes(x, n) \in Seq(Byte)
      BY <2>1, PowerAssumption, IntBytesAreBytes
    <2>3. buf' = append(buf, IntBytes(x, n))
      BY <1>5 DEF AppendInt, appendInt
    <2> QED BY <1>1, <2>2, <2>3, AppendAppends
  <1>6. ASSUME NEW n \in {1, 2}, ReadInt(n)
        PROVE  InOrder(buf') /\ IsSuffix(Content(buf'), Content(buf))
    <2>1. Bits * n \in Nat
      BY BufferAssumption
    <2> QED BY <1>2, <1>6, <2>1 DEF ReadInt, RetrieveInt
  <1>7. ASSUME NEW len \in 0..MaxContent, Retrieve(len)
        PROVE  InOrder(buf') /\ IsSuffix(Content(buf'), Content(buf))
    <2>1. len \in Nat
      BY BufferAssumption
    <2> QED BY <1>2, <1>7, <2>1 DEF Retrieve
  <1>8. CASE RetrieveAll
    <2>1. buf' = retrieve(buf, readableBytes(buf))
      BY <1>0, <1>8 DEF RetrieveAll, retrieve
    <2> QED BY <1>0, <1>2, <2>1
  <1> QED BY <1>4, <1>5, <1>6, <1>7, <1>8 DEF BufferNext

\* A new buffer is empty.
LEMMA BufferStarts == BufferInit => InOrder(buf)
  <1> SUFFICES ASSUME BufferInit PROVE InOrder(buf)
    OBVIOUS
  <1> DEFINE g == [i \in 1..InitialSize |-> 0]
  <1>1. buf = [bytes |-> g, r |-> 0, w |-> 0]
    BY DEF BufferInit, NewBuffer
  <1>2. InitialSize \in Nat /\ 0 \in Byte
    BY BufferAssumption DEF Byte
  <1>3. g \in Seq(Byte) /\ Len(g) = InitialSize
    BY <1>2
  <1> HIDE DEF g
  <1> QED BY <1>1, <1>2, <1>3 DEF InOrder, Record

\* The indices of Buffer stay in order and within the vector, which holds bytes:
\* after ensureWritableBytes there is room for what append, readFd and readFrom
\* store, and retrieve stays behind the writer's index.
THEOREM IndicesAreInOrder == BufferSpec => []IndexOrder
  <1>1. InOrder(buf) /\ [BufferNext]_buf => InOrder(buf)'
    <2> SUFFICES ASSUME InOrder(buf), [BufferNext]_buf PROVE InOrder(buf')
      OBVIOUS
    <2>1. CASE UNCHANGED buf
      BY <2>1
    <2> QED BY <2>1, BufferStep
  <1>2. InOrder(buf) => IndexOrder
    BY DEF InOrder, Record, IndexOrder
  <1> QED BY <1>1, <1>2, BufferStarts, PTL DEF BufferSpec

\* Whatever moving and resizing makeSpace does, a call adds bytes behind the
\* content or takes bytes off its front.
THEOREM ContentIsQueue == BufferSpec => BufferIsQueue
  <1>1. InOrder(buf) /\ [BufferNext]_buf => InOrder(buf)'
    <2> SUFFICES ASSUME InOrder(buf), [BufferNext]_buf PROVE InOrder(buf')
      OBVIOUS
    <2>1. CASE UNCHANGED buf
      BY <2>1
    <2> QED BY <2>1, BufferStep
  <1>2. InOrder(buf) /\ [BufferNext]_buf
           => [\/ IsPrefix(Content(buf), Content(buf'))
               \/ IsSuffix(Content(buf'), Content(buf))]_buf
    BY BufferStep
  <1> QED BY <1>1, <1>2, BufferStarts, PTL DEF BufferSpec, BufferIsQueue

-----------------------------------------------------------------------------
(* AsyncLogger *)

\* LogInOrder's relation between the lines kept, logged and lost.
Keeps(kept, log, gone) ==
    /\ ToSet(kept) = ToSet(log) \ gone
    /\ \A i, j \in DOMAIN kept : i < j =>
          \E m, n \in DOMAIN log : m < n /\ log[m] = kept[i] /\ log[n] = kept[j]

Once(s) == \A i, j \in DOMAIN s : s[i] = s[j] => i = j

Kept == disk \o cache \o writeBuffers \o buffers \o currBuffer

LogTypeInv ==
    /\ disk \in Seq(Line) /\ cache \in Seq(Line) /\ writeBuffers \in Seq(Line)
    /\ buffers \in Seq(Line) /\ currBuffer \in Seq(Line) /\ emptyBuffer \in Seq(Line)
    /\ logged \in Seq(Line)
    /\ lost \subseteq ToSet(logged)

\* Which buffers are empty while the writer is where it is; what the writer has
\* not reset it would hand to the callers, to be written a second time.
WriterInv ==
    /\ writer # "writing" => writeBuffers = <<>>
    /\ writer \in {"top", "waiting"} => emptyBuffer = <<>>
    /\ owner = "none" => writer = "none"

LogIndInv ==
    /\ LogTypeInv
    /\ WriterInv
    /\ Once(logged)
    /\ Keeps(Kept, logged, lost)

\* The property, in terms of that relation.
LEMMA KeptInOrder == LogInOrder <=> Keeps(Kept, logged, lost)
  BY DEF LogInOrder, Keeps, Kept

\* A buffer that was reset has all its room.
LEMMA AvailEmpty ==
    ASSUME Size \in Nat
    PROVE  avail(<<>>) = Size
  <1> DEFINE G(g) == [s \in SUBSET {} |->
                        IF s = {} THEN 0
                        ELSE <<>>[CHOOSE x \in s : TRUE].size + g[s \ {CHOOSE x \in s : TRUE}]]
             it == CHOOSE iter : iter = G(iter)
  <1>1. DOMAIN <<>> = {}
    OBVIOUS
  <1>2. avail(<<>>) = Size - it[{}]
    BY <1>1 DEF avail, FoldSeq, FoldFunction, FoldFunctionOnSet, MapThenFoldSet
  <1>3. \E g : g = G(g)
    <2> DEFINE g == [s \in SUBSET {} |-> 0]
    <2>1. g = G(g)
      OBVIOUS
    <2> QED BY <2>1
  <1>4. it = G(it)
    BY <1>3
  <1>5. it[{}] = 0
    BY <1>4
  <1> HIDE DEF it
  <1> QED BY <1>2, <1>5

\* A sequence cut in two.
LEMMA Cut ==
    ASSUME NEW S, NEW s \in Seq(S), NEW k \in 0..Len(s)
    PROVE  /\ SubSeq(s, 1, k) \in Seq(S) /\ SubSeq(s, k + 1, Len(s)) \in Seq(S)
           /\ s = SubSeq(s, 1, k) \o SubSeq(s, k + 1, Len(s))
  <1> DEFINE p == SubSeq(s, 1, k)
             q == SubSeq(s, k + 1, Len(s))
  <1>1. /\ p \in Seq(S) /\ q \in Seq(S) /\ Len(s) \in Nat
        /\ Len(p) = k /\ Len(q) = Len(s) - k
    OBVIOUS
  <1>2. /\ \A i \in 1..k : p[i] = s[i]
        /\ \A i \in 1..(Len(s) - k) : q[i] = s[k + i]
    OBVIOUS
  <1> HIDE DEF p, q
  <1>3. p \o q \in Seq(S) /\ Len(p \o q) = Len(s)
    BY <1>1
  <1>4. ASSUME NEW i \in 1..Len(s)
        PROVE  s[i] = (p \o q)[i]
    <2>1. CASE i <= k
      BY <1>1, <1>2, <2>1
    <2>2. CASE i > k
      <3>1. i - k \in 1..(Len(s) - k) /\ k + (i - k) = i
        BY <1>1, <2>2
      <3>2. (p \o q)[i] = q[i - k]
        BY <1>1, <2>2, <3>1
      <3> QED BY <1>2, <3>1, <3>2
    <2> QED BY <1>1, <2>1, <2>2
  <1>5. s = p \o q
    BY <1>3, <1>4, SeqEqual
  <1> QED BY <1>1, <1>5 DEF p, q

\* A line logged anew goes behind those that are kept.
LEMMA LineAdded ==
    ASSUME NEW S, NEW kept \in Seq(S), NEW log \in Seq(S), NEW gone, NEW l \in S,
           gone \subseteq ToSet(log), l \notin ToSet(log), Keeps(kept, log, gone)
    PROVE  Keeps(Append(kept, l), Append(log, l), gone)
  <1> DEFINE k2 == Append(kept, l)
             g2 == Append(log, l)
  <1>1. /\ DOMAIN k2 = 1..(Len(kept) + 1) /\ DOMAIN kept = 1..Len(kept) /\ Len(kept) \in Nat
        /\ \A i \in 1..Len(kept) : k2[i] = kept[i]
        /\ k2[Len(kept) + 1] = l
    OBVIOUS
  <1>2. /\ DOMAIN g2 = 1..(Len(log) + 1) /\ DOMAIN log = 1..Len(log) /\ Len(log) \in Nat
        /\ \A i \in 1..Len(log) : g2[i] = log[i]
        /\ g2[Len(log) + 1] = l
    OBVIOUS
  <1> HIDE DEF k2, g2
  <1>3. ToSet(k2) = ToSet(kept) \cup {l}
    BY <1>1 DEF ToSet
  <1>4. ToSet(g2) = ToSet(log) \cup {l}
    BY <1>2 DEF ToSet
  <1>5. ToSet(k2) = ToSet(g2) \ gone
    BY <1>3, <1>4 DEF Keeps
  <1>6. ASSUME NEW i \in DOMAIN k2, NEW j \in DOMAIN k2, i < j
        PROVE  \E m, n \in DOMAIN g2 : m < n /\ g2[m] = k2[i] /\ g2[n] = k2[j]
    <2>1. i \in DOMAIN kept /\ k2[i] = kept[i]
      BY <1>1, <1>6
    <2>2. CASE j \in DOMAIN kept
      <3>1. PICK m \in DOMAIN log, n \in DOMAIN log :
                m < n /\ log[m] = kept[i] /\ log[n] = kept[j]
        BY <1>6, <2>1, <2>2 DEF Keeps
      <3> QED BY <1>1, <1>2, <2>1, <2>2, <3>1
    <2>3. CASE j \notin DOMAIN kept
      <3>1. k2[j] = l
        BY <1>1, <2>3
      <3>2. kept[i] \in ToSet(log)
        BY <2>1 DEF Keeps, ToSet
      <3>3. PICK m \in DOMAIN log : log[m] = kept[i]
        BY <3>2 DEF ToSet
      <3>4. m \in DOMAIN g2 /\ Len(log) + 1 \in DOMAIN g2 /\ m < Len(log) + 1
        BY <1>2
      <3>5. g2[m] = k2[i] /\ g2[Len(log) + 1] = k2[j]
        BY <1>2, <2>1, <3>1, <3>3
      <3> QED BY <3>4, <3>5
    <2> QED BY <2>2, <2>3
  <1> QED BY <1>5, <1>6 DEF Keeps, k2, g2

\* Lines given up are missing from what is kept, and nothing else changes.
LEMMA LinesRemoved ==
    ASSUME NEW S, NEW a \in Seq(S), NEW cut \in Seq(S), NEW b \in Seq(S), NEW log \in Seq(S),
           NEW gone, Once(log), Keeps(a \o cut \o b, log, gone)
    PROVE  Keeps(a \o b, log, gone \cup ToSet(cut)) /\ ToSet(cut) \subseteq ToSet(log)
  <1> DEFINE k == a \o cut \o b
             k2 == a \o b
             at(i) == IF i <= Len(a) THEN i ELSE i + Len(cut)
  <1>1. /\ Len(a) \in Nat /\ Len(cut) \in Nat /\ Len(b) \in Nat
        /\ DOMAIN a = 1..Len(a) /\ DOMAIN cut = 1..Len(cut) /\ DOMAIN b = 1..Len(b)
    OBVIOUS
  <1>2. a \o cut \in Seq(S) /\ Len(a \o cut) = Len(a) + Len(cut)
    OBVIOUS
  <1>3. /\ DOMAIN k = 1..(Len(a) + Len(cut) + Len(b))
        /\ \A i \in 1..Len(a) : k[i] = a[i]
        /\ \A i \in 1..Len(cut) : k[Len(a) + i] = cut[i]
        /\ \A i \in 1..Len(b) : k[Len(a) + Len(cut) + i] = b[i]
    BY <1>1, <1>2
  <1>4. /\ DOMAIN k2 = 1..(Len(a) + Len(b))
        /\ \A i \in 1..Len(a) : k2[i] = a[i]
        /\ \A i \in 1..Len(b) : k2[Len(a) + i] = b[i]
    BY <1>1
  <1>5. Keeps(k, log, gone)
    OBVIOUS
  <1> HIDE DEF k, k2
  <1>6. \A i, j \in DOMAIN k : i < j => k[i] # k[j]
    <2> SUFFICES ASSUME NEW i \in DOMAIN k, NEW j \in DOMAIN k, i < j, k[i] = k[j]
                 PROVE  FALSE
      OBVIOUS
    <2>1. PICK m \in DOMAIN log, n \in DOMAIN log : m < n /\ log[m] = k[i] /\ log[n] = k[j]
      BY <1>5 DEF Keeps
    <2>2. m = n
      BY <2>1 DEF Once
    <2> QED BY <2>1, <2>2
  <1>7. \A i \in DOMAIN k2 : /\ at(i) \in DOMAIN k /\ k2[i] = k[at(i)]
                             /\ at(i) \notin (Len(a) + 1)..(Len(a) + Len(cut))
    <2> TAKE i \in DOMAIN k2
    <2>1. CASE i <= Len(a)
      BY <1>1, <1>3, <1>4, <2>1
    <2>2. CASE i > Len(a)
      <3>1. i \in Nat /\ i - Len(a) \in 1..Len(b) /\ i = Len(a) + (i - Len(a))
        BY <1>1, <1>4, <2>2
      <3>2. k2[i] = b[i - Len(a)]
        BY <1>4, <3>1
      <3>3. at(i) = Len(a) + Len(cut) + (i - Len(a)) /\ at(i) \in Nat
        BY <1>1, <2>2, <3>1
      <3>4. k[at(i)] = b[i - Len(a)]
        BY <1>3, <3>1, <3>3
      <3>5. at(i) \in DOMAIN k /\ at(i) \notin (Len(a) + 1)..(Len(a) + Len(cut))
        BY <1>1, <1>3, <3>1, <3>3
      <3> QED BY <3>2, <3>4, <3>5
    <2> QED BY <1>1, <1>4, <2>1, <2>2
  <1>8. ToSet(cut) \subseteq ToSet(k)
    <2> SUFFICES ASSUME NEW i \in 1..Len(cut) PROVE cut[i] \in ToSet(k)
      BY <1>1 DEF ToSet
    <2>1. Len(a) + i \in DOMAIN k /\ k[Len(a) + i] = cut[i]
      BY <1>1, <1>3
    <2> QED BY <2>1 DEF ToSet
  <1>9. ToSet(k2) = ToSet(k) \ ToSet(cut)
    <2>1. \A i \in DOMAIN k2 : k2[i] \in ToSet(k)
      BY <1>7 DEF ToSet
    <2>2. \A i \in DOMAIN k2 : k2[i] \notin ToSet(cut)
      <3> SUFFICES ASSUME NEW i \in DOMAIN k2, NEW c \in 1..Len(cut), k2[i] = cut[c]
                   PROVE  FALSE
        BY <1>1 DEF ToSet
      <3>1. PICK v \in DOMAIN k : v = Len(a) + c /\ k[v] = cut[c]
                                  /\ v \in (Len(a) + 1)..(Len(a) + Len(cut))
        <4>1. Len(a) + c \in DOMAIN k /\ Len(a) + c \in (Len(a) + 1)..(Len(a) + Len(cut))
          BY <1>1, <1>3
        <4>2. k[Len(a) + c] = cut[c]
          BY <1>3
        <4> QED BY <4>1, <4>2
      <3>2. PICK u \in DOMAIN k : k[u] = cut[c] /\ u # v
        BY <1>7, <3>1
      <3>3. u < v \/ v < u
        BY <1>1, <1>3, <3>2
      <3> QED BY <1>6, <3>1, <3>2, <3>3
    <2>3. ASSUME NEW i \in DOMAIN k, k[i] \notin ToSet(cut)
          PROVE  k[i] \in ToSet(k2)
      <3>1. CASE i <= Len(a)
        <4>1. i \in DOMAIN k2 /\ k2[i] = k[i]
          BY <1>1, <1>3, <1>4, <3>1
        <4> QED BY <4>1 DEF ToSet
      <3>2. CASE i > Len(a) /\ i <= Len(a) + Len(cut)
        <4>1. i - Len(a) \in 1..Len(cut) /\ i = Len(a) + (i - Len(a))
          BY <1>1, <1>3, <3>2
        <4>2. k[i] = cut[i - Len(a)]
          BY <1>3, <4>1
        <4> QED BY <1>1, <2>3, <4>1, <4>2 DEF ToSet
      <3>3. CASE i > Len(a) + Len(cut)
        <4> DEFINE c == i - Len(a) - Len(cut)
        <4>1. c \in 1..Len(b) /\ i = Len(a) + Len(cut) + c
          BY <1>1, <1>3, <3>3
        <4> HIDE DEF c
        <4>2. k[i] = b[c] /\ k2[Len(a) + c] = b[c] /\ Len(a) + c \in DOMAIN k2
          BY <1>1, <1>3, <1>4, <4>1
        <4> QED BY <4>2 DEF ToSet
      <3> QED BY <1>1, <1>3, <3>1, <3>2, <3>3
    <2> QED BY <2>1, <2>2, <2>3 DEF ToSet
  <1>10. ToSet(k2) = ToSet(log) \ (gone \cup ToSet(cut)) /\ ToSet(cut) \subseteq ToSet(log)
    BY <1>5, <1>8, <1>9 DEF Keeps
  <1>11. ASSUME NEW i \in DOMAIN k2, NEW j \in DOMAIN k2, i < j
         PROVE  \E m, n \in DOMAIN log : m < n /\ log[m] = k2[i] /\ log[n] = k2[j]
    <2>1. at(i) < at(j)
      BY <1>1, <1>4, <1>11
    <2>2. at(i) \in DOMAIN k /\ at(j) \in DOMAIN k /\ k2[i] = k[at(i)] /\ k2[j] = k[at(j)]
      BY <1>7
    <2> HIDE DEF at
    <2> QED BY <1>5, <2>1, <2>2 DEF Keeps
  <1> QED BY <1>10, <1>11 DEF Keeps, k2

\* Lines joined in either order.
LEMMA LinesGrouped ==
    \A a, b, c \in Seq(Line) : (a \o b) \o c = a \o (b \o c)
  BY ConcatAssociative

\* The lines kept are lines.
LEMMA LineTypes ==
    ASSUME LogTypeInv
    PROVE  Kept \in Seq(Line)
  BY DEF LogTypeInv, Kept

\* One line into the current buffer, or into a new one when that is full.
LEMMA LineStep ==
    ASSUME LogIndInv, NEW l \in Line, LogLine(l)
    PROVE  LogIndInv'
  <1>1. l.size \in 1..(Size - 1) /\ Size \in Nat
    BY LineAssumption
  <1>2. /\ UNCHANGED <<emptyBuffer, writeBuffers, disk, cache, writer, owner, lost>>
        /\ l \notin ToSet(logged)
        /\ AppendLine(l)
    BY DEF LogLine, files
  <1>3. logged' = Append(logged, l)
    BY <1>2 DEF AppendLine
  <1>4. LogTypeInv /\ WriterInv /\ Once(logged) /\ Keeps(Kept, logged, lost)
    BY DEF LogIndInv
  <1> DEFINE head == disk \o cache \o writeBuffers
  <1>5. head \in Seq(Line) /\ buffers \in Seq(Line) /\ currBuffer \in Seq(Line)
        /\ <<l>> \in Seq(Line) /\ <<>> \in Seq(Line)
    BY <1>4 DEF LogTypeInv
  <1> HIDE DEF head
  <1>6. /\ buffers' \in Seq(Line) /\ currBuffer' \in Seq(Line)
        /\ (head \o buffers') \o currBuffer' = Append((head \o buffers) \o currBuffer, l)
    <2>1. CASE avail(currBuffer) <= l.size
      <3>1. FixedAppend(<<>>, l) = Append(<<>>, l)
        BY <1>1, AvailEmpty DEF FixedAppend
      <3>2. buffers' = buffers \o currBuffer /\ currBuffer' = <<l>>
        BY <1>2, <2>1, <3>1 DEF AppendLine
      <3>3. head \o (buffers \o currBuffer) = (head \o buffers) \o currBuffer
        <4>1. head \in Seq(Line) /\ buffers \in Seq(Line) /\ currBuffer \in Seq(Line)
          BY <1>5
        <4> QED BY <4>1, LinesGrouped, Zenon
      <3>4. (head \o buffers) \o currBuffer \in Seq(Line) /\ buffers \o currBuffer \in Seq(Line)
        BY <1>5
      <3> QED BY <1>5, <3>2, <3>3, <3>4, AppendIsConcat
    <2>2. CASE ~(avail(currBuffer) <= l.size)
      <3>1. buffers' = buffers /\ currBuffer' = Append(currBuffer, l)
        BY <1>2, <2>2 DEF AppendLine, FixedAppend
      <3>2. head \o buffers \in Seq(Line)
        BY <1>5
      <3>3. (head \o buffers) \o (currBuffer \o <<l>>) = ((head \o buffers) \o currBuffer) \o <<l>>
        <4> DEFINE a == head \o buffers
                   x == <<l>>
        <4>1. a \in Seq(Line) /\ currBuffer \in Seq(Line) /\ x \in Seq(Line)
          BY <1>5, <3>2
        <4> HIDE DEF a, x
        <4>2. (a \o currBuffer) \o x = a \o (currBuffer \o x)
          BY <4>1, LinesGrouped, Zenon
        <4> QED BY <4>2 DEF a, x
      <3>4. (head \o buffers) \o currBuffer \in Seq(Line) /\ Append(currBuffer, l) \in Seq(Line)
        BY <1>5, <3>2
      <3> QED BY <1>5, <3>1, <3>3, <3>4, AppendIsConcat
    <2> QED BY <2>1, <2>2
  <1>7. head' = head
    BY <1>2 DEF head
  <1>8. Kept' = Append(Kept, l)
    BY <1>6, <1>7 DEF Kept, head
  <1>9. Keeps(Append(Kept, l), Append(logged, l), lost)
    <2>1. Kept \in Seq(Line) /\ logged \in Seq(Line) /\ lost \subseteq ToSet(logged)
      BY <1>4, LineTypes DEF LogTypeInv
    <2> QED BY <1>2, <1>4, <2>1, LineAdded
  <1>10. Keeps(Kept', logged', lost')
    BY <1>2, <1>3, <1>8, <1>9
  <1>11. /\ logged' \in Seq(Line) /\ ToSet(logged) \subseteq ToSet(logged')
         /\ Once(logged')
    <2>1. /\ DOMAIN logged' = 1..(Len(logged) + 1) /\ DOMAIN logged = 1..Len(logged)
          /\ Len(logged) \in Nat
          /\ \A i \in 1..Len(logged) : logged'[i] = logged[i]
          /\ logged'[Len(logged) + 1] = l /\ logged' \in Seq(Line)
      BY <1>3, <1>4 DEF LogTypeInv
    <2>2. \A i \in DOMAIN logged : logged[i] # l
      BY <1>2 DEF ToSet
    <2>3. Once(logged')
      BY <1>4, <2>1, <2>2 DEF Once
    <2>4. ToSet(logged) \subseteq ToSet(logged')
      BY <2>1 DEF ToSet
    <2> QED BY <2>1, <2>3, <2>4
  <1>12. LogTypeInv'
    BY <1>2, <1>4, <1>6, <1>11 DEF LogTypeInv
  <1>13. WriterInv'
    BY <1>2, <1>4 DEF WriterInv
  <1> QED BY <1>10, <1>11, <1>12, <1>13 DEF LogIndInv, Kept, Once

\* A step that loses no line, and that moves lines only along their way.
LEMMA MovedOn ==
    ASSUME LogIndInv, LogTypeInv', WriterInv', Kept' = Kept, UNCHANGED <<logged, lost>>
    PROVE  LogIndInv'
  BY DEF LogIndInv, Once, Keeps

\* A step that loses the lines cut out of the middle of those that are kept.
LEMMA LinesLost ==
    ASSUME LogIndInv, WriterInv',
           NEW a \in Seq(Line), NEW cut \in Seq(Line), NEW b \in Seq(Line),
           Kept = a \o cut \o b, Kept' = a \o b,
           logged' = logged, lost' = lost \cup ToSet(cut),
           disk' \in Seq(Line) /\ cache' \in Seq(Line) /\ writeBuffers' \in Seq(Line),
           buffers' \in Seq(Line) /\ currBuffer' \in Seq(Line) /\ emptyBuffer' \in Seq(Line)
    PROVE  LogIndInv'
  <1>1. LogTypeInv /\ Once(logged) /\ Keeps(a \o cut \o b, logged, lost)
    BY DEF LogIndInv
  <1>2. Keeps(a \o b, logged, lost \cup ToSet(cut)) /\ ToSet(cut) \subseteq ToSet(logged)
    BY <1>1, LinesRemoved DEF LogTypeInv
  <1>3. LogTypeInv'
    BY <1>1, <1>2 DEF LogTypeInv
  <1>4. Once(logged') /\ Keeps(Kept', logged', lost')
    BY <1>1, <1>2
  <1> QED BY <1>3, <1>4 DEF LogIndInv, Kept, Once

\* Everything written is flushed.
LEMMA Flushed ==
    ASSUME LogTypeInv, Flush, UNCHANGED <<writeBuffers, buffers, currBuffer>>
    PROVE  Kept' = Kept /\ disk' \in Seq(Line) /\ cache' = <<>>
  <1>1. disk \o cache \in Seq(Line) /\ (disk \o cache) \o <<>> = disk \o cache
    BY DEF LogTypeInv
  <1> QED BY <1>1 DEF Flush, Kept

\* abort() loses what the FILE has not written.
LEMMA AbortStep ==
    ASSUME LogIndInv, Abort
    PROVE  LogIndInv'
  <1>1. LogTypeInv /\ WriterInv
    BY DEF LogIndInv
  <1>2. PICK k \in 0..Len(cache) :
           /\ disk' = disk \o SubSeq(cache, 1, k)
           /\ lost' = lost \cup ToSet(SubSeq(cache, k + 1, Len(cache)))
    BY DEF Abort
  <1>3. /\ cache' = <<>>
        /\ UNCHANGED <<buffers, currBuffer, emptyBuffer, writeBuffers, writer, owner, logged>>
    BY DEF Abort
  <1> DEFINE p == SubSeq(cache, 1, k)
             q == SubSeq(cache, k + 1, Len(cache))
  <1>4. p \in Seq(Line) /\ q \in Seq(Line) /\ cache = p \o q
    BY <1>1, Cut DEF LogTypeInv
  <1> HIDE DEF p, q
  <1> DEFINE b == (writeBuffers \o buffers) \o currBuffer
  <1>5. /\ disk \in Seq(Line) /\ writeBuffers \in Seq(Line) /\ buffers \in Seq(Line)
        /\ currBuffer \in Seq(Line) /\ disk \o p \in Seq(Line) /\ (disk \o p) \o q \in Seq(Line)
        /\ b \in Seq(Line) /\ writeBuffers \o buffers \in Seq(Line)
    BY <1>1, <1>4 DEF LogTypeInv
  <1>6. \A a \in Seq(Line) : ((a \o writeBuffers) \o buffers) \o currBuffer = a \o b
    <2> TAKE a \in Seq(Line)
    <2> DEFINE x == writeBuffers \o buffers
    <2>1. writeBuffers \in Seq(Line) /\ buffers \in Seq(Line)
      BY <1>5
    <2>2. (a \o writeBuffers) \o buffers = a \o x
      BY <2>1, LinesGrouped, Zenon
    <2>3. x \in Seq(Line) /\ currBuffer \in Seq(Line)
      BY <1>5
    <2> HIDE DEF x
    <2>4. (a \o x) \o currBuffer = a \o (x \o currBuffer)
      BY <2>3, LinesGrouped, Zenon
    <2> QED BY <2>2, <2>4 DEF x
  <1> HIDE DEF b
  <1>7. disk \o cache = (disk \o p) \o q
    <2>1. disk \in Seq(Line) /\ p \in Seq(Line) /\ q \in Seq(Line)
      BY <1>4, <1>5
    <2>2. (disk \o p) \o q = disk \o (p \o q)
      BY <2>1, LinesGrouped, Zenon
    <2> QED BY <1>4, <2>2
  <1>8. Kept = ((disk \o p) \o q) \o b
    BY <1>5, <1>6, <1>7 DEF Kept
  <1>9. Kept' = (disk \o p) \o b
    <2>1. disk' \o cache' = disk \o p
      BY <1>2, <1>3, <1>5 DEF p
    <2> QED BY <1>3, <1>5, <1>6, <2>1 DEF Kept
  <1>10. WriterInv'
    BY <1>1, <1>3 DEF WriterInv
  <1>11. lost' = lost \cup ToSet(q) /\ disk' = disk \o p
    BY <1>2 DEF p, q
  <1>12. /\ disk' \in Seq(Line) /\ cache' \in Seq(Line) /\ writeBuffers' \in Seq(Line)
         /\ buffers' \in Seq(Line) /\ currBuffer' \in Seq(Line) /\ emptyBuffer' \in Seq(Line)
    BY <1>1, <1>3, <1>5, <1>11 DEF LogTypeInv
  <1> QED BY <1>3, <1>4, <1>5, <1>8, <1>9, <1>10, <1>11, <1>12, LinesLost

\* fwrite() moves lines from the writer's buffers to the FILE.
LEMMA WritesStep ==
    ASSUME LogIndInv, WriterWrites
    PROVE  LogIndInv'
  <1>1. LogTypeInv /\ WriterInv
    BY DEF LogIndInv
  <1>2. PICK k \in 1..Len(writeBuffers) :
           /\ cache' = cache \o SubSeq(writeBuffers, 1, k)
           /\ writeBuffers' = SubSeq(writeBuffers, k + 1, Len(writeBuffers))
    BY DEF WriterWrites
  <1>3. /\ writer = "writing"
        /\ UNCHANGED <<buffers, currBuffer, emptyBuffer, disk, writer, owner, logged, lost>>
    BY DEF WriterWrites
  <1> DEFINE p == SubSeq(writeBuffers, 1, k)
             q == SubSeq(writeBuffers, k + 1, Len(writeBuffers))
  <1>4. p \in Seq(Line) /\ q \in Seq(Line) /\ writeBuffers = p \o q
    <2>1. k \in 0..Len(writeBuffers) /\ writeBuffers \in Seq(Line)
      BY <1>1 DEF LogTypeInv
    <2> QED BY <2>1, Cut
  <1>5. cache' = cache \o p /\ writeBuffers' = q
    BY <1>2
  <1> HIDE DEF p, q
  <1>6. disk \in Seq(Line) /\ cache \in Seq(Line) /\ disk \o cache \in Seq(Line)
        /\ cache \o p \in Seq(Line)
    BY <1>1, <1>4 DEF LogTypeInv
  <1>7. (disk \o (cache \o p)) \o q = (disk \o cache) \o (p \o q)
    <2> DEFINE a == disk \o cache
    <2>1. disk \in Seq(Line) /\ cache \in Seq(Line) /\ p \in Seq(Line)
      BY <1>4, <1>6
    <2>2. a \o p = disk \o (cache \o p)
      BY <2>1, LinesGrouped, Zenon
    <2>3. a \in Seq(Line) /\ p \in Seq(Line) /\ q \in Seq(Line)
      BY <1>4, <1>6
    <2> HIDE DEF a
    <2>4. (a \o p) \o q = a \o (p \o q)
      BY <2>3, LinesGrouped, Zenon
    <2> QED BY <2>2, <2>4 DEF a
  <1>8. Kept' = Kept
    BY <1>3, <1>4, <1>5, <1>7 DEF Kept
  <1>9. LogTypeInv'
    BY <1>1, <1>3, <1>4, <1>5, <1>6 DEF LogTypeInv
  <1>10. WriterInv'
    BY <1>1, <1>3 DEF WriterInv
  <1> QED BY <1>3, <1>8, <1>9, <1>10, MovedOn

\* A failing fwrite() loses lines of the writer's buffers.
LEMMA GivesUpStep ==
    ASSUME LogIndInv, WriterGivesUp
    PROVE  LogIndInv'
  <1>1. LogTypeInv /\ WriterInv
    BY DEF LogIndInv
  <1>2. PICK k \in 1..Len(writeBuffers) :
           /\ lost' = lost \cup ToSet(SubSeq(writeBuffers, 1, k))
           /\ writeBuffers' = SubSeq(writeBuffers, k + 1, Len(writeBuffers))
    BY DEF WriterGivesUp
  <1>3. /\ writer = "writing"
        /\ UNCHANGED <<buffers, currBuffer, emptyBuffer, disk, cache, writer, owner, logged>>
    BY DEF WriterGivesUp, files
  <1> DEFINE p == SubSeq(writeBuffers, 1, k)
             q == SubSeq(writeBuffers, k + 1, Len(writeBuffers))
  <1>4. p \in Seq(Line) /\ q \in Seq(Line) /\ writeBuffers = p \o q
    <2>1. k \in 0..Len(writeBuffers) /\ writeBuffers \in Seq(Line)
      BY <1>1 DEF LogTypeInv
    <2> QED BY <2>1, Cut
  <1>5. lost' = lost \cup ToSet(p) /\ writeBuffers' = q
    BY <1>2
  <1> HIDE DEF p, q
  <1> DEFINE a == disk \o cache
             b == (q \o buffers) \o currBuffer
  <1>6. /\ a \in Seq(Line) /\ buffers \in Seq(Line) /\ currBuffer \in Seq(Line)
        /\ b \in Seq(Line) /\ q \o buffers \in Seq(Line) /\ a \o p \in Seq(Line)
    BY <1>1, <1>4 DEF LogTypeInv
  <1>7. \A s \in Seq(Line) : ((s \o q) \o buffers) \o currBuffer = s \o b
    <2> TAKE s \in Seq(Line)
    <2> DEFINE x == q \o buffers
    <2>1. q \in Seq(Line) /\ buffers \in Seq(Line)
      BY <1>4, <1>6
    <2>2. (s \o q) \o buffers = s \o x
      BY <2>1, LinesGrouped, Zenon
    <2>3. x \in Seq(Line) /\ currBuffer \in Seq(Line)
      BY <1>6
    <2> HIDE DEF x
    <2>4. (s \o x) \o currBuffer = s \o (x \o currBuffer)
      BY <2>3, LinesGrouped, Zenon
    <2> QED BY <2>2, <2>4 DEF x
  <1> HIDE DEF b
  <1>8. Kept = ((disk \o cache) \o writeBuffers \o buffers) \o currBuffer
        /\ Kept' = ((disk \o cache) \o q \o buffers) \o currBuffer
    BY <1>3, <1>5 DEF Kept
  <1> HIDE DEF a
  <1>9. a \o writeBuffers = (a \o p) \o q
    <2>1. a \in Seq(Line) /\ p \in Seq(Line) /\ q \in Seq(Line)
      BY <1>4, <1>6
    <2>2. (a \o p) \o q = a \o (p \o q)
      BY <2>1, LinesGrouped, Zenon
    <2> QED BY <1>4, <2>2
  <1>10. Kept = (a \o p) \o b /\ Kept' = a \o b
    BY <1>6, <1>7, <1>8, <1>9 DEF a
  <1>11. WriterInv'
    BY <1>1, <1>3 DEF WriterInv
  <1>12. /\ disk' \in Seq(Line) /\ cache' \in Seq(Line) /\ writeBuffers' \in Seq(Line)
         /\ buffers' \in Seq(Line) /\ currBuffer' \in Seq(Line) /\ emptyBuffer' \in Seq(Line)
    BY <1>1, <1>3, <1>4, <1>5 DEF LogTypeInv
  <1> QED BY <1>3, <1>4, <1>5, <1>6, <1>10, <1>11, <1>12, LinesLost

\* The writer swaps the buffers; what it puts in is empty.
LEMMA TakesStep ==
    ASSUME LogIndInv, WriterTakes
    PROVE  LogIndInv'
  <1>1. LogTypeInv /\ WriterInv
    BY DEF LogIndInv
  <1>2. /\ writeBuffers' = buffers \o currBuffer /\ buffers' = <<>>
        /\ currBuffer' = emptyBuffer /\ emptyBuffer' = currBuffer
        /\ writer = "waiting" /\ writer' = "writing"
        /\ UNCHANGED <<disk, cache, owner, logged, lost>>
    BY DEF WriterTakes, files
  <1>3. writeBuffers = <<>> /\ emptyBuffer = <<>> /\ owner # "none"
    BY <1>1, <1>2 DEF WriterInv
  <1> DEFINE a == disk \o cache
  <1>4. /\ a \in Seq(Line) /\ buffers \in Seq(Line) /\ currBuffer \in Seq(Line)
        /\ buffers \o currBuffer \in Seq(Line) /\ <<>> \in Seq(Line)
        /\ a \o (buffers \o currBuffer) \in Seq(Line)
    BY <1>1 DEF LogTypeInv
  <1>5. Kept = a \o writeBuffers \o buffers \o currBuffer
        /\ Kept' = a \o (buffers \o currBuffer) \o <<>> \o <<>>
    BY <1>2, <1>3 DEF Kept
  <1> HIDE DEF a
  <1>6. a \o writeBuffers = a
    BY <1>3, <1>4
  <1>7. Kept' = a \o (buffers \o currBuffer)
    BY <1>4, <1>5
  <1>8. Kept' = Kept
    <2>1. a \in Seq(Line) /\ buffers \in Seq(Line) /\ currBuffer \in Seq(Line)
      BY <1>4
    <2>2. (a \o buffers) \o currBuffer = a \o (buffers \o currBuffer)
      BY <2>1, LinesGrouped, Zenon
    <2> QED BY <1>5, <1>6, <1>7, <2>2
  <1>9. LogTypeInv'
    BY <1>1, <1>2, <1>3, <1>4 DEF LogTypeInv
  <1>10. WriterInv'
    BY <1>2, <1>3 DEF WriterInv
  <1> QED BY <1>2, <1>8, <1>9, <1>10, MovedOn

\* The steps that move no line or flush.
LEMMA OtherLogSteps ==
    ASSUME LogIndInv,
           \/ WriterChecks \/ WriterEnds \/ StopLogger \/ JoinWriter
           \/ \E level \in {0, 2} : Launch(level)
           \/ UNCHANGED logvars
    PROVE  LogIndInv'
  <1>1. LogTypeInv /\ WriterInv
    BY DEF LogIndInv
  <1> <<>> \in Seq(Line)
    OBVIOUS
  <1>2. CASE WriterChecks \/ StopLogger \/ JoinWriter \/ UNCHANGED logvars
    <2>1. UNCHANGED <<disk, cache, writeBuffers, buffers, currBuffer, emptyBuffer, logged, lost>>
      BY <1>2 DEF WriterChecks, StopLogger, JoinWriter, logvars, files
    <2>2. Kept' = Kept /\ LogTypeInv'
      BY <1>1, <2>1 DEF Kept, LogTypeInv
    <2>3. WriterInv'
      BY <1>1, <1>2 DEF WriterInv, WriterChecks, StopLogger, JoinWriter, logvars
    <2> QED BY <2>1, <2>2, <2>3, MovedOn
  <1>3. CASE WriterEnds
    <2>1. /\ Flush /\ emptyBuffer' = <<>> /\ writer' = "top" /\ writeBuffers = <<>>
          /\ writer = "writing"
          /\ UNCHANGED <<buffers, currBuffer, writeBuffers, owner, logged, lost>>
      BY <1>3 DEF WriterEnds
    <2>2. Kept' = Kept /\ LogTypeInv'
      BY <1>1, <2>1, Flushed DEF LogTypeInv
    <2>3. WriterInv'
      BY <1>1, <2>1 DEF WriterInv
    <2> QED BY <2>1, <2>2, <2>3, MovedOn
  <1>4. CASE \E level \in {0, 2} : Launch(level)
    <2>1. /\ Flush /\ emptyBuffer' = <<>> /\ writer' = "top" /\ owner = "none" /\ owner' = "up"
          /\ UNCHANGED <<buffers, currBuffer, writeBuffers, logged, lost>>
      BY <1>4 DEF Launch, SetPath
    <2>2. Kept' = Kept /\ LogTypeInv'
      BY <1>1, <2>1, Flushed DEF LogTypeInv
    <2>3. WriterInv'
      BY <1>1, <2>1 DEF WriterInv
    <2> QED BY <2>1, <2>2, <2>3, MovedOn
  <1> QED BY <1>2, <1>3, <1>4

\* No line is logged at first.
LEMMA LogStarts == LogInit => LogIndInv
  <1> SUFFICES ASSUME LogInit PROVE LogIndInv
    OBVIOUS
  <1>1. <<>> \in Seq(Line) /\ DOMAIN <<>> = {} /\ <<>> \o <<>> = <<>>
    OBVIOUS
  <1>2. Kept = <<>> /\ logged = <<>> /\ lost = {}
    BY <1>1 DEF LogInit, Kept
  <1>3. LogTypeInv
    BY <1>1 DEF LogInit, LogTypeInv
  <1>4. WriterInv
    BY DEF LogInit, WriterInv
  <1> QED BY <1>1, <1>2, <1>3, <1>4 DEF LogIndInv, Once, Keeps, ToSet

\* Whatever lines the threads log and however large the buffers are, what is in the
\* file, in the FILE's cache and in the buffers together is every line logged and
\* not given up, in the order of log() and once (AsyncLogger::append, threadFunc,
\* AppendFile::append, LoggerLauncher).
THEOREM LinesStayInOrder == LogSpec => []LogInOrder
  <1>1. LogInit => LogIndInv
    BY LogStarts
  <1>2. LogIndInv /\ [LogNext]_logvars => LogIndInv'
    BY LineStep, AbortStep, WritesStep, GivesUpStep, TakesStep, OtherLogSteps DEF LogNext
  <1>3. LogIndInv => LogInOrder
    BY KeptInOrder DEF LogIndInv
  <1> QED BY <1>1, <1>2, <1>3, PTL DEF LogSpec

-----------------------------------------------------------------------------
(* Pipeline *)

\* e says where in s each frame of the payloads f that come after the first
\* "from" ends: s is those frames, one after the other.
Ends(e, s, from, f) ==
    /\ e \in [from..Len(f) -> Nat]
    /\ e[from] = 0 /\ e[Len(f)] = Len(s)
    /\ \A i, j \in from..Len(f) : i <= j => e[i] <= e[j]
    /\ \A i \in (from + 1)..Len(f) :
          /\ e[i] = e[i - 1] + Len(Frame(f[i]))
          /\ \A x \in 1..Len(Frame(f[i])) : s[e[i - 1] + x] = Frame(f[i])[x]

FramesAhead(s, from, f) == \E e : Ends(e, s, from, f)

PipeTypeInv ==
    /\ InOrder(buf) /\ stream \in Seq(Byte)
    /\ frames \in Seq(Payload) /\ handled \in Seq(Payload)
    /\ crashed \in BOOLEAN

\* What is in the buffer and on the way are the frames not yet handled.
PipeInv ==
    /\ PipeTypeInv
    /\ Len(handled) <= Len(frames)
    /\ \A i \in 1..Len(handled) : handled[i] = frames[i]
    /\ FramesAhead(Content(buf) \o stream, Len(handled), frames)
    /\ crashed => ~FrameReady(buf)

\* The header has room for the length.
LEMMA HeaderIsNat == HeaderBits \in Nat \ {0} /\ Width \in Nat \ {0} /\ Width <= HeaderBits
  <1> DEFINE h == Bits * Width
  <1>1. Bits \in Nat /\ Bits >= 1 /\ Width \in Nat /\ Width >= 1
    BY BufferAssumption, PayloadAssumption
  <1>2. h \in Nat /\ h >= Width
    BY <1>1
  <1> HIDE DEF h
  <1> QED BY <1>1, <1>2 DEF HeaderBits, h

\* The parts of a frame.
LEMMA FrameIs ==
    ASSUME NEW p \in Payload
    PROVE  /\ Frame(p) \in Seq(Byte) /\ Len(Frame(p)) = HeaderBits + Len(p) /\ Len(p) \in Nat
           /\ IntBytes(Len(p), Width) \in Seq(Byte) /\ Len(IntBytes(Len(p), Width)) = Width
           /\ \A i \in 1..Width : Frame(p)[i] = IntBytes(Len(p), Width)[i]
           /\ \A i \in 1..Len(p) : Frame(p)[HeaderBits + i] = p[i]
  <1> DEFINE a == IntBytes(Len(p), Width)
             z == [i \in 1..(HeaderBits - Width) |-> 0]
  <1>1. p \in Seq(Byte) /\ Len(p) \in Nat
    BY PayloadAssumption
  <1>2. a \in Seq(Byte) /\ Len(a) = Width
    <2>1. Len(p) \in Int /\ Width \in Nat
      BY <1>1, HeaderIsNat
    <2>2. \A m \in 0..Width : Base^m \in Nat \ {0}
      BY PositionAssumption
    <2> QED BY <2>1, <2>2, IntBytesAreBytes
  <1>3. z \in Seq(Byte) /\ Len(z) = HeaderBits - Width
    <2>1. HeaderBits - Width \in Nat /\ 0 \in Byte
      BY HeaderIsNat, BufferAssumption DEF Byte
    <2> QED BY <2>1
  <1>4. Frame(p) = a \o z \o p
    BY DEF Frame
  <1> HIDE DEF a, z
  <1>5. a \o z \in Seq(Byte) /\ Len(a \o z) = HeaderBits
        /\ \A i \in 1..Width : (a \o z)[i] = a[i]
    BY <1>2, <1>3, HeaderIsNat
  <1> DEFINE c == a \o z
  <1> HIDE DEF c
  <1>6. c \in Seq(Byte) /\ Len(c) = HeaderBits /\ \A i \in 1..Width : c[i] = a[i]
    BY <1>5 DEF c
  <1>7. /\ c \o p \in Seq(Byte) /\ Len(c \o p) = HeaderBits + Len(p)
        /\ \A i \in 1..HeaderBits : (c \o p)[i] = c[i]
        /\ \A i \in 1..Len(p) : (c \o p)[HeaderBits + i] = p[i]
    BY <1>1, <1>6, HeaderIsNat
  <1>8. \A i \in 1..Width : i \in 1..HeaderBits
    BY HeaderIsNat
  <1> QED BY <1>1, <1>2, <1>4, <1>6, <1>7, <1>8 DEF a, c

\* A frame that is sent ends the stream.
LEMMA FrameSent ==
    ASSUME NEW s \in Seq(Byte), NEW f \in Seq(Payload), NEW from \in 0..Len(f),
           NEW p \in Payload, FramesAhead(s, from, f)
    PROVE  FramesAhead(s \o Frame(p), from, Append(f, p))
  <1> DEFINE n == Len(f)
             l == Len(Frame(p))
             t == s \o Frame(p)
             g == Append(f, p)
  <1>1. PICK e : Ends(e, s, from, f)
    BY DEF FramesAhead
  <1>2. n \in Nat /\ Len(s) \in Nat /\ from \in Nat /\ from <= n
    OBVIOUS
  <1>3. l \in Nat /\ Frame(p) \in Seq(Byte)
    BY FrameIs
  <1>4. /\ Len(t) = Len(s) + l
        /\ \A x \in 1..Len(s) : t[x] = s[x]
        /\ \A x \in 1..l : t[Len(s) + x] = Frame(p)[x]
    BY <1>3
  <1>5. /\ Len(g) = n + 1 /\ g[n + 1] = p
        /\ \A i \in 1..n : g[i] = f[i]
    OBVIOUS
  <1>6. /\ e \in [from..n -> Nat] /\ e[from] = 0 /\ e[n] = Len(s)
        /\ \A i, j \in from..n : i <= j => e[i] <= e[j]
        /\ \A i \in (from + 1)..n :
              /\ e[i] = e[i - 1] + Len(Frame(f[i]))
              /\ \A x \in 1..Len(Frame(f[i])) : s[e[i - 1] + x] = Frame(f[i])[x]
    BY <1>1 DEF Ends
  <1>0. \A i \in 1..n : f[i] \in Payload
    OBVIOUS
  <1> HIDE DEF n, l, t, g
  <1> DEFINE e2 == [i \in from..(n + 1) |-> IF i <= n THEN e[i] ELSE Len(s) + l]
  <1>7. /\ e2 \in [from..(n + 1) -> Nat] /\ e2[n + 1] = Len(s) + l
        /\ \A i \in from..n : e2[i] = e[i] /\ e[i] \in Nat /\ e[i] <= Len(s)
    <2>1. \A i \in from..(n + 1) : (IF i <= n THEN e[i] ELSE Len(s) + l) \in Nat
      <3>1. \A i \in from..(n + 1) : i <= n => i \in from..n
        BY <1>2
      <3> QED BY <1>2, <1>3, <1>6, <3>1
    <2>2. n + 1 \in from..(n + 1) /\ ~(n + 1 <= n)
      BY <1>2
    <2>3. \A i \in from..n : i \in from..(n + 1) /\ i <= n /\ n \in from..n
      BY <1>2
    <2> QED BY <1>6, <2>1, <2>2, <2>3
  <1> HIDE DEF e2
  <1>8. e2[from] = 0
    BY <1>2, <1>6, <1>7
  <1>9. ASSUME NEW i \in from..(n + 1), NEW j \in from..(n + 1), i <= j
        PROVE  e2[i] <= e2[j]
    <2>1. CASE j <= n
      <3>1. i \in from..n /\ j \in from..n
        BY <1>2, <1>9, <2>1
      <3> QED BY <1>6, <1>7, <1>9, <3>1
    <2>2. CASE j > n /\ i <= n
      <3>1. i \in from..n /\ j = n + 1
        BY <1>2, <2>2
      <3>2. e2[i] <= Len(s) /\ e2[i] \in Nat /\ e2[j] = Len(s) + l
        BY <1>7, <3>1
      <3> QED BY <1>2, <1>3, <3>2
    <2>3. CASE j > n /\ i > n
      <3>1. i = n + 1 /\ j = n + 1
        BY <1>2, <2>3
      <3> QED BY <1>2, <1>3, <1>7, <3>1
    <2> QED BY <1>2, <2>1, <2>2, <2>3
  <1>10. ASSUME NEW i \in (from + 1)..(n + 1)
         PROVE  /\ e2[i] = e2[i - 1] + Len(Frame(g[i]))
                /\ \A x \in 1..Len(Frame(g[i])) : t[e2[i - 1] + x] = Frame(g[i])[x]
    <2>1. CASE i <= n
      <3>1. /\ i \in (from + 1)..n /\ i \in from..n /\ i - 1 \in from..n /\ i \in 1..n
        BY <1>2, <2>1
      <3>2. e2[i] = e[i] /\ e2[i - 1] = e[i - 1] /\ g[i] = f[i] /\ e[i - 1] \in Nat
            /\ e[i] <= Len(s)
        BY <1>5, <1>7, <3>1
      <3>3. /\ e[i] = e[i - 1] + Len(Frame(f[i]))
            /\ \A x \in 1..Len(Frame(f[i])) : s[e[i - 1] + x] = Frame(f[i])[x]
        BY <1>6, <3>1
      <3>4. Len(Frame(f[i])) \in Nat
        BY <1>0, <3>1, FrameIs
      <3>5. \A x \in 1..Len(Frame(f[i])) : e[i - 1] + x \in 1..Len(s)
        BY <1>2, <3>2, <3>3, <3>4
      <3> QED BY <1>4, <3>2, <3>3, <3>5
    <2>2. CASE i > n
      <3>1. i = n + 1 /\ i - 1 = n /\ n \in from..n
        BY <1>2, <2>2
      <3>2. e2[i] = Len(s) + l /\ e2[i - 1] = Len(s) /\ g[i] = p
        BY <1>5, <1>6, <1>7, <3>1
      <3> QED BY <1>4, <3>2 DEF l
    <2> QED BY <1>2, <2>1, <2>2
  <1>11. Ends(e2, t, from, g)
    BY <1>4, <1>5, <1>7, <1>8, <1>9, <1>10 DEF Ends
  <1> QED BY <1>11 DEF FramesAhead, t, g

\* The first frame ahead is at the front.
LEMMA FirstFrame ==
    ASSUME NEW s \in Seq(Byte), NEW f \in Seq(Payload), NEW from \in 0..Len(f),
           FramesAhead(s, from, f)
    PROVE  /\ from = Len(f) => Len(s) = 0
           /\ from < Len(f) =>
                 /\ f[from + 1] \in Payload
                 /\ Len(Frame(f[from + 1])) <= Len(s)
                 /\ \A x \in 1..Len(Frame(f[from + 1])) : s[x] = Frame(f[from + 1])[x]
  <1>1. PICK e : Ends(e, s, from, f)
    BY DEF FramesAhead
  <1>2. Len(f) \in Nat /\ from \in Nat /\ from <= Len(f)
    OBVIOUS
  <1>3. from = Len(f) => Len(s) = 0
    BY <1>1 DEF Ends
  <1>4. ASSUME from < Len(f)
        PROVE  /\ f[from + 1] \in Payload
               /\ Len(Frame(f[from + 1])) <= Len(s)
               /\ \A x \in 1..Len(Frame(f[from + 1])) : s[x] = Frame(f[from + 1])[x]
    <2> DEFINE i == from + 1
    <2>1. i \in (from + 1)..Len(f) /\ i - 1 = from /\ i \in 1..Len(f) /\ i <= Len(f)
          /\ i \in from..Len(f) /\ Len(f) \in from..Len(f)
      BY <1>2, <1>4
    <2>2. f[i] \in Payload
      BY <2>1
    <2> HIDE DEF i
    <2>3. Len(Frame(f[i])) \in Nat
      BY <2>2, FrameIs
    <2>4. /\ e[i] = e[from] + Len(Frame(f[i])) /\ e[from] = 0 /\ e[i] <= e[Len(f)]
          /\ e[Len(f)] = Len(s)
          /\ \A x \in 1..Len(Frame(f[i])) : s[e[from] + x] = Frame(f[i])[x]
      <3>1. /\ \A k \in (from + 1)..Len(f) :
                  /\ e[k] = e[k - 1] + Len(Frame(f[k]))
                  /\ \A x \in 1..Len(Frame(f[k])) : s[e[k - 1] + x] = Frame(f[k])[x]
            /\ \A k, j \in from..Len(f) : k <= j => e[k] <= e[j]
            /\ e[from] = 0 /\ e[Len(f)] = Len(s)
        BY <1>1 DEF Ends
      <3> QED BY <2>1, <3>1
    <2> QED BY <2>2, <2>3, <2>4 DEF i
  <1> QED BY <1>3, <1>4

\* A frame taken off the front leaves those behind it.
LEMMA FrameTaken ==
    ASSUME NEW s \in Seq(Byte), NEW f \in Seq(Payload), NEW from \in 0..Len(f), from < Len(f),
           FramesAhead(s, from, f), NEW d \in Seq(Byte),
           Len(d) = Len(s) - Len(Frame(f[from + 1])),
           \A x \in 1..Len(d) : d[x] = s[Len(Frame(f[from + 1])) + x]
    PROVE  FramesAhead(d, from + 1, f)
  <1> DEFINE n == Len(f)
             l == Len(Frame(f[from + 1]))
             m == from + 1
  <1>1. PICK e : Ends(e, s, from, f)
    BY DEF FramesAhead
  <1>2. n \in Nat /\ Len(s) \in Nat /\ Len(d) \in Nat /\ from \in Nat /\ from < n
        /\ m \in Nat /\ m = from + 1 /\ m <= n
    OBVIOUS
  <1>3. \A i \in 1..n : f[i] \in Payload
    OBVIOUS
  <1>4. l \in Nat /\ l = Len(Frame(f[m]))
    <2>1. f[m] \in Payload
      BY <1>2, <1>3
    <2> QED BY <2>1, FrameIs
  <1>5. Len(d) = Len(s) - l /\ \A x \in 1..Len(d) : d[x] = s[l + x]
    OBVIOUS
  <1>6. /\ e \in [from..n -> Nat] /\ e[from] = 0 /\ e[n] = Len(s)
        /\ \A i, j \in from..n : i <= j => e[i] <= e[j]
        /\ \A i \in m..n :
              /\ e[i] = e[i - 1] + Len(Frame(f[i]))
              /\ \A x \in 1..Len(Frame(f[i])) : s[e[i - 1] + x] = Frame(f[i])[x]
    BY <1>1 DEF Ends
  <1> HIDE DEF n, l, m
  <1>7. e[m] = l
    <2>1. m \in m..n /\ m - 1 = from
      BY <1>2
    <2> QED BY <1>4, <1>6, <2>1
  <1>8. \A i \in m..n : i \in from..n /\ i - 1 \in from..n
    BY <1>2
  <1>9. \A i \in m..n : e[i] \in Nat /\ e[i] - l \in Nat /\ e[i] <= Len(s)
    <2> TAKE i \in m..n
    <2>1. i \in from..n /\ m \in from..n /\ n \in from..n /\ m <= i /\ i <= n
      BY <1>2
    <2>2. e[i] \in Nat /\ e[m] <= e[i] /\ e[i] <= e[n]
      BY <1>6, <2>1
    <2> QED BY <1>4, <1>6, <1>7, <2>2
  <1> DEFINE e2 == [i \in m..n |-> e[i] - l]
  <1>10. e2 \in [m..n -> Nat] /\ \A i \in m..n : e2[i] = e[i] - l
    BY <1>9
  <1> HIDE DEF e2
  <1>11. e2[m] = 0 /\ e2[n] = Len(d)
    <2>1. m \in m..n /\ n \in m..n
      BY <1>2
    <2>2. e2[m] = l - l /\ e2[n] = Len(s) - l
      BY <1>6, <1>7, <1>10, <2>1
    <2>3. l \in Nat /\ Len(d) = Len(s) - l
      BY <1>4, <1>5
    <2>4. l - l = 0
      BY <2>3
    <2> QED BY <2>2, <2>3, <2>4
  <1>12. \A i, j \in m..n : i <= j => e2[i] <= e2[j]
    <2> TAKE i, j \in m..n
    <2>1. i <= j => e[i] <= e[j]
      BY <1>6, <1>8
    <2>2. /\ e[i] \in Nat /\ e[j] \in Nat /\ l \in Nat
          /\ e2[i] = e[i] - l /\ e2[j] = e[j] - l
      BY <1>4, <1>9, <1>10
    <2> QED BY <2>1, <2>2
  <1>13. ASSUME NEW i \in (m + 1)..n
         PROVE  /\ e2[i] = e2[i - 1] + Len(Frame(f[i]))
                /\ \A x \in 1..Len(Frame(f[i])) : d[e2[i - 1] + x] = Frame(f[i])[x]
    <2>1. i \in m..n /\ i - 1 \in m..n /\ i \in 1..n
      BY <1>2
    <2>2. Len(Frame(f[i])) \in Nat
      BY <1>3, <2>1, FrameIs
    <2>3. /\ e[i] = e[i - 1] + Len(Frame(f[i])) /\ e2[i] = e[i] - l /\ e2[i - 1] = e[i - 1] - l
          /\ e[i - 1] \in Nat /\ e[i - 1] - l \in Nat /\ e[i] <= Len(s) /\ e[i] \in Nat
      BY <1>6, <1>9, <1>10, <2>1
    <2>4. e2[i] = e2[i - 1] + Len(Frame(f[i]))
      <3> DEFINE u == e[i - 1]
                 v == e[i]
                 k == Len(Frame(f[i]))
      <3>1. /\ l \in Nat /\ u \in Nat /\ k \in Nat /\ v = u + k
            /\ e2[i] = v - l /\ e2[i - 1] = u - l
        BY <1>4, <2>2, <2>3
      <3> HIDE DEF u, v, k
      <3>2. v - l = (u - l) + k
        BY <3>1
      <3> QED BY <3>1, <3>2 DEF k
    <2>5. ASSUME NEW x \in 1..Len(Frame(f[i]))
          PROVE  d[e2[i - 1] + x] = Frame(f[i])[x]
      <3> DEFINE u == e[i - 1]
                 k == Len(Frame(f[i]))
      <3>a. /\ k \in Nat /\ x \in 1..k /\ u \in Nat /\ u - l \in Nat /\ u + k <= Len(s)
            /\ e2[i - 1] = u - l
        BY <2>2, <2>3
      <3> HIDE DEF u, k
      <3>b. u - l + x \in 1..Len(d) /\ l + (u - l + x) = u + x
        BY <1>2, <1>4, <1>5, <3>a
      <3>1. e2[i - 1] + x \in 1..Len(d) /\ l + (e2[i - 1] + x) = e[i - 1] + x
        BY <3>a, <3>b DEF u
      <3>2. d[e2[i - 1] + x] = s[e[i - 1] + x]
        BY <1>5, <3>1
      <3> QED BY <1>6, <2>1, <3>2
    <2> QED BY <2>4, <2>5
  <1>14. Ends(e2, d, m, f)
    BY <1>10, <1>11, <1>12, <1>13 DEF Ends, n
  <1> QED BY <1>14 DEF FramesAhead, m

\* The header at the front of the content is the length of the first payload.
LEMMA HeaderIsRead ==
    ASSUME NEW b, InOrder(b), NEW p \in Payload, Width <= readableBytes(b),
           \A x \in 1..Width : Content(b)[x] = Frame(p)[x]
    PROVE  peekInt(b, Width) = Len(p)
  <1> DEFINE c == Content(b)
             a == IntBytes(Len(p), Width)
             h == SubSeq(c, 1, Width)
  <1>1. c \in Seq(Byte) /\ Len(c) = readableBytes(b) /\ readableBytes(b) \in Nat
    BY ContentIs DEF readableBytes
  <1>2. Width \in Nat \ {0}
    BY PayloadAssumption
  <1>3. a \in Seq(Byte) /\ Len(a) = Width /\ Len(p) \in Nat
        /\ \A x \in 1..Width : Frame(p)[x] = a[x]
    BY FrameIs
  <1>4. \A x \in 1..Width : c[x] = a[x]
    BY <1>3
  <1> HIDE DEF a, c
  <1>5. h \in Seq(Byte) /\ Len(h) = Width /\ \A x \in 1..Width : h[x] = c[x]
    BY <1>1, <1>2
  <1> HIDE DEF h
  <1>6. \A x \in 1..Len(h) : h[x] = a[x]
    BY <1>4, <1>5
  <1>7. h = a
    BY <1>3, <1>5, <1>6, SeqEqual
  <1>8. 2 * Len(p) < Base^Width /\ Base^Width \in Nat \ {0}
    <2>1. Width \in 0..Width
      BY <1>2
    <2> QED BY <2>1, PayloadAssumption, PositionAssumption
  <1>9. BigEndian(h) = Len(p)
    <2> DEFINE u == Len(p)
               m == Base^Width
               digits == [i \in 1..Width |-> (u \div Base^(Width - i)) % Base]
    <2>1. u % m = u
      <3>1. u \in Nat /\ m \in Nat \ {0} /\ 2 * u < m
        BY <1>3, <1>8
      <3> HIDE DEF u, m
      <3> QED BY <3>1
    <2>2. a = digits
      BY <2>1 DEF a, IntBytes
    <2>3. BigEndian(digits) = u
      BY PositionAssumption
    <2> QED BY <1>7, <2>2, <2>3
  <1> QED BY <1>9, <1>8 DEF peekInt, h, c

\* What is ahead of the application's handler.
LEMMA Ahead ==
    ASSUME PipeInv
    PROVE  LET n == Len(handled) + 1 IN
           /\ n > Len(frames) => readableBytes(buf) = 0
           /\ n <= Len(frames) =>
                 /\ frames[n] \in Payload /\ Len(frames[n]) \in Nat
                 /\ Len(Frame(frames[n])) = HeaderBits + Len(frames[n])
                 /\ Len(Frame(frames[n])) <= Len(Content(buf) \o stream)
                 /\ \A x \in 1..Len(Frame(frames[n])) :
                       x <= readableBytes(buf) => Content(buf)[x] = Frame(frames[n])[x]
                 /\ readableBytes(buf) >= HeaderBits => peekInt(buf, Width) = Len(frames[n])
  <1> DEFINE h == Len(handled)
             n == h + 1
             c == Content(buf)
             s == c \o stream
  <1>1. /\ InOrder(buf) /\ stream \in Seq(Byte) /\ frames \in Seq(Payload)
        /\ h \in 0..Len(frames) /\ FramesAhead(s, h, frames) /\ Len(frames) \in Nat
    BY DEF PipeInv, PipeTypeInv
  <1>2. c \in Seq(Byte) /\ Len(c) = readableBytes(buf) /\ readableBytes(buf) \in Nat
    BY <1>1, ContentIs DEF readableBytes
  <1> HIDE DEF c, h
  <1>3. /\ s \in Seq(Byte) /\ Len(s) = Len(c) + Len(stream) /\ Len(stream) \in Nat
        /\ \A x \in 1..Len(c) : s[x] = c[x]
    BY <1>1, <1>2
  <1> HIDE DEF s
  <1>4. h = Len(frames) => Len(s) = 0
    BY <1>1, <1>3, FirstFrame
  <1>5. n > Len(frames) => readableBytes(buf) = 0
    BY <1>1, <1>2, <1>3, <1>4
  <1>6. ASSUME n <= Len(frames)
        PROVE  /\ frames[n] \in Payload /\ Len(frames[n]) \in Nat
               /\ Len(Frame(frames[n])) = HeaderBits + Len(frames[n])
               /\ Len(Frame(frames[n])) <= Len(s)
               /\ \A x \in 1..Len(Frame(frames[n])) :
                     x <= readableBytes(buf) => c[x] = Frame(frames[n])[x]
               /\ readableBytes(buf) >= HeaderBits => peekInt(buf, Width) = Len(frames[n])
    <2>1. h < Len(frames)
      BY <1>1, <1>6
    <2>2. /\ frames[n] \in Payload /\ Len(Frame(frames[n])) <= Len(s)
          /\ \A x \in 1..Len(Frame(frames[n])) : s[x] = Frame(frames[n])[x]
      BY <1>1, <1>3, <2>1, FirstFrame
    <2>3. Len(frames[n]) \in Nat /\ Len(Frame(frames[n])) = HeaderBits + Len(frames[n])
      BY <2>2, FrameIs
    <2>4. \A x \in 1..Len(Frame(frames[n])) :
             x <= readableBytes(buf) => c[x] = Frame(frames[n])[x]
      BY <1>2, <1>3, <2>2
    <2>5. ASSUME readableBytes(buf) >= HeaderBits
          PROVE  peekInt(buf, Width) = Len(frames[n])
      <3>1. Width <= readableBytes(buf)
        BY <1>2, <2>5, HeaderIsNat
      <3>2. \A x \in 1..Width : x \in 1..Len(Frame(frames[n])) /\ x <= readableBytes(buf)
        BY <1>2, <2>3, <3>1, HeaderIsNat
      <3>3. \A x \in 1..Width : Content(buf)[x] = Frame(frames[n])[x]
        BY <2>4, <3>2 DEF c
      <3> HIDE DEF n
      <3> QED BY <1>1, <2>2, <3>1, <3>3, HeaderIsRead
    <2> QED BY <2>2, <2>3, <2>4, <2>5
  <1> QED BY <1>5, <1>6 DEF h, s, c

\* UnpackHandler finds a package exactly when a whole frame with a payload is there.
LEMMA ReadyIs ==
    ASSUME PipeInv
    PROVE  LET n == Len(handled) + 1 IN
           FrameReady(buf) <=> /\ n <= Len(frames) /\ Len(frames[n]) > 0
                               /\ readableBytes(buf) >= HeaderBits + Len(frames[n])
  <1> DEFINE n == Len(handled) + 1
             r == readableBytes(buf)
  <1>1. n \in Nat /\ Len(frames) \in Nat
    BY DEF PipeInv, PipeTypeInv
  <1>2. r \in Nat
    BY DEF PipeInv, PipeTypeInv, InOrder, Record, readableBytes
  <1>3. HeaderBits \in Nat \ {0}
    BY HeaderIsNat
  <1>4. n > Len(frames) => r = 0
    BY Ahead
  <1>5. n <= Len(frames) => /\ Len(frames[n]) \in Nat
                            /\ r >= HeaderBits => peekInt(buf, Width) = Len(frames[n])
    BY Ahead
  <1> DEFINE l == Len(frames[n])
             k == peekInt(buf, Width)
  <1>6. FrameReady(buf) <=> r > HeaderBits /\ k > 0 /\ r >= k + HeaderBits
    BY DEF FrameReady
  <1> HIDE DEF n, r, k
  <1>7. CASE n > Len(frames)
    BY <1>1, <1>3, <1>4, <1>6, <1>7 DEF n, r
  <1>8. CASE n <= Len(frames)
    <2>1. l \in Nat /\ (r >= HeaderBits => k = l)
      BY <1>5, <1>8 DEF k
    <2> HIDE DEF l
    <2>2. FrameReady(buf) <=> l > 0 /\ r >= HeaderBits + l
      BY <1>2, <1>3, <1>6, <2>1
    <2> QED BY <1>8, <2>2 DEF n, r, l
  <1> QED BY <1>1, <1>7, <1>8

\* A frame more at the end of the stream.
LEMMA PeerSendsStep ==
    ASSUME PipeInv, NEW p \in Payload, PeerSendsFrame(p)
    PROVE  PipeInv'
  <1>1. /\ stream' = stream \o Frame(p) /\ frames' = Append(frames, p)
        /\ UNCHANGED <<buf, handled, crashed>>
    BY DEF PeerSendsFrame
  <1>2. /\ InOrder(buf) /\ stream \in Seq(Byte) /\ frames \in Seq(Payload)
        /\ handled \in Seq(Payload) /\ crashed \in BOOLEAN
        /\ Len(handled) <= Len(frames) /\ Len(handled) \in Nat /\ Len(frames) \in Nat
        /\ \A i \in 1..Len(handled) : handled[i] = frames[i]
        /\ FramesAhead(Content(buf) \o stream, Len(handled), frames)
        /\ crashed => ~FrameReady(buf)
    BY DEF PipeInv, PipeTypeInv
  <1> DEFINE c == Content(buf)
             h == Len(handled)
             s == c \o stream
  <1>3. c \in Seq(Byte)
    BY <1>2, ContentIs
  <1>4. Frame(p) \in Seq(Byte)
    BY FrameIs
  <1>5. FramesAhead(s, h, frames)
    BY <1>2
  <1> HIDE DEF c
  <1>6. s \in Seq(Byte) /\ h \in 0..Len(frames)
    BY <1>2, <1>3
  <1>7. c \o (stream \o Frame(p)) = s \o Frame(p)
    <2>1. c \in Seq(Byte) /\ stream \in Seq(Byte) /\ Frame(p) \in Seq(Byte)
      BY <1>2, <1>3, <1>4
    <2>2. (c \o stream) \o Frame(p) = c \o (stream \o Frame(p))
      BY <2>1, BytesGrouped, Zenon
    <2> QED BY <2>2
  <1> HIDE DEF s, h
  <1>8. FramesAhead(s \o Frame(p), h, Append(frames, p))
    BY <1>2, <1>5, <1>6, FrameSent
  <1>9. FramesAhead((Content(buf) \o stream)', Len(handled)', frames')
    BY <1>1, <1>7, <1>8 DEF c, h
  <1>10. /\ frames' \in Seq(Payload) /\ Len(handled) <= Len(frames')
         /\ \A i \in 1..Len(handled) : frames'[i] = frames[i]
    BY <1>1, <1>2
  <1>11. stream' \in Seq(Byte)
    BY <1>1, <1>2, <1>4
  <1>12. InOrder(buf') /\ (FrameReady(buf') <=> FrameReady(buf))
    BY <1>1, <1>2
  <1>13. PipeTypeInv'
    BY <1>1, <1>2, <1>10, <1>11, <1>12 DEF PipeTypeInv
  <1> QED BY <1>1, <1>2, <1>9, <1>10, <1>12, <1>13 DEF PipeInv

\* Bytes move from the stream to the buffer.
LEMMA StreamReadStep ==
    ASSUME PipeInv, NEW n \in 1..Len(stream), StreamRead(n)
    PROVE  PipeInv'
  <1> DEFINE c == Content(buf)
             data == SubSeq(stream, 1, n)
             rest == SubSeq(stream, n + 1, Len(stream))
  <1>1. /\ buf' = readFd(buf, data) /\ stream' = rest /\ ~crashed
        /\ UNCHANGED <<frames, handled, crashed>>
    BY DEF StreamRead
  <1>2. PipeTypeInv /\ stream \in Seq(Byte) /\ InOrder(buf) /\ n \in 0..Len(stream)
    BY DEF PipeInv, PipeTypeInv
  <1>3. data \in Seq(Byte) /\ rest \in Seq(Byte) /\ stream = data \o rest
    BY <1>2, Cut
  <1> HIDE DEF data, rest
  <1>4. InOrder(buf') /\ Content(buf') = c \o data
    BY <1>1, <1>2, <1>3, ReadFdAppends
  <1>5. c \in Seq(Byte)
    BY <1>2, ContentIs
  <1> HIDE DEF c
  <1>6. (c \o data) \o rest = c \o (data \o rest)
    <2>1. c \in Seq(Byte) /\ data \in Seq(Byte) /\ rest \in Seq(Byte)
      BY <1>3, <1>5
    <2> QED BY <2>1, BytesGrouped, Zenon
  <1>7. Content(buf') \o stream' = Content(buf) \o stream
    BY <1>1, <1>3, <1>4, <1>6 DEF c
  <1>8. PipeTypeInv'
    BY <1>1, <1>2, <1>3, <1>4 DEF PipeTypeInv
  <1> QED BY <1>1, <1>7, <1>8 DEF PipeInv

\* The first frame ahead is taken off the buffer, and its payload handed on.
LEMMA ProcessStep ==
    ASSUME PipeInv, Process
    PROVE  PipeInv'
  <1> DEFINE h == Len(handled)
             n == h + 1
             p == frames[n]
             l == Len(p)
             c == Content(buf)
             body == retrieve(buf, HeaderBits)
             rest == retrieve(body, l)
  <1>1. /\ InOrder(buf) /\ stream \in Seq(Byte) /\ frames \in Seq(Payload)
        /\ handled \in Seq(Payload) /\ PipeTypeInv
        /\ h <= Len(frames) /\ h \in Nat /\ Len(frames) \in Nat
        /\ \A i \in 1..h : handled[i] = frames[i]
        /\ FramesAhead(c \o stream, h, frames)
    BY DEF PipeInv, PipeTypeInv
  <1>2. ~crashed /\ FrameReady(buf) /\ UNCHANGED <<stream, frames, crashed>>
    BY DEF Process
  <1>3. n <= Len(frames) /\ l > 0 /\ readableBytes(buf) >= HeaderBits + l
    BY <1>2, ReadyIs
  <1>4. /\ p \in Payload /\ l \in Nat /\ Len(Frame(p)) = HeaderBits + l
        /\ \A x \in 1..Len(Frame(p)) : x <= readableBytes(buf) => c[x] = Frame(p)[x]
        /\ readableBytes(buf) >= HeaderBits => peekInt(buf, Width) = l
    BY <1>3, Ahead
  <1>5. HeaderBits \in Nat \ {0} /\ readableBytes(buf) \in Nat
    BY <1>1, HeaderIsNat DEF InOrder, Record, readableBytes
  <1>6. peekInt(buf, Width) = l
    BY <1>3, <1>4, <1>5
  <1>7. /\ buf' = rest
        /\ handled' = Append(handled, SubSeq(buf'.bytes, body.r + 1, body.r + l))
    BY <1>6 DEF Process
  <1>8. /\ buf.bytes \in Seq(Byte) /\ buf.r \in Nat /\ buf.w \in Nat /\ buf.w <= Len(buf.bytes)
        /\ readableBytes(buf) = buf.w - buf.r /\ buf \in Record /\ Len(buf.bytes) \in Nat
    BY <1>1 DEF InOrder, Record, readableBytes
  <1>9. /\ c \in Seq(Byte) /\ Len(c) = readableBytes(buf)
        /\ \A i \in 1..(buf.w - buf.r) : c[i] = buf.bytes[buf.r + i]
    BY <1>1, ContentIs DEF readableBytes
  <1> HIDE DEF h, p, l, c
  <1>10. body.bytes = buf.bytes /\ body.r = buf.r + HeaderBits /\ body.w = buf.w
    BY <1>3, <1>4, <1>5, <1>8 DEF retrieve, Record
  <1>11. /\ InOrder(body) /\ Len(Content(body)) = Len(c) - HeaderBits
         /\ \A i \in 1..Len(Content(body)) : Content(body)[i] = c[HeaderBits + i]
    BY <1>1, <1>3, <1>4, <1>5, RetrieveTakes DEF c
  <1>12. l <= readableBytes(body)
    BY <1>3, <1>4, <1>5, <1>8, <1>10 DEF readableBytes
  <1> HIDE DEF body
  <1>13. /\ InOrder(rest) /\ Len(Content(rest)) = Len(Content(body)) - l
         /\ \A i \in 1..Len(Content(rest)) : Content(rest)[i] = Content(body)[l + i]
    BY <1>4, <1>11, <1>12, RetrieveTakes
  <1>14. rest.bytes = buf.bytes
    <2>1. body \in Record
      BY <1>11 DEF InOrder
    <2> QED BY <1>10, <2>1 DEF retrieve, retrieveAll, Record
  <1> HIDE DEF rest
  <1>15. SubSeq(buf.bytes, body.r + 1, body.r + l) = p
    <2> DEFINE m == body.r + 1
               k == body.r + l
               bytes == buf.bytes
    <2>1. p \in Seq(Byte) /\ Len(p) = l
      BY <1>4, PayloadAssumption DEF l
    <2>2. m \in Nat /\ k \in Nat /\ 1 <= m /\ k <= Len(bytes) /\ (k - m) + 1 = l
      <3>1. m = buf.r + HeaderBits + 1 /\ k = buf.r + HeaderBits + l
        BY <1>10
      <3> HIDE DEF m, k, bytes
      <3>2. HeaderBits + l <= buf.w - buf.r
        BY <1>3, <1>8
      <3> DEFINE v == buf.r
                 z == Len(buf.bytes)
                 g == HeaderBits
      <3>3. /\ v \in Nat /\ z \in Nat /\ g \in Nat /\ l \in Nat
            /\ v + g + l <= z /\ m = v + g + 1 /\ k = v + g + l
        <4> DEFINE w == buf.w
        <4>1. v \in Nat /\ w \in Nat /\ z \in Nat /\ w <= z
          BY <1>8
        <4>2. g \in Nat /\ l \in Nat
          BY <1>4, <1>5
        <4>3. g + l <= w - v /\ m = v + g + 1 /\ k = v + g + l
          BY <3>1, <3>2
        <4> HIDE DEF v, w, z, g
        <4> QED BY <4>1, <4>2, <4>3
      <3> HIDE DEF v, z, g
      <3>4. m \in Nat /\ k \in Nat /\ 1 <= m
        BY <3>3
      <3>5. (k - m) + 1 = l
        BY <3>3
      <3>6. k <= z
        BY <3>3
      <3> QED BY <3>4, <3>5, <3>6 DEF bytes, z
    <2>3. ASSUME NEW i \in 1..l
          PROVE  bytes[m + i - 1] = p[i]
      <3>1. m + i - 1 = buf.r + (HeaderBits + i)
        BY <1>4, <1>5, <1>8, <1>10
      <3>2. HeaderBits + i \in 1..(buf.w - buf.r)
        BY <1>3, <1>4, <1>5, <1>8
      <3>3. HeaderBits + i \in 1..Len(Frame(p)) /\ HeaderBits + i <= readableBytes(buf)
        BY <1>3, <1>4, <1>5
      <3>4. Frame(p)[HeaderBits + i] = p[i]
        BY <1>4, FrameIs DEF l
      <3> QED BY <1>4, <1>9, <3>1, <3>2, <3>3, <3>4
    <2>4. \A i \in m..k : bytes[i] \in Byte
      BY <1>8, <2>2
    <2> HIDE DEF m, k, bytes
    <2>5. /\ SubSeq(bytes, m, k) \in Seq(Byte)
          /\ Len(SubSeq(bytes, m, k)) = IF m <= k THEN k - m + 1 ELSE 0
          /\ \A i \in 1..k - m + 1 : SubSeq(bytes, m, k)[i] = bytes[m + i - 1]
      BY <2>2, <2>4, SubSeqProperties
    <2>6. Len(SubSeq(bytes, m, k)) = l
      BY <1>3, <1>4, <2>2, <2>5
    <2>7. \A i \in 1..l : SubSeq(bytes, m, k)[i] = p[i]
      BY <2>2, <2>3, <2>5
    <2> HIDE DEF p, l
    <2>8. SubSeq(bytes, m, k) = p
      BY <2>1, <2>5, <2>6, <2>7, SeqEqual
    <2> QED BY <2>8 DEF m, k, bytes
  <1>16. handled' = Append(handled, p)
    BY <1>7, <1>14, <1>15
  <1>17. /\ handled' \in Seq(Payload) /\ Len(handled') = n /\ n \in Nat
         /\ \A i \in 1..n : handled'[i] = frames[i]
    <2>1. p = frames[n]
      BY DEF p
    <2>2. Len(handled) = h
      BY DEF h
    <2> QED BY <1>1, <1>4, <1>16, <2>1, <2>2
  <1> DEFINE s == c \o stream
             d == Content(rest) \o stream
  <1>18. Content(rest) \in Seq(Byte)
    BY <1>13, ContentIs
  <1>19. /\ s \in Seq(Byte) /\ Len(s) = Len(c) + Len(stream) /\ Len(stream) \in Nat
         /\ \A x \in 1..Len(c) : s[x] = c[x]
         /\ \A x \in 1..Len(stream) : s[Len(c) + x] = stream[x]
    <2>1. c \in Seq(Byte) /\ stream \in Seq(Byte)
      BY <1>1, <1>9
    <2> QED BY <2>1
  <1>20. Len(Content(rest)) = Len(c) - Len(Frame(p))
         /\ Len(c) \in Nat /\ Len(Frame(p)) \in Nat
         /\ \A x \in 1..Len(Content(rest)) : Content(rest)[x] = c[Len(Frame(p)) + x]
    <2>1. Len(c) \in Nat /\ Len(Content(body)) = Len(c) - HeaderBits
          /\ Len(Content(rest)) = Len(Content(body)) - l
      BY <1>5, <1>9, <1>11, <1>13
    <2>2. \A x \in 1..Len(Content(rest)) :
             l + x \in 1..Len(Content(body)) /\ HeaderBits + (l + x) = Len(Frame(p)) + x
      BY <1>4, <1>5, <2>1
    <2> QED BY <1>4, <1>5, <1>11, <1>13, <2>1, <2>2
  <1>21. /\ d \in Seq(Byte) /\ Len(d) = Len(Content(rest)) + Len(stream)
         /\ \A x \in 1..Len(Content(rest)) : d[x] = Content(rest)[x]
         /\ \A x \in 1..Len(stream) : d[Len(Content(rest)) + x] = stream[x]
    <2>1. Content(rest) \in Seq(Byte) /\ stream \in Seq(Byte)
      BY <1>1, <1>18
    <2> QED BY <2>1
  <1> DEFINE q == Content(rest)
             w == Len(Frame(p))
  <1>22. FramesAhead(s, h, frames)
    BY <1>1
  <1> HIDE DEF s, d
  <1>23. Len(d) = Len(s) - w /\ \A x \in 1..Len(d) : d[x] = s[w + x]
    <2>1. Len(q) = Len(c) - w /\ Len(c) \in Nat /\ w \in Nat /\ Len(stream) \in Nat
          /\ Len(q) \in Nat /\ Len(d) = Len(q) + Len(stream) /\ Len(s) = Len(c) + Len(stream)
      BY <1>18, <1>19, <1>20, <1>21
    <2>2. ASSUME NEW x \in 1..Len(d) PROVE d[x] = s[w + x]
      <3>1. CASE x <= Len(q)
        <4>1. x \in 1..Len(q) /\ w + x \in 1..Len(c)
          BY <2>1, <3>1
        <4>2. d[x] = q[x] /\ q[x] = c[w + x] /\ s[w + x] = c[w + x]
          BY <1>19, <1>20, <1>21, <4>1
        <4> QED BY <4>2
      <3>2. CASE x > Len(q)
        <4> DEFINE y == x - Len(q)
        <4>1. y \in 1..Len(stream) /\ x = Len(q) + y /\ w + x = Len(c) + y
          BY <2>1, <3>2
        <4> HIDE DEF y
        <4>2. d[Len(q) + y] = stream[y] /\ s[Len(c) + y] = stream[y]
          BY <1>19, <1>21, <4>1
        <4> QED BY <4>1, <4>2
      <3> QED BY <2>1, <3>1, <3>2
    <2> QED BY <2>1, <2>2
  <1>24. FramesAhead(d, n, frames)
    <2>1. p = frames[h + 1] /\ h \in 0..Len(frames) /\ h < Len(frames)
      BY <1>1, <1>3 DEF p
    <2> HIDE DEF p
    <2>2. Len(d) = Len(s) - Len(Frame(frames[h + 1]))
          /\ \A x \in 1..Len(d) : d[x] = s[Len(Frame(frames[h + 1])) + x]
      BY <1>23, <2>1
    <2> QED BY <1>1, <1>19, <1>21, <1>22, <2>1, <2>2, FrameTaken
  <1>25. FramesAhead(Content(buf') \o stream', Len(handled'), frames')
    BY <1>2, <1>7, <1>17, <1>24 DEF d
  <1>26. PipeTypeInv'
    BY <1>1, <1>2, <1>7, <1>13, <1>17 DEF PipeTypeInv
  <1>27. Len(handled') <= Len(frames') /\ \A i \in 1..Len(handled') : handled'[i] = frames'[i]
    BY <1>2, <1>3, <1>17
  <1> QED BY <1>2, <1>25, <1>26, <1>27 DEF PipeInv

\* What the property says of a crash: no whole frame with a payload was there.
LEMMA PipeShows == PipeInv => FramesInOrder
  <1> SUFFICES ASSUME PipeInv PROVE FramesInOrder
    OBVIOUS
  <1> DEFINE n == Len(handled) + 1
  <1>1. /\ frames \in Seq(Payload) /\ handled \in Seq(Payload)
        /\ Len(handled) <= Len(frames) /\ Len(handled) \in Nat /\ Len(frames) \in Nat
        /\ \A i \in 1..Len(handled) : handled[i] = frames[i]
        /\ readableBytes(buf) \in Int
    BY DEF PipeInv, PipeTypeInv, InOrder, Record, readableBytes
  <1>2. IsPrefix(handled, frames)
    <2>1. SubSeq(handled, 1, Len(handled)) = handled
      BY <1>1, SubSeqFull
    <2> DEFINE k == Len(handled)
               g == SubSeq(frames, 1, k)
    <2>2. g \in Seq(Payload) /\ Len(g) = k /\ \A i \in 1..k : g[i] = frames[i]
      BY <1>1
    <2> HIDE DEF g
    <2>3. g = handled
      BY <1>1, <2>2, SeqEqual
    <2> QED BY <1>1, <2>1, <2>3 DEF IsPrefix, g
  <1>3. ASSUME crashed, n <= Len(frames), frames[n] # <<>>
        PROVE  readableBytes(buf) < Len(Frame(frames[n]))
    <2>1. ~FrameReady(buf)
      BY <1>3 DEF PipeInv
    <2>2. /\ frames[n] \in Payload /\ Len(frames[n]) \in Nat
          /\ Len(Frame(frames[n])) = HeaderBits + Len(frames[n])
      BY <1>3, Ahead
    <2>3. Len(frames[n]) > 0
      <3>1. frames[n] \in Seq(Byte)
        BY <2>2, PayloadAssumption
      <3> HIDE DEF n
      <3>2. Len(frames[n]) # 0
        BY <1>3, <3>1, EmptySeq
      <3> QED BY <2>2, <3>2
    <2>4. ~(readableBytes(buf) >= HeaderBits + Len(frames[n]))
      BY <1>3, <2>1, <2>3, ReadyIs
    <2> QED BY <1>1, <2>2, <2>4, HeaderIsNat
  <1> QED BY <1>1, <1>2, <1>3 DEF FramesInOrder

\* Nothing is sent at first.
LEMMA PipeStarts == PipelineInit => PipeInv
  <1> SUFFICES ASSUME PipelineInit PROVE PipeInv
    OBVIOUS
  <1>1. InOrder(buf) /\ readableBytes(buf) = 0
    <2>1. buf = NewBuffer /\ BufferInit
      BY DEF PipelineInit, BufferInit
    <2> QED BY <2>1, BufferStarts DEF NewBuffer, readableBytes
  <1>2. /\ stream = <<>> /\ frames = <<>> /\ handled = <<>> /\ crashed = FALSE
    BY DEF PipelineInit
  <1>3. stream \in Seq(Byte) /\ frames \in Seq(Payload) /\ handled \in Seq(Payload)
    <2>1. <<>> \in Seq(Byte) /\ <<>> \in Seq(Payload)
      OBVIOUS
    <2> QED BY <1>2, <2>1
  <1> DEFINE s == Content(buf) \o stream
             e == [i \in {0} |-> 0]
  <1>4. Len(s) = 0
    <2>1. Content(buf) \in Seq(Byte) /\ Len(Content(buf)) = 0
      BY <1>1, ContentIs DEF readableBytes
    <2>2. Len(<<>>) = 0
      OBVIOUS
    <2> QED BY <1>2, <1>3, <2>1, <2>2
  <1> HIDE DEF s
  <1>5. Len(handled) = 0 /\ Len(frames) = 0 /\ 0..0 = {0} /\ (0 + 1)..0 = {}
    BY <1>2
  <1>6. e \in [{0} -> Nat] /\ e[0] = 0
    OBVIOUS
  <1> HIDE DEF e
  <1>7. Ends(e, s, 0, frames)
    BY <1>4, <1>5, <1>6 DEF Ends
  <1>8. FramesAhead(s, Len(handled), frames)
    BY <1>5, <1>7 DEF FramesAhead
  <1>9. PipeTypeInv /\ ~crashed
    BY <1>1, <1>2, <1>3 DEF PipeTypeInv
  <1>10. Len(handled) <= Len(frames) /\ \A i \in 1..Len(handled) : handled[i] = frames[i]
    BY <1>5
  <1> QED BY <1>8, <1>9, <1>10 DEF PipeInv, s

\* However the peer's frames are cut into pieces and whatever they carry, the
\* application gets the payloads whole and in order, and process() fails only for
\* want of a whole frame or of a payload (UnpackHandler::process, Buffer::readFd,
\* Buffer::retrieve).
THEOREM FramesStayInOrder == PipelineSpec => []FramesInOrder
  <1>1. PipelineInit => PipeInv
    BY PipeStarts
  <1>2. PipeInv /\ [PipelineNext]_pipevars => PipeInv'
    <2> SUFFICES ASSUME PipeInv, [PipelineNext]_pipevars PROVE PipeInv'
      OBVIOUS
    <2>1. CASE UNCHANGED <<buf, stream, frames, handled, crashed>>
      <3>1. PipeTypeInv'
        BY <2>1 DEF PipeInv, PipeTypeInv
      <3> QED BY <2>1, <3>1 DEF PipeInv
    <2>2. CASE ProcessFails
      <3>1. ~FrameReady(buf) /\ crashed' = TRUE /\ UNCHANGED <<buf, stream, frames, handled>>
        BY <2>2 DEF ProcessFails
      <3>2. PipeTypeInv'
        BY <3>1 DEF PipeInv, PipeTypeInv
      <3> QED BY <3>1, <3>2 DEF PipeInv
    <2>3. CASE \E h \in Handlers : AddFirst(h) \/ AddLast(h)
      BY <2>1, <2>3 DEF AddFirst, AddLast
    <2>4. CASE UNCHANGED pipevars
      BY <2>1, <2>4 DEF pipevars
    <2> QED BY <2>2, <2>3, <2>4, PeerSendsStep, StreamReadStep, ProcessStep DEF PipelineNext
  <1>3. PipeInv => FramesInOrder
    BY PipeShows
  <1> QED BY <1>1, <1>2, <1>3, PTL DEF PipelineSpec
=============================================================================
