--------------------------- MODULE EventLoopCluster ---------------------------
(***************************************************************************)
(* EventLoopCluster (src/src/net/EventLoopCluster.cpp): one thread, the    *)
(* loop thread of the server that owns the cluster, calls start(),         *)
(* getNextLoop() and stop(); every Pair has a thread that makes an         *)
(* EventLoop, reports to the CountDownLatch and loops.  Of each loop only  *)
(* _quit and the amount of queued work are kept: what happens to a functor *)
(* inside a loop is EventLoop's subject.                                   *)
(***************************************************************************)
EXTENDS Integers, FiniteSets

CONSTANTS MaxPairs,     \* largest thread count given to start()
          HalfInt,      \* an int is one of -HalfInt..HalfInt - 1 (2^31 in the code)
          SizeRange,    \* a size_t is one of 0..SizeRange - 1 (2^64 in the code)
          MaxWork       \* bound on functors waiting in one loop

ASSUME ClusterAssumption ==
    /\ MaxPairs \in Nat \ {0} /\ MaxWork \in Nat \ {0}
    /\ HalfInt \in Nat \ {0} /\ SizeRange \in Nat /\ SizeRange >= 2 * HalfInt

Pair == 1..MaxPairs

VARIABLES
    main,       \* where the owner's thread is
    at,         \* the pair it starts or stops now
    count,      \* _threadCount
    latch,      \* CountDownLatch::_count
    thread,     \* where each pair's work() is
    quit,       \* each loop's _quit
    work,       \* functors queued in each loop and not executed
    counter,    \* _counter
    handed,     \* pairs whose loop getNextLoop() handed out
    last        \* the one it handed out last since start(), 0 for none

vars == <<main, at, count, latch, thread, quit, work, counter, handed, last>>

MainPc == {"idle", "spawn", "wait", "running", "signal", "join", "aborted"}
ThreadPc == {"none", "spawned", "made", "ready", "entering", "looping",
             "left", "exited"}

\* Pair::_loop, set by work() and reset by it at the end
hasLoop(p) == thread[p] \in {"made", "ready", "entering", "looping", "left"}

\* _pairs, from the end of start() to the end of stop()
pairs == IF count > 1 THEN 1..count ELSE {}

Init ==
    /\ main = "idle" /\ at = 1 /\ count = 1 /\ latch = 0
    /\ thread = [p \in Pair |-> "none"]
    /\ quit = [p \in Pair |-> FALSE]
    /\ work = [p \in Pair |-> 0]
    /\ counter = 0 /\ handed = {} /\ last = 0

-----------------------------------------------------------------------------
(* The owner's thread *)

\* start(count): one thread or none is the master loop alone.
ClusterStart(n) ==
    /\ main = "idle"
    /\ count' = n /\ at' = 1 /\ handed' = {} /\ last' = 0
    /\ IF n > 1 THEN main' = "spawn" /\ latch' = n
                ELSE main' = "running" /\ latch' = latch
    /\ UNCHANGED <<thread, quit, work, counter>>

PairStart ==
    /\ main = "spawn"
    /\ thread' = [thread EXCEPT ![at] = "spawned"]
    /\ IF at < count THEN at' = at + 1 /\ main' = "spawn"
                     ELSE at' = 1 /\ main' = "wait"
    /\ UNCHANGED <<count, latch, quit, work, counter, handed, last>>

\* CountDownLatch::wait
LatchWaitNot ==
    /\ main = "wait"
    /\ main' = "running"
    /\ UNCHANGED <<at, count, latch, thread, quit, work, counter, handed, last>>

LatchWait ==
    /\ main = "wait" /\ latch = 0
    /\ main' = "running"
    /\ UNCHANGED <<at, count, latch, thread, quit, work, counter, handed, last>>

\* ++ of an atomic int goes from the largest value to the smallest one.
Increment(i) == IF i = HalfInt - 1 THEN -HalfInt ELSE i + 1

\* The conversion of an int to size_t, for the % with _pairs.size()
ToSize(i) == IF i < 0 THEN i + SizeRange ELSE i

GetNextLoopSigned ==
    /\ main = "running"
    /\ IF count <= 1
         THEN UNCHANGED <<counter, handed, last>>
         ELSE /\ counter' = Increment(counter)
              /\ last' = IF counter' < 0 THEN 1 - (-counter' % count)
                                        ELSE 1 + (counter' % count)
              /\ handed' = handed \cup {last'}
    /\ UNCHANGED <<main, at, count, latch, thread, quit, work>>

\* getNextLoop(): the master loop, or the pairs in turn.
GetNextLoop ==
    /\ main = "running"
    /\ IF count <= 1
         THEN UNCHANGED <<counter, handed, last>>
         ELSE /\ counter' = Increment(counter)
              /\ last' = (ToSize(counter') % Cardinality(pairs)) + 1
              /\ handed' = handed \cup {last'}
    /\ UNCHANGED <<main, at, count, latch, thread, quit, work>>

\* The owner queues something in a loop it was handed: a new connection, or
\* its close before stop().
Post(p) ==
    /\ main = "running" /\ p \in handed /\ work[p] < MaxWork
    /\ work' = [work EXCEPT ![p] = @ + 1]
    /\ UNCHANGED <<main, at, count, latch, thread, quit, counter, handed, last>>

\* stop() over an empty vector of pairs
ClusterStopAlone ==
    /\ main = "running" /\ pairs = {}
    /\ main' = "idle"
    /\ UNCHANGED <<at, count, latch, thread, quit, work, counter, handed, last>>

ClusterStop ==
    /\ main = "running" /\ pairs # {}
    /\ main' = "signal" /\ at' = 1
    /\ UNCHANGED <<count, latch, thread, quit, work, counter, handed, last>>

\* Pair::stop: assert(_loop), _loop->stop() ...
PairStop ==
    /\ main = "signal"
    /\ IF hasLoop(at)
         THEN main' = "join" /\ quit' = [quit EXCEPT ![at] = TRUE]
         ELSE main' = "aborted" /\ quit' = quit
    /\ UNCHANGED <<at, count, latch, thread, work, counter, handed, last>>

\* ... join, reset; after the last one ~Pair asserts that both pointers are
\* null, and the vector is empty.
PairDetach ==
    /\ main = "join"
    /\ thread' = thread
    /\ IF at < count THEN at' = at + 1 /\ main' = "signal"
                     ELSE at' = 1 /\ main' = "idle"
    /\ UNCHANGED <<count, latch, quit, work, counter, handed, last>>

PairJoin ==
    /\ main = "join" /\ thread[at] = "exited"
    /\ thread' = [thread EXCEPT ![at] = "none"]
    /\ IF at < count THEN at' = at + 1 /\ main' = "signal"
                     ELSE at' = 1 /\ main' = "idle"
    /\ UNCHANGED <<count, latch, quit, work, counter, handed, last>>

-----------------------------------------------------------------------------
(* Pair::work, on the pair's own thread; a failed assertion ends them all *)

MakeLoop(p) ==
    /\ main # "aborted" /\ thread[p] = "spawned"
    /\ thread' = [thread EXCEPT ![p] = "made"]
    /\ quit' = [quit EXCEPT ![p] = FALSE]
    /\ UNCHANGED <<main, at, count, latch, work, counter, handed, last>>

\* onReady: CountDownLatch::countDown
OnReadyNever(p) ==
    /\ main # "aborted" /\ thread[p] = "made"
    /\ thread' = [thread EXCEPT ![p] = "ready"]
    /\ latch' = IF p = 1 THEN latch ELSE latch - 1
    /\ UNCHANGED <<main, at, count, quit, work, counter, handed, last>>

OnReady(p) ==
    /\ main # "aborted" /\ thread[p] = "made"
    /\ thread' = [thread EXCEPT ![p] = "ready"]
    /\ latch' = latch - 1
    /\ UNCHANGED <<main, at, count, quit, work, counter, handed, last>>

\* EventLoop::start: assert(!_quit) ...
StartAborts(p) ==
    /\ main # "aborted" /\ thread[p] = "ready" /\ quit[p]
    /\ main' = "aborted"
    /\ UNCHANGED <<at, count, latch, thread, quit, work, counter, handed, last>>

StartAsserts(p) ==
    /\ main # "aborted" /\ thread[p] = "ready" /\ ~quit[p]
    /\ thread' = [thread EXCEPT ![p] = "entering"]
    /\ UNCHANGED <<main, at, count, latch, quit, work, counter, handed, last>>

\* ... then _quit = false, unless the compiler dropped the store.
Enter(p) ==
    /\ main # "aborted" /\ thread[p] = "entering"
    /\ thread' = [thread EXCEPT ![p] = "looping"]
    /\ \E q \in {FALSE, quit[p]} : quit' = [quit EXCEPT ![p] = q]
    /\ UNCHANGED <<main, at, count, latch, work, counter, handed, last>>

\* An iteration of the loop, or one functor of it.
Iterate(p) ==
    /\ main # "aborted" /\ thread[p] = "looping" /\ work[p] > 0
    /\ work' = [work EXCEPT ![p] = @ - 1]
    /\ UNCHANGED <<main, at, count, latch, thread, quit, counter, handed, last>>

\* start() returns having executed what was queued before stop().
Leave(p) ==
    /\ main # "aborted" /\ thread[p] = "looping" /\ quit[p]
    /\ thread' = [thread EXCEPT ![p] = "left"]
    /\ work' = [work EXCEPT ![p] = 0]
    /\ UNCHANGED <<main, at, count, latch, quit, counter, handed, last>>

\* _loop.reset(): the destructor executes what came after; the thread ends.
DestroyLoop(p) ==
    /\ main # "aborted" /\ thread[p] = "left"
    /\ thread' = [thread EXCEPT ![p] = "exited"]
    /\ work' = [work EXCEPT ![p] = 0]
    /\ UNCHANGED <<main, at, count, latch, quit, counter, handed, last>>

PairThread(p) ==
    \/ MakeLoop(p) \/ OnReady(p) \/ StartAborts(p) \/ StartAsserts(p) \/ Enter(p)
    \/ Iterate(p) \/ Leave(p) \/ DestroyLoop(p)

Main ==
    \/ PairStart \/ LatchWait \/ PairStop \/ PairJoin

Owner ==
    \/ \E n \in 0..MaxPairs : ClusterStart(n)
    \/ GetNextLoop \/ ClusterStop \/ ClusterStopAlone
    \/ \E p \in Pair : Post(p)

Next == Main \/ Owner \/ \E p \in Pair : PairThread(p)

\* The threads are scheduled; when the owner calls start() and stop() is up to
\* it.
Spec ==
    /\ Init /\ [][Next]_vars
    /\ WF_vars(Main)
    /\ \A p \in Pair : WF_vars(PairThread(p))

-----------------------------------------------------------------------------
(* Properties *)

\* Every variable keeps its type; the latch never goes below zero.
TypeOK ==
    /\ main \in MainPc /\ at \in Pair
    /\ count \in 0..MaxPairs /\ latch \in 0..MaxPairs
    /\ thread \in [Pair -> ThreadPc] /\ quit \in [Pair -> BOOLEAN]
    /\ work \in [Pair -> 0..MaxWork]
    /\ counter \in -HalfInt..(HalfInt - 1)
    /\ handed \in SUBSET Pair /\ last \in Pair \cup {0}

\* Between start() and stop() every pair has its EventLoop: the latch makes
\* start() wait for the slowest thread, so that no loop getNextLoop() hands out
\* is null and assert(_loop) in Pair::stop holds.
LoopsReady ==
    main \in {"running", "signal"} =>
        \A p \in pairs : (main = "signal" => p >= at) => hasLoop(p)

\* getNextLoop() hands out a loop of the vector that is alive, also while the
\* int _counter is negative, and the loops take turns, each after the one before
\* it: but not where _counter passes the largest int or becomes zero again, since
\* what it is converted to then jumps, and a jump keeps the turn only if
\* _pairs.size() divides it.
LoopsTakeTurns ==
    [][counter' # counter =>
           /\ last' \in pairs /\ hasLoop(last')
           /\ last # 0 /\ counter' \notin {0, -HalfInt} => last' = (last % count) + 1]_vars

\* When stop() has returned no thread of the cluster is left, and no functor
\* that the owner had queued in a loop is waiting: the connections a server
\* closed just before are closed.
StopLeavesNothing ==
    main = "idle" => \A p \in Pair : thread[p] = "none" /\ work[p] = 0

\* start() returns: no countDown() is missed by the wait().  stop() returns if
\* every loop has entered its loop when it is called.
CallsReturn ==
    /\ (main = "spawn") ~> (main \in {"running", "aborted"})
    /\ (main = "signal" /\ at = 1 /\ \A p \in pairs : thread[p] = "looping")
           ~> (main = "idle")

\* assert(!_quit) in EventLoop::start holds for the cluster's loops, whenever
\* stop() comes after start().
StartAssertion == \A p \in Pair : ~(thread[p] = "ready" /\ quit[p])
=============================================================================
