------------------------ MODULE EventLoopClusterProofs ------------------------
(***************************************************************************)
(* start(), getNextLoop() and stop() of EventLoopCluster, for any number   *)
(* of threads, any width of _counter and any interleaving.  The latch is a *)
(* cardinality: it counts the pairs that have not reported yet.            *)
(***************************************************************************)
EXTENDS EventLoopCluster, FiniteSetTheorems, TLAPS

-----------------------------------------------------------------------------
(* The inductive invariant: how far each thread can be, given how far the    *)
(* owner is, unless an assertion has ended the process.                      *)

\* The pairs whose countDown() is still to come
notReady == {p \in 1..count : thread[p] \in {"none", "spawned", "made"}}

InLoop == {"ready", "entering", "looping"}

\* While start() is at work the latch counts the missing pairs.
LatchCounts ==
    IF main \in {"spawn", "wait"} THEN latch = Cardinality(notReady)
                                  ELSE latch = 0

\* Threads exist for the pairs start() has come to and stop() has not joined.
ThreadsMatch ==
    \A p \in Pair :
        /\ main = "spawn" =>
               thread[p] \in IF p < at THEN {"spawned", "made"} \cup InLoop ELSE {"none"}
        /\ main = "wait" =>
               thread[p] \in IF p <= count THEN {"spawned", "made"} \cup InLoop ELSE {"none"}
        /\ main = "running" => thread[p] \in IF p \in pairs THEN InLoop ELSE {"none"}
        /\ main \in {"signal", "join"} =>
               thread[p] \in IF p < at \/ p > count THEN {"none"}
                             ELSE IF main = "join" /\ p = at
                                    THEN InLoop \cup {"left", "exited"}
                                    ELSE InLoop
        /\ main = "idle" => thread[p] = "none"

\* A loop's _quit is set by stop(), one pair at a time.
QuitMatches ==
    main \in {"spawn", "wait", "running", "signal", "join"} =>
        \A p \in Pair : quit[p] /\ ~(main = "join" /\ p = at)
                            => thread[p] \in {"none", "spawned"}

ClusterInv ==
    /\ main \in {"spawn", "wait", "signal", "join"} => count > 1
    /\ main \in {"spawn", "signal", "join"} => at <= count
    /\ main \in {"spawn", "wait"} => handed = {}
    /\ last # 0 => count > 1 /\ last = (ToSize(counter) % count) + 1
    /\ main = "running" => handed \subseteq pairs
    /\ \A p \in Pair : work[p] > 0 => thread[p] \in InLoop
    /\ LatchCounts /\ ThreadsMatch /\ QuitMatches

IndInv == TypeOK /\ (main # "aborted" => ClusterInv)

-----------------------------------------------------------------------------

\* The latch of start(n) begins with as many pairs as there are to report.
LEMMA LatchBegins ==
    ASSUME NEW n \in Nat
    PROVE  Cardinality(1..n) = n
  BY FS_Interval, SMT

\* One more pair has reported.
LEMMA LatchStep ==
    ASSUME NEW S, IsFiniteSet(S), NEW p \in S
    PROVE  Cardinality(S \ {p}) = Cardinality(S) - 1 /\ Cardinality(S) \in Nat \ {0}
  BY FS_RemoveElement, FS_CardinalityType, FS_EmptySet

\* The pairs that have not reported are finitely many.
LEMMA NotReadyFinite ==
    ASSUME TypeOK
    PROVE  /\ IsFiniteSet(notReady) /\ Cardinality(notReady) \in Nat
           /\ Cardinality(notReady) = 0 => notReady = {}
  <1>1. IsFiniteSet(1..count)
    BY FS_Interval DEF TypeOK
  <1>2. IsFiniteSet(notReady)
    BY <1>1, FS_Subset DEF notReady
  <1> QED BY <1>2, FS_CardinalityType, FS_EmptySet

\* ++_counter stays in the range of an int.
LEMMA IncrementType ==
    ASSUME NEW i \in -HalfInt..(HalfInt - 1)
    PROVE  Increment(i) \in -HalfInt..(HalfInt - 1)
  BY ClusterAssumption DEF Increment

\* What _counter is converted to is a size_t, and one more after ++, but where
\* _counter passes the largest int or becomes zero again.
LEMMA ToSizeStep ==
    ASSUME NEW i \in -HalfInt..(HalfInt - 1)
    PROVE  /\ ToSize(i) \in 0..(SizeRange - 1)
           /\ Increment(i) \notin {0, -HalfInt} => ToSize(Increment(i)) = ToSize(i) + 1
  BY ClusterAssumption DEF Increment, ToSize

\* A multiple of n that lies between -n and n is none.
LEMMA NoMultiple ==
    ASSUME NEW n \in Nat \ {0}, NEW d \in Int, n * d < n, n * d > -n
    PROVE  d = 0
  <1>1. ASSUME NEW a \in Nat, NEW b \in Nat PROVE a * b \in Nat
    OBVIOUS
  <1>2. CASE d >= 1
    <2>1. n * (d - 1) \in Nat
      BY <1>1, <1>2
    <2>2. n * (d - 1) = n * d - n
      OBVIOUS
    <2> QED BY <2>1, <2>2
  <1>3. CASE d <= -1
    <2>1. n * (-d - 1) \in Nat
      BY <1>1, <1>3
    <2>2. n * (-d - 1) = -(n * d) - n
      OBVIOUS
    <2> QED BY <2>1, <2>2
  <1> QED BY <1>2, <1>3

\* The remainder is the only one there is.
LEMMA RemainderUnique ==
    ASSUME NEW s \in Nat, NEW n \in Nat \ {0}, NEW q \in Int, NEW r \in 0..(n - 1), s = n * q + r
    PROVE  s % n = r
  <1> DEFINE Q == s \div n
             R == s % n
  <1>1. Q \in Int /\ R \in 0..(n - 1) /\ s = n * Q + R
    OBVIOUS
  <1> HIDE DEF Q, R
  <1>2. n * (Q - q) = n * Q - n * q /\ Q - q \in Int
    BY <1>1
  <1>3. n * (Q - q) = r - R
    BY <1>1, <1>2
  <1>4. Q - q = 0
    BY <1>1, <1>2, <1>3, NoMultiple
  <1>5. Q = q
    BY <1>1, <1>4
  <1>6. R = r
    BY <1>1, <1>5
  <1> QED BY <1>6 DEF R

\* Remainders of neighbours are neighbours, in the circle.
LEMMA RemainderStep ==
    ASSUME NEW s \in Nat, NEW n \in Nat \ {0}
    PROVE  /\ s % n \in 0..(n - 1)
           /\ (s + 1) % n = ((s % n) + 1) % n
  <1> DEFINE Q == s \div n
             R == s % n
  <1>1. Q \in Int /\ R \in 0..(n - 1) /\ s = n * Q + R
    OBVIOUS
  <1> HIDE DEF Q, R
  <1>2. CASE R + 1 < n
    <2>1. R + 1 \in 0..(n - 1) /\ s + 1 = n * Q + (R + 1) /\ R + 1 = n * 0 + (R + 1)
      BY <1>1, <1>2
    <2>2. (s + 1) % n = R + 1
      BY <1>1, <2>1, RemainderUnique
    <2>3. (R + 1) % n = R + 1
      BY <1>1, <2>1, RemainderUnique
    <2> QED BY <1>1, <2>2, <2>3 DEF R
  <1>3. CASE R + 1 = n
    <2>1. n * (Q + 1) = n * Q + n
      BY <1>1
    <2>2. 0 \in 0..(n - 1) /\ s + 1 = n * (Q + 1) + 0 /\ R + 1 = n * 1 + 0
      BY <1>1, <1>3, <2>1
    <2>3. (s + 1) % n = 0
      BY <1>1, <2>2, RemainderUnique
    <2>4. (R + 1) % n = 0
      BY <1>1, <2>2, RemainderUnique
    <2> QED BY <1>1, <2>3, <2>4 DEF R
  <1> QED BY <1>1, <1>2, <1>3

\* The loop that getNextLoop() picks is one of the pairs'.
LEMMA NextLoopIsPair ==
    ASSUME TypeOK, count > 1, NEW c \in Nat
    PROVE  /\ Cardinality(pairs) = count
           /\ (c % count) + 1 \in pairs /\ (c % count) + 1 \in Pair
  <1>1. count \in Nat \ {0} /\ count <= MaxPairs /\ pairs = 1..count
    BY ClusterAssumption DEF TypeOK, pairs
  <1>2. Cardinality(pairs) = count
    BY <1>1, LatchBegins
  <1>3. c % count \in 0..(count - 1)
    BY <1>1, RemainderStep
  <1> DEFINE r == c % count
  <1>4. r + 1 \in 1..count /\ r + 1 \in Pair
    <2> HIDE DEF r
    <2>1. r \in 0..(count - 1)
      BY <1>3 DEF r
    <2> QED BY <1>1, <2>1, ClusterAssumption DEF Pair
  <1> QED BY <1>1, <1>2, <1>4

\* The step of getNextLoop(), on a cluster with threads
LEMMA NextLoopStep ==
    ASSUME TypeOK, GetNextLoop, count > 1
    PROVE  /\ counter' = Increment(counter) /\ counter' \in -HalfInt..(HalfInt - 1)
           /\ last' = (ToSize(counter') % count) + 1
           /\ last' \in pairs /\ last' \in Pair
           /\ handed' = handed \cup {last'}
  <1>1. counter' = Increment(counter) /\ counter' \in -HalfInt..(HalfInt - 1)
    BY IncrementType DEF GetNextLoop, TypeOK
  <1>2. ToSize(counter') \in Nat
    BY <1>1, ToSizeStep, ClusterAssumption
  <1>3. last' = (ToSize(counter') % count) + 1 /\ handed' = handed \cup {last'}
    BY <1>2, NextLoopIsPair DEF GetNextLoop, TypeOK
  <1>4. last' \in pairs /\ last' \in Pair
    BY <1>2, <1>3, NextLoopIsPair
  <1> QED BY <1>1, <1>3, <1>4

\* A new EventLoopCluster satisfies the invariant.
LEMMA InitIndInv == Init => IndInv
  BY ClusterAssumption DEF Init, IndInv, TypeOK, Pair, MainPc, ThreadPc, ClusterInv, LatchCounts,
     ThreadsMatch, QuitMatches, InLoop

\* Types are kept by the owner's steps.
LEMMA OwnerTypes ==
    ASSUME IndInv, Main \/ Owner
    PROVE  TypeOK'
  <1> USE DEF IndInv, TypeOK, MainPc, ThreadPc, Pair
  <1>1. ASSUME NEW n \in 0..MaxPairs, ClusterStart(n) PROVE TypeOK'
    BY <1>1, ClusterAssumption DEF ClusterStart
  <1>2. CASE PairStart
    <2>1. thread' \in [Pair -> ThreadPc]
      BY <1>2 DEF PairStart
    <2>2. at' \in Pair
      <3>1. CASE at < count
        BY <1>2, <3>1, ClusterAssumption DEF PairStart
      <3>2. CASE ~(at < count)
        BY <1>2, <3>2, ClusterAssumption DEF PairStart
      <3> QED BY <3>1, <3>2
    <2>3. main' \in MainPc
      BY <1>2 DEF PairStart
    <2> QED BY <1>2, <2>1, <2>2, <2>3 DEF PairStart
  <1>3. CASE LatchWait
    BY <1>3 DEF LatchWait
  <1>4. CASE GetNextLoop
    <2>1. CASE count > 1
      BY <1>4, <2>1, NextLoopStep DEF GetNextLoop
    <2>2. CASE count <= 1
      BY <1>4, <2>2 DEF GetNextLoop
    <2> QED BY <2>1, <2>2
  <1>5. ASSUME NEW p \in Pair, Post(p) PROVE TypeOK'
    BY <1>5, ClusterAssumption DEF Post
  <1>6. CASE ClusterStop
    BY <1>6, ClusterAssumption DEF ClusterStop
  <1>7. CASE ClusterStopAlone
    BY <1>7 DEF ClusterStopAlone
  <1>8. CASE PairStop
    BY <1>8 DEF PairStop
  <1>9. CASE PairJoin
    BY <1>9, ClusterAssumption DEF PairJoin, ClusterInv
  <1> QED BY <1>1, <1>2, <1>3, <1>4, <1>5, <1>6, <1>7, <1>8, <1>9 DEF Main, Owner

\* Types are kept by the pairs' threads: the latch, in particular, is not
\* counted down below zero.
LEMMA ThreadTypes ==
    ASSUME IndInv, NEW p \in Pair, PairThread(p)
    PROVE  TypeOK'
  <1> USE DEF IndInv, TypeOK, MainPc, ThreadPc
  <1>1. CASE MakeLoop(p)
    BY <1>1 DEF MakeLoop
  <1>2. CASE OnReady(p)
    <2>1. main \in {"spawn", "wait"} /\ p \in 1..count
      BY <1>2 DEF OnReady, ClusterInv, ThreadsMatch, InLoop, Pair
    <2>2. p \in notReady
      BY <1>2, <2>1 DEF OnReady, notReady
    <2>3. latch = Cardinality(notReady)
      BY <1>2, <2>1 DEF OnReady, ClusterInv, LatchCounts
    <2>4. latch \in Nat \ {0}
      BY <2>2, <2>3, NotReadyFinite, LatchStep
    <2>5. latch' \in 0..MaxPairs
      BY <1>2, <2>4, ClusterAssumption DEF OnReady
    <2> QED BY <1>2, <2>5 DEF OnReady
  <1>3. CASE StartAborts(p)
    BY <1>3 DEF StartAborts
  <1>4. CASE StartAsserts(p)
    BY <1>4 DEF StartAsserts
  <1>5. CASE Enter(p)
    BY <1>5 DEF Enter
  <1>6. CASE Iterate(p)
    BY <1>6, ClusterAssumption DEF Iterate
  <1>7. CASE Leave(p)
    BY <1>7, ClusterAssumption DEF Leave
  <1>8. CASE DestroyLoop(p)
    BY <1>8, ClusterAssumption DEF DestroyLoop
  <1> QED BY <1>1, <1>2, <1>3, <1>4, <1>5, <1>6, <1>7, <1>8 DEF PairThread

\* The owner's steps keep threads, latch and _quit in agreement.
LEMMA OwnerKeeps ==
    ASSUME IndInv, Main \/ Owner, main' # "aborted"
    PROVE  ClusterInv'
  <1> USE DEF IndInv, TypeOK, Pair, InLoop
  <1>0. main # "aborted" /\ ClusterInv
    BY DEF Main, Owner, PairStart, LatchWait, PairStop, PairJoin, ClusterStart, GetNextLoop,
       ClusterStop, ClusterStopAlone, Post
  <1>1. ASSUME NEW n \in 0..MaxPairs, ClusterStart(n) PROVE ClusterInv'
    <2>1. \A p \in Pair : thread'[p] = "none" /\ work'[p] = 0
      BY <1>0, <1>1 DEF ClusterStart, ClusterInv, ThreadsMatch
    <2>2. LatchCounts'
      <3>1. n > 1 => notReady' = 1..n
        <4>1. \A p \in 1..n : thread'[p] = "none"
          BY <2>1, ClusterAssumption
        <4>2. count' = n
          BY <1>1 DEF ClusterStart
        <4>3. notReady' = {p \in 1..n : thread'[p] \in {"none", "spawned", "made"}}
          BY <4>2 DEF notReady
        <4> QED BY <4>1, <4>3
      <3> QED BY <1>0, <1>1, <3>1, LatchBegins DEF ClusterStart, LatchCounts, ClusterInv
    <2> QED BY <1>0, <1>1, <2>1, <2>2 DEF ClusterStart, ClusterInv, ThreadsMatch, QuitMatches, pairs
  <1>2. CASE PairStart
    <2>1. at \in 1..count /\ count > 1 /\ thread[at] = "none"
      BY <1>0, <1>2 DEF PairStart, ClusterInv, ThreadsMatch
    <2>2. notReady' = notReady
      BY <1>2, <2>1 DEF PairStart, notReady
    <2>3. LatchCounts'
      BY <1>0, <1>2, <2>2 DEF PairStart, LatchCounts, ClusterInv
    <2>4. ThreadsMatch'
      BY <1>0, <1>2, <2>1 DEF PairStart, ThreadsMatch, ClusterInv
    <2>5. QuitMatches'
      BY <1>0, <1>2, <2>1 DEF PairStart, QuitMatches, ClusterInv
    <2> QED BY <1>0, <1>2, <2>1, <2>3, <2>4, <2>5 DEF PairStart, ClusterInv
  <1>3. CASE LatchWait
    <2>1. notReady = {}
      BY <1>0, <1>3, NotReadyFinite DEF LatchWait, ClusterInv, LatchCounts
    <2>2. pairs = 1..count /\ pairs' = pairs
      BY <1>0, <1>3 DEF LatchWait, ClusterInv, pairs
    <2>3. ThreadsMatch'
      BY <1>0, <1>3, <2>1, <2>2 DEF LatchWait, ThreadsMatch, ClusterInv, notReady
    <2>4. handed' \subseteq pairs'
      BY <1>0, <1>3, <2>2 DEF LatchWait, ClusterInv
    <2> QED BY <1>0, <1>3, <2>3, <2>4 DEF LatchWait, ClusterInv, LatchCounts, QuitMatches
  <1>4. CASE GetNextLoop
    <2>1. pairs' = pairs /\ notReady' = notReady
      BY <1>4 DEF GetNextLoop, pairs, notReady
    <2>2. /\ handed' \subseteq pairs
          /\ last' # 0 => count > 1 /\ last' = (ToSize(counter') % count) + 1
      <3>1. CASE count > 1
        BY <1>0, <1>4, <3>1, NextLoopStep DEF ClusterInv, GetNextLoop
      <3>2. CASE count <= 1
        BY <1>0, <1>4, <3>2 DEF GetNextLoop, ClusterInv
      <3> QED BY <3>1, <3>2
    <2> QED
      BY <1>0, <1>4, <2>1, <2>2 DEF GetNextLoop, ClusterInv, LatchCounts, ThreadsMatch, QuitMatches
  <1>5. ASSUME NEW p \in Pair, Post(p) PROVE ClusterInv'
    <2>1. pairs' = pairs /\ notReady' = notReady /\ p \in pairs
      BY <1>0, <1>5 DEF Post, pairs, notReady, ClusterInv
    <2>2. thread[p] \in InLoop
      BY <1>0, <1>5, <2>1 DEF Post, ClusterInv, ThreadsMatch
    <2>3. \A q \in Pair : work'[q] > 0 => thread'[q] \in InLoop
      BY <1>0, <1>5, <2>2 DEF Post, ClusterInv
    <2> QED
      BY <1>0, <1>5, <2>1, <2>3 DEF Post, ClusterInv, LatchCounts, ThreadsMatch, QuitMatches
  <1>6. CASE ClusterStop
    <2>1. pairs' = pairs /\ pairs = 1..count /\ count > 1
      BY <1>6 DEF ClusterStop, pairs
    <2>2. ThreadsMatch'
      BY <1>0, <1>6, <2>1 DEF ClusterStop, ThreadsMatch, ClusterInv
    <2> QED BY <1>0, <1>6, <2>1, <2>2 DEF ClusterStop, ClusterInv, LatchCounts, QuitMatches
  <1>7. CASE ClusterStopAlone
    BY <1>0, <1>7 DEF ClusterStopAlone, ClusterInv, LatchCounts, ThreadsMatch, QuitMatches
  <1>8. CASE PairStop
    <2>1. ThreadsMatch'
      BY <1>0, <1>8 DEF PairStop, ClusterInv, ThreadsMatch
    <2>2. QuitMatches'
      BY <1>0, <1>8 DEF PairStop, ClusterInv, QuitMatches
    <2> QED BY <1>0, <1>8, <2>1, <2>2 DEF PairStop, ClusterInv, LatchCounts
  <1>9. CASE PairJoin
    <2>1. at \in 1..count /\ work[at] = 0 /\ latch = 0 /\ count > 1
      BY <1>0, <1>9 DEF PairJoin, ClusterInv, LatchCounts
    <2>2. thread' = [thread EXCEPT ![at] = "none"] /\ work' = work /\ quit' = quit /\ count' = count
      BY <1>9 DEF PairJoin
    <2>3. CASE at < count
      <3>1. main' = "signal" /\ at' = at + 1
        BY <1>9, <2>3 DEF PairJoin
      <3>2. ThreadsMatch'
        BY <1>0, <1>9, <2>1, <2>2, <2>3, <3>1 DEF PairJoin, ClusterInv, ThreadsMatch
      <3>3. QuitMatches'
        BY <1>0, <1>9, <2>1, <2>2, <2>3, <3>1 DEF PairJoin, ClusterInv, QuitMatches
      <3> QED BY <1>0, <1>9, <2>1, <2>2, <2>3, <3>1, <3>2, <3>3 DEF PairJoin, ClusterInv, LatchCounts
    <2>4. CASE ~(at < count)
      <3>1. main' = "idle" /\ at = count
        BY <1>9, <2>1, <2>4 DEF PairJoin
      <3>2. ThreadsMatch'
        BY <1>0, <1>9, <2>1, <2>2, <3>1 DEF PairJoin, ClusterInv, ThreadsMatch
      <3> QED
        BY <1>0, <1>9, <2>1, <2>2, <3>1, <3>2 DEF PairJoin, ClusterInv, LatchCounts, QuitMatches
    <2> QED BY <2>3, <2>4
  <1> QED BY <1>1, <1>2, <1>3, <1>4, <1>5, <1>6, <1>7, <1>8, <1>9 DEF Main, Owner

\* The threads' steps keep threads, latch and _quit in agreement.
LEMMA ThreadsKeep ==
    ASSUME IndInv, NEW p \in Pair, PairThread(p), main' # "aborted"
    PROVE  ClusterInv'
  <1> USE DEF IndInv, TypeOK, Pair, InLoop
  <1>0. main # "aborted" /\ ClusterInv
    BY DEF PairThread, MakeLoop, OnReady, StartAborts, StartAsserts, Enter, Iterate, Leave, DestroyLoop
  <1>1. CASE MakeLoop(p)
    <2>1. main \in {"spawn", "wait"} /\ work[p] = 0
      BY <1>0, <1>1 DEF MakeLoop, ClusterInv, ThreadsMatch, MainPc
    <2>2. notReady' = notReady
      BY <1>1 DEF MakeLoop, notReady
    <2>3. LatchCounts'
      BY <1>0, <1>1, <2>1, <2>2 DEF MakeLoop, LatchCounts, ClusterInv
    <2>4. ThreadsMatch'
      BY <1>0, <1>1, <2>1 DEF MakeLoop, ThreadsMatch, ClusterInv
    <2>5. QuitMatches'
      BY <1>0, <1>1, <2>1 DEF MakeLoop, QuitMatches, ClusterInv
    <2> QED BY <1>0, <1>1, <2>1, <2>3, <2>4, <2>5 DEF MakeLoop, ClusterInv
  <1>2. CASE OnReady(p)
    <2>1. main \in {"spawn", "wait"} /\ p \in 1..count
      BY <1>0, <1>2 DEF OnReady, ClusterInv, ThreadsMatch, MainPc
    <2>2. p \in notReady /\ notReady' = notReady \ {p}
      BY <1>2, <2>1 DEF OnReady, notReady
    <2>3. LatchCounts'
      BY <1>0, <1>2, <2>1, <2>2, NotReadyFinite, LatchStep DEF OnReady, ClusterInv, LatchCounts
    <2>4. ThreadsMatch'
      BY <1>0, <1>2, <2>1 DEF OnReady, ThreadsMatch, ClusterInv
    <2>5. QuitMatches'
      BY <1>0, <1>2, <2>1 DEF OnReady, QuitMatches, ClusterInv
    <2> QED BY <1>0, <1>2, <2>1, <2>3, <2>4, <2>5 DEF OnReady, ClusterInv
  <1>3. CASE StartAborts(p)
    BY <1>3 DEF StartAborts
  <1> DEFINE Later(s) ==
        /\ p \in Pair /\ thread[p] \in InLoop /\ s \in InLoop
        /\ thread' = [thread EXCEPT ![p] = s]
        /\ UNCHANGED <<main, at, count, latch, work, counter, handed, last>>
        /\ \A q \in Pair : quit'[q] => quit[q]
  <1>4. ASSUME NEW s, Later(s) PROVE ClusterInv'
    <2>1. notReady' = notReady /\ pairs' = pairs
      BY <1>4 DEF notReady, pairs
    <2>2. LatchCounts'
      BY <1>0, <1>4, <2>1 DEF LatchCounts, ClusterInv
    <2>3. ThreadsMatch'
      BY <1>0, <1>4, <2>1 DEF ThreadsMatch, ClusterInv
    <2>4. QuitMatches'
      BY <1>0, <1>4 DEF QuitMatches, ClusterInv
    <2> QED BY <1>0, <1>4, <2>1, <2>2, <2>3, <2>4 DEF ClusterInv
  <1>5. CASE StartAsserts(p)
    <2>1. Later("entering")
      BY <1>5 DEF StartAsserts
    <2> QED BY <1>4, <2>1
  <1>6. CASE Enter(p)
    <2>1. Later("looping")
      BY <1>6 DEF Enter
    <2> QED BY <1>4, <2>1
  <1>7. CASE Iterate(p)
    <2>1. notReady' = notReady /\ pairs' = pairs
      BY <1>7 DEF Iterate, notReady, pairs
    <2> QED BY <1>0, <1>7, <2>1 DEF Iterate, ClusterInv, LatchCounts, ThreadsMatch, QuitMatches
  <1> DEFINE Ends(s) ==
        /\ p \in Pair /\ main = "join" /\ p = at /\ s \in {"left", "exited"}
        /\ thread' = [thread EXCEPT ![p] = s]
        /\ work' = [work EXCEPT ![p] = 0]
        /\ UNCHANGED <<main, at, count, latch, quit, counter, handed, last>>
  <1>8. ASSUME NEW s, Ends(s) PROVE ClusterInv'
    <2>1. LatchCounts'
      BY <1>0, <1>8 DEF LatchCounts, ClusterInv
    <2>2. ThreadsMatch'
      BY <1>0, <1>8 DEF ThreadsMatch, ClusterInv
    <2>3. QuitMatches'
      BY <1>0, <1>8 DEF QuitMatches, ClusterInv
    <2> QED BY <1>0, <1>8, <2>1, <2>2, <2>3 DEF ClusterInv
  <1>9. CASE Leave(p)
    <2>1. Ends("left")
      BY <1>0, <1>9 DEF Leave, ClusterInv, ThreadsMatch, QuitMatches, MainPc
    <2> QED BY <1>8, <2>1
  <1>10. CASE DestroyLoop(p)
    <2>1. Ends("exited")
      BY <1>0, <1>10 DEF DestroyLoop, ClusterInv, ThreadsMatch, MainPc
    <2> QED BY <1>8, <2>1
  <1> QED BY <1>1, <1>2, <1>3, <1>5, <1>6, <1>7, <1>9, <1>10 DEF PairThread

\* No step breaks the invariant.
LEMMA NextIndInv == IndInv /\ [Next]_vars => IndInv'
  <1> SUFFICES ASSUME IndInv, [Next]_vars PROVE IndInv'
    OBVIOUS
  <1>1. CASE Main \/ Owner
    BY <1>1, OwnerTypes, OwnerKeeps DEF IndInv
  <1>2. ASSUME NEW p \in Pair, PairThread(p) PROVE IndInv'
    BY <1>2, ThreadTypes, ThreadsKeep DEF IndInv
  <1>3. CASE UNCHANGED vars
    BY <1>3 DEF vars, IndInv, TypeOK, ClusterInv, LatchCounts, ThreadsMatch, QuitMatches, notReady, pairs
  <1> QED BY <1>1, <1>2, <1>3 DEF Next

\* Owner, latch and threads agree at all times.
THEOREM Invariance == Spec => []IndInv
  BY InitIndInv, NextIndInv, PTL DEF Spec

\* Type correctness, the latch's lower bound included.
THEOREM TypeCorrect == Spec => []TypeOK
  BY Invariance, PTL DEF IndInv

\* start() waits for the slowest thread: every pair has its loop until stop()
\* has come to it, so that assert(_loop) in Pair::stop holds.
THEOREM LoopsAreReady == Spec => []LoopsReady
  <1>1. IndInv => LoopsReady
    BY ClusterAssumption DEF IndInv, TypeOK, ClusterInv, ThreadsMatch, LoopsReady, hasLoop, InLoop, pairs, Pair
  <1> QED BY <1>1, Invariance, PTL

\* getNextLoop() hands out living loops of the vector in turn, for any number of
\* threads and any widths of int and size_t, but where _counter jumps.
THEOREM LoopsAreTakenInTurn == Spec => LoopsTakeTurns
  <1> DEFINE Turn ==
        counter' # counter =>
            /\ last' \in pairs /\ hasLoop(last')
            /\ last # 0 /\ counter' \notin {0, -HalfInt} => last' = (last % count) + 1
  <1>1. IndInv /\ [Next]_vars => [Turn]_vars
    <2> SUFFICES ASSUME IndInv, Next, counter' # counter PROVE Turn
      OBVIOUS
    <2>1. GetNextLoop
      BY DEF Next, Main, Owner, PairThread, ClusterStart, PairStart, LatchWait, ClusterStopAlone,
         ClusterStop, Post, PairStop, PairJoin, MakeLoop, OnReady, StartAborts, StartAsserts,
         Enter, Iterate, Leave, DestroyLoop
    <2>2. main = "running" /\ TypeOK /\ ClusterInv
      BY <2>1 DEF GetNextLoop, IndInv
    <2>3. count > 1
      BY <2>1, <2>2 DEF GetNextLoop, TypeOK
    <2>4. last' \in pairs /\ last' \in Pair
      BY <2>1, <2>2, <2>3, NextLoopStep
    <2>5. hasLoop(last')
      BY <2>2, <2>4 DEF ClusterInv, ThreadsMatch, InLoop, hasLoop
    <2>6. ASSUME last # 0, counter' \notin {0, -HalfInt} PROVE last' = (last % count) + 1
      <3> DEFINE s == ToSize(counter)
      <3>1. s \in Nat /\ ToSize(counter') = s + 1
        BY <2>1, <2>2, <2>3, <2>6, NextLoopStep, ToSizeStep, ClusterAssumption DEF TypeOK
      <3>2. last = (s % count) + 1
        BY <2>2, <2>6 DEF ClusterInv
      <3>3. last' = ((s + 1) % count) + 1
        BY <2>1, <2>2, <2>3, <3>1, NextLoopStep
      <3>4. (s + 1) % count = ((s % count) + 1) % count
        BY <2>2, <2>3, <3>1, RemainderStep DEF TypeOK
      <3> QED BY <3>2, <3>3, <3>4
    <2> QED BY <2>4, <2>5, <2>6
  <1> QED BY <1>1, Invariance, PTL DEF Spec, LoopsTakeTurns

\* stop() has joined every thread and left no functor waiting.
THEOREM StopIsComplete == Spec => []StopLeavesNothing
  <1>1. IndInv => StopLeavesNothing
    BY DEF IndInv, TypeOK, ClusterInv, ThreadsMatch, StopLeavesNothing, InLoop
  <1> QED BY <1>1, Invariance, PTL
=============================================================================
