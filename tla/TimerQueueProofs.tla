--------------------------- MODULE TimerQueueProofs ---------------------------
(***************************************************************************)
(* The heap and the map of TimerQueue agree, for any number of timers and  *)
(* any interleaving: IndInv is inductive.                                  *)
(***************************************************************************)
EXTENDS TimerQueue, SequenceTheorems, TLAPS

\* A heapSwap inside the heap keeps heap, map and indices in agreement.
LEMMA SwapKeeps ==
    ASSUME IndInv, NEW a \in 1..Len(heap), NEW b \in 1..Len(heap), HeapSwap(a, b),
           UNCHANGED <<owned, phase, due>>
    PROVE  heap' \in Seq(Timer) /\ index' \in [Timer -> Nat] /\ HeapMatchesMap' /\ Len(heap') = Len(heap)
  <1> USE DEF IndInv
  <1>1. /\ heap' \in Seq(Timer) /\ Len(heap') = Len(heap)
        /\ heap'[a] = heap[b] /\ heap'[b] = heap[a]
        /\ \A i \in 1..Len(heap) : i # a /\ i # b => heap'[i] = heap[i]
    BY SMTT(30) DEF HeapSwap, TypeOK
  <1>2. heap[a] \in Timer /\ heap[b] \in Timer /\ index \in [Timer -> Nat] /\ Len(heap) \in Nat
    BY DEF TypeOK
  <1>3. /\ index' \in [Timer -> Nat]
        /\ index'[heap[a]] = b
        /\ heap[a] # heap[b] => index'[heap[b]] = a
        /\ \A t \in Timer : t # heap[a] /\ t # heap[b] => index'[t] = index[t]
    BY <1>2 DEF HeapSwap
  <1>4. \A i \in 1..Len(heap) : heap[i] \in inHeap /\ heap[i] \in Timer /\ index[heap[i]] = i
    BY DEF HeapMatchesMap, TypeOK
  <1>5. heap[a] = heap[b] => a = b
    BY <1>4
  <1>6. inHeap' = inHeap
    BY DEF inHeap
  <1>7. ASSUME NEW i \in 1..Len(heap') PROVE heap'[i] \in inHeap' /\ index'[heap'[i]] = i
    <2>1. CASE i = a
      BY <1>1, <1>3, <1>4, <1>5, <1>6, <2>1
    <2>2. CASE i = b
      BY <1>1, <1>3, <1>4, <1>5, <1>6, <2>2
    <2>3. CASE i # a /\ i # b
      <3>1. heap'[i] = heap[i] /\ heap[i] # heap[a] /\ heap[i] # heap[b]
        BY <1>1, <1>4, <2>3
      <3> QED BY <1>1, <1>3, <1>4, <1>6, <3>1, SMTT(30)
    <2> QED BY <2>1, <2>2, <2>3
  <1>8. ASSUME NEW t \in inHeap' PROVE index'[t] \in 1..Len(heap') /\ heap'[index'[t]] = t
    <2>1. t \in Timer /\ index[t] \in 1..Len(heap) /\ heap[index[t]] = t
      BY <1>6, <1>8 DEF HeapMatchesMap, TypeOK, inHeap
    <2>2. CASE t = heap[a]
      BY <1>1, <1>3, <2>2
    <2>3. CASE t = heap[b] /\ t # heap[a]
      BY <1>1, <1>3, <2>3
    <2>4. CASE t # heap[a] /\ t # heap[b]
      BY <1>1, <1>3, <2>1, <2>4
    <2> QED BY <2>2, <2>3, <2>4
  <1> QED BY <1>1, <1>3, <1>7, <1>8 DEF HeapMatchesMap

\* Swapping an entry with the last one and dropping it removes that entry.
LEMMA DropRemoves ==
    ASSUME IndInv, NEW a \in 1..Len(heap), SwapAndDrop(a),
           inHeap' = inHeap \ {heap[a]}
    PROVE  heap' \in Seq(Timer) /\ index' \in [Timer -> Nat] /\ HeapMatchesMap'
  <1> USE DEF IndInv
  <1> DEFINE n == Len(heap)
  <1>1. n \in Nat /\ n > 0 /\ heap \in Seq(Timer) /\ index \in [Timer -> Nat]
    BY DEF TypeOK
  <1>2. \A i \in 1..n : heap[i] \in inHeap /\ heap[i] \in Timer /\ index[heap[i]] = i
    BY DEF HeapMatchesMap, TypeOK
  <1>3. /\ heap' \in Seq(Timer) /\ Len(heap') = n - 1
        /\ \A i \in 1..(n - 1) : heap'[i] = IF i = a THEN heap[n] ELSE heap[i]
    <2> DEFINE h == [heap EXCEPT ![a] = heap[n]]
    <2>1. h \in Seq(Timer) /\ Len(h) = n /\ \A i \in 1..n : h[i] = IF i = a THEN heap[n] ELSE heap[i]
      BY <1>1, <1>2
    <2>2. heap' = SubSeq(h, 1, n - 1)
      BY DEF SwapAndDrop
    <2> HIDE DEF h
    <2> QED BY <1>1, <2>1, <2>2
  <1>4. /\ index' \in [Timer -> Nat]
        /\ a # n => index'[heap[n]] = a
        /\ \A t \in Timer : t # heap[a] /\ t # heap[n] => index'[t] = index[t]
    <2>1. heap[a] \in Timer /\ heap[n] \in Timer
      BY <1>1, <1>2
    <2>2. a # n => heap[a] # heap[n]
      BY <1>1, <1>2
    <2>3. index' = [[index EXCEPT ![heap[n]] = a] EXCEPT ![heap[a]] = 0]
      BY DEF SwapAndDrop
    <2> DEFINE g == [index EXCEPT ![heap[n]] = a]
    <2>4. /\ g \in [Timer -> Nat] /\ g[heap[n]] = a
          /\ \A t \in Timer : t # heap[n] => g[t] = index[t]
      BY <1>1, <2>1
    <2> HIDE DEF g
    <2>5. index' = [g EXCEPT ![heap[a]] = 0]
      BY <2>3 DEF g
    <2> QED BY <1>1, <2>1, <2>2, <2>4, <2>5
  <1>5. ASSUME NEW i \in 1..Len(heap') PROVE heap'[i] \in inHeap' /\ index'[heap'[i]] = i
    <2>1. i \in 1..n /\ i # n
      BY <1>1, <1>3
    <2>2. CASE i = a
      <3>1. heap'[i] = heap[n] /\ heap[n] # heap[a] /\ heap[n] \in inHeap
        BY <1>1, <1>2, <1>3, <2>1, <2>2
      <3> QED BY <1>4, <2>1, <2>2, <3>1
    <2>3. CASE i # a
      <3>1. heap'[i] = heap[i] /\ heap[i] # heap[a] /\ heap[i] # heap[n]
        BY <1>1, <1>2, <1>3, <2>1, <2>3, SMTT(30)
      <3> QED BY <1>2, <1>4, <2>1, <3>1
    <2> QED BY <2>2, <2>3
  <1>6. ASSUME NEW t \in inHeap' PROVE index'[t] \in 1..Len(heap') /\ heap'[index'[t]] = t
    <2>1. t \in Timer /\ index[t] \in 1..n /\ heap[index[t]] = t /\ t # heap[a]
      BY <1>6 DEF HeapMatchesMap, TypeOK, inHeap
    <2>2. CASE t = heap[n]
      <3>1. a # n /\ index'[t] = a
        BY <1>4, <2>1, <2>2
      <3> QED BY <1>1, <1>3, <2>2, <3>1
    <2>3. CASE t # heap[n]
      <3>1. index'[t] = index[t] /\ index[t] # n /\ index[t] # a
        BY <1>4, <2>1, <2>3
      <3>2. index[t] \in 1..(n - 1)
        BY <1>1, <2>1, <3>1
      <3>3. heap'[index[t]] = heap[index[t]]
        BY <1>3, <3>1, <3>2
      <3> QED BY <1>3, <2>1, <3>1, <3>2, <3>3
    <2> QED BY <2>2, <2>3
  <1> QED BY <1>3, <1>4, <1>5, <1>6 DEF HeapMatchesMap

\* Appending a timer that is not in the heap adds it.
LEMMA InsertAdds ==
    ASSUME IndInv, NEW t \in Timer, t \notin inHeap, HeapInsert(t),
           inHeap' = inHeap \cup {t}
    PROVE  /\ heap' \in Seq(Timer) /\ index' \in [Timer -> Nat] /\ HeapMatchesMap'
           /\ pos' \in 1..Len(heap') /\ pos' \in Nat \ {0}
  <1> USE DEF IndInv
  <1> DEFINE n == Len(heap)
  <1>1. n \in Nat /\ heap \in Seq(Timer) /\ index \in [Timer -> Nat]
    BY DEF TypeOK
  <1>2. \A i \in 1..n : heap[i] \in inHeap /\ heap[i] \in Timer /\ index[heap[i]] = i
    BY DEF HeapMatchesMap, TypeOK
  <1>3. /\ heap' \in Seq(Timer) /\ Len(heap') = n + 1 /\ heap'[n + 1] = t
        /\ \A i \in 1..n : heap'[i] = heap[i]
    BY <1>1 DEF HeapInsert
  <1>4. /\ index' \in [Timer -> Nat] /\ index'[t] = n + 1
        /\ \A u \in Timer : u # t => index'[u] = index[u]
    BY <1>1 DEF HeapInsert
  <1>5. ASSUME NEW i \in 1..Len(heap') PROVE heap'[i] \in inHeap' /\ index'[heap'[i]] = i
    <2>1. CASE i = n + 1
      BY <1>3, <1>4, <2>1
    <2>2. CASE i \in 1..n
      <3>1. heap'[i] = heap[i] /\ heap[i] # t
        BY <1>2, <1>3, <2>2
      <3> QED BY <1>2, <1>4, <2>2, <3>1
    <2> QED BY <1>1, <1>3, <2>1, <2>2
  <1>6. ASSUME NEW u \in inHeap' PROVE index'[u] \in 1..Len(heap') /\ heap'[index'[u]] = u
    <2>1. CASE u = t
      BY <1>1, <1>3, <1>4, <2>1
    <2>2. CASE u # t
      <3>1. u \in Timer /\ index[u] \in 1..n /\ heap[index[u]] = u
        BY <1>6, <2>2 DEF HeapMatchesMap, TypeOK, inHeap
      <3> QED BY <1>1, <1>3, <1>4, <2>2, <3>1, SMTT(30)
    <2> QED BY <2>1, <2>2
  <1>7. pos' = n + 1
    BY DEF HeapInsert
  <1> QED BY <1>1, <1>3, <1>4, <1>5, <1>6, <1>7 DEF HeapMatchesMap

\* The empty queue.
LEMMA InitIndInv == Init => IndInv
  <1> SUFFICES ASSUME Init PROVE IndInv
    OBVIOUS
  <1>1. TypeOK
    <2>1. <<>> \in Seq(Timer)
      OBVIOUS
    <2>2. 0 \in 0..MaxTime
      BY TimerAssumption
    <2>3. moved \in BOOLEAN
      BY DEF Init
    <2> QED BY <2>1, <2>2, <2>3 DEF Init, TypeOK
  <1>2. Lives /\ HeapMatchesMap
    BY DEF Init, Lives, HeapMatchesMap, inHeap
  <1> QED BY <1>1, <1>2 DEF IndInv

\* Every step keeps the invariant.
LEMMA NextIndInv == IndInv /\ [Next]_vars => IndInv'
  <1> SUFFICES ASSUME IndInv, [Next]_vars PROVE IndInv'
    OBVIOUS
  <1> USE TimerAssumption DEF clock
  <1>0. /\ TypeOK /\ Lives /\ HeapMatchesMap
        /\ heap \in Seq(Timer) /\ Len(heap) \in Nat /\ index \in [Timer -> Nat]
    BY DEF IndInv, TypeOK
  <1>1. CASE SiftUp
    <2>1. pos \in 1..Len(heap) /\ pos \div 2 \in 1..Len(heap) /\ pos \div 2 \in Nat \ {0}
      BY <1>0, <1>1 DEF SiftUp, Lives
    <2>2. heap' \in Seq(Timer) /\ index' \in [Timer -> Nat] /\ HeapMatchesMap' /\ Len(heap') = Len(heap)
      BY <1>1, <2>1, SwapKeeps DEF SiftUp
    <2> QED BY <1>0, <1>1, <2>1, <2>2 DEF SiftUp, IndInv, TypeOK, Lives
  <1>2. CASE SiftDown
    <2>1. pos \in 1..Len(heap) /\ Target(pos) \in 1..Len(heap) /\ Target(pos) \in Nat \ {0}
      BY <1>0, <1>2 DEF SiftDown, Target, TypeOK
    <2>2. heap' \in Seq(Timer) /\ index' \in [Timer -> Nat] /\ HeapMatchesMap'
      BY <1>2, <2>1, SwapKeeps DEF SiftDown
    <2> QED BY <1>0, <1>2, <2>1, <2>2 DEF SiftDown, IndInv, TypeOK, Lives
  <1>3. CASE SiftUpEnds
    <2>1. inHeap' = inHeap
      BY <1>0, <1>3 DEF SiftUpEnds, inHeap
    <2> QED BY <1>0, <1>3, <2>1 DEF SiftUpEnds, IndInv, TypeOK, Lives, HeapMatchesMap
  <1>4. CASE SiftDownEnds
    <2>1. inHeap' = inHeap
      BY <1>0, <1>4 DEF SiftDownEnds, inHeap
    <2> QED BY <1>0, <1>4, <2>1 DEF SiftDownEnds, IndInv, TypeOK, Lives, HeapMatchesMap
  <1>5. CASE PopTimer
    <2>1. 1 \in 1..Len(heap) /\ heap[1] \in owned /\ heap[1] \in Timer
      BY <1>0, <1>5 DEF PopTimer, checkTimers, HeapMatchesMap, inHeap, TypeOK
    <2>2. inHeap' = inHeap \ {heap[1]}
      BY <1>0, <1>5 DEF PopTimer, inHeap
    <2>3. heap' \in Seq(Timer) /\ index' \in [Timer -> Nat] /\ HeapMatchesMap'
      BY <1>5, <2>1, <2>2, DropRemoves DEF PopTimer
    <2> QED BY <1>0, <1>5, <2>1, <2>3 DEF PopTimer, IndInv, TypeOK, Lives
  <1>6. CASE CallbackReturns
    <2>1. inHeap' = inHeap
      BY <1>6 DEF CallbackReturns, inHeap
    <2> QED BY <1>0, <1>6, <2>1 DEF CallbackReturns, IndInv, TypeOK, Lives, HeapMatchesMap
  <1>7. ASSUME NEW t \in Timer, AddTimer(t) PROVE IndInv'
    <2>1. t \notin inHeap /\ inHeap' = inHeap \cup {t}
      BY <1>0, <1>7 DEF AddTimer, HeapInsert, Lives, inHeap
    <2>2. /\ heap' \in Seq(Timer) /\ index' \in [Timer -> Nat] /\ HeapMatchesMap'
          /\ pos' \in 1..Len(heap') /\ pos' \in Nat \ {0}
      BY <1>7, <2>1, InsertAdds DEF AddTimer
    <2>3. phase' = "up"
      BY <1>7 DEF AddTimer, HeapInsert
    <2> QED BY <1>0, <1>7, <2>2, <2>3 DEF AddTimer, IndInv, TypeOK, Lives
  <1>8. ASSUME NEW t \in Timer, PopOneShot(t) PROVE IndInv'
    <2>1. inHeap' = inHeap
      BY <1>0, <1>8 DEF PopOneShot, inHeap
    <2> QED BY <1>0, <1>8, <2>1 DEF PopOneShot, IndInv, TypeOK, Lives, HeapMatchesMap
  <1>9. ASSUME NEW t \in Timer, PopRepeated(t) PROVE IndInv'
    <2>1. t \notin inHeap /\ inHeap' = inHeap \cup {t}
      BY <1>0, <1>9 DEF PopRepeated, HeapInsert, Lives, inHeap
    <2>2. /\ heap' \in Seq(Timer) /\ index' \in [Timer -> Nat] /\ HeapMatchesMap'
          /\ pos' \in 1..Len(heap') /\ pos' \in Nat \ {0}
      BY <1>9, <2>1, InsertAdds DEF PopRepeated
    <2>3. phase' = "up" /\ deadline' \in [Timer -> Nat]
      BY <1>0, <1>9 DEF PopRepeated, HeapInsert, TypeOK
    <2> QED BY <1>0, <1>9, <2>2, <2>3 DEF PopRepeated, IndInv, TypeOK, Lives
  <1>10. ASSUME NEW t \in Timer, CancelTimer(t) PROVE IndInv'
    <2>1. index[t] \in 1..Len(heap) /\ heap[index[t]] = t
      BY <1>0, <1>10 DEF CancelTimer, HeapMatchesMap, inHeap
    <2>2. inHeap' = inHeap \ {heap[index[t]]}
      BY <1>0, <1>10, <2>1 DEF CancelTimer, HeapDelete, inHeap, Lives
    <2>3. heap' \in Seq(Timer) /\ index' \in [Timer -> Nat] /\ HeapMatchesMap'
      BY <1>10, <2>1, <2>2, DropRemoves DEF CancelTimer, HeapDelete
    <2>4. phase' = "down" /\ pos' \in Nat \ {0}
      BY <1>0, <1>10, <2>1 DEF CancelTimer, HeapDelete
    <2>5. moved' \in BOOLEAN
      BY <1>10 DEF CancelTimer
    <2> QED BY <1>0, <1>10, <2>3, <2>4, <2>5 DEF CancelTimer, IndInv, TypeOK, Lives
  <1>11. ASSUME NEW t \in Timer, NEW d \in Delay, CreateTimer(t, d) PROVE IndInv'
    <2>1. inHeap' = inHeap
      BY <1>11 DEF CreateTimer, inHeap
    <2>2. deadline' \in [Timer -> Nat] /\ interval' \in [Repeated -> Nat]
      BY <1>0, <1>11 DEF CreateTimer, TypeOK
    <2> QED BY <1>0, <1>11, <2>1, <2>2 DEF CreateTimer, IndInv, TypeOK, Lives, HeapMatchesMap
  <1>12. CASE Tick
    <2>1. inHeap' = inHeap
      BY <1>12 DEF Tick, inHeap
    <2> QED BY <1>0, <1>12, <2>1 DEF Tick, IndInv, TypeOK, Lives, HeapMatchesMap
  <1>13. CASE UNCHANGED vars
    <2>1. inHeap' = inHeap
      BY <1>13 DEF vars, inHeap
    <2> QED BY <1>0, <1>13, <2>1 DEF vars, IndInv, TypeOK, Lives, HeapMatchesMap
  <1> QED
    BY <1>1, <1>2, <1>3, <1>4, <1>5, <1>6, <1>7, <1>8, <1>9, <1>10, <1>11, <1>12, <1>13
    DEF Next, LoopThread

\* Heap, map and the stages of every timer's life agree at all times.
THEOREM Invariance == Spec => []IndInv
  BY InitIndInv, NextIndInv, PTL DEF Spec

\* Type correctness.
THEOREM TypeCorrect == Spec => []TypeOK
  BY Invariance, PTL DEF IndInv

\* Heap, map and index fields agree at every step, also inside heapUp and
\* heapDown.
THEOREM HeapCorrect == Spec => []HeapMatchesMap
  BY Invariance, PTL DEF IndInv

\* A callback starts only for a timer the map still owns, or owned until now.
THEOREM NoLateFire == Spec => NoFireAfterEnd
  <1>1. IndInv /\ [Next]_vars => [\A t \in over : t \in running' => t \in running]_vars
    <2> SUFFICES ASSUME IndInv, Next, NEW t \in over, t \in running' PROVE t \in running
      OBVIOUS
    <2>1. t \notin owned /\ t \notin due
      BY DEF IndInv, Lives
    <2>2. CASE SiftUpEnds
      BY <2>1, <2>2 DEF SiftUpEnds
    <2>3. ASSUME NEW u \in Timer, PopOneShot(u) PROVE t \in running
      BY <2>1, <2>3 DEF PopOneShot
    <2>4. CASE CallbackReturns
      BY <2>4 DEF CallbackReturns
    <2> QED
      BY <2>2, <2>3, <2>4 DEF Next, LoopThread, SiftUp, SiftDown, SiftDownEnds, PopTimer, AddTimer,
         PopRepeated, CancelTimer, CreateTimer, Tick, clock
  <1> QED BY <1>1, Invariance, PTL DEF Spec, NoFireAfterEnd

-----------------------------------------------------------------------------
(* The order of the heap *)

\* No child is due before its parent.
Ordered(n, d) == \A i \in 2..n : d[i \div 2] <= d[i]

\* Only p may be due before its parent, and not before its children's.
UpOrdered(n, d, p) ==
    \A i \in 2..n :
        /\ i # p => d[i \div 2] <= d[i]
        /\ i \div 2 = p /\ p > 1 => d[p \div 2] <= d[i]

\* Only the children of p may be due before it, and not before its parent.
DownOrdered(n, d, p) ==
    \A i \in 2..n :
        /\ i \div 2 # p => d[i \div 2] <= d[i]
        /\ i \div 2 = p /\ p > 1 => d[p \div 2] <= d[i]

Dues == [i \in 1..Len(heap) |-> deadline[heap[i]]]

Order ==
    ~moved =>
        /\ phase \in {"idle", "popped"} => Ordered(Len(heap), Dues)
        /\ phase = "up" => UpOrdered(Len(heap), Dues, pos)
        /\ phase = "down" => DownOrdered(Len(heap), Dues, pos)

\* Parents come before their children, of which there are two.
LEMMA Parents ==
    ASSUME NEW i \in Nat, i >= 2
    PROVE  /\ i \div 2 \in 1..i - 1
           /\ \A p \in Nat : i \div 2 = p <=> i = 2 * p \/ i = 2 * p + 1
  OBVIOUS

\* heapUp exchanges an entry with its parent.
LEMMA UpKeepsOrder ==
    ASSUME NEW n \in Nat, NEW d \in [1..n -> Nat], NEW e \in [1..n -> Nat],
           NEW p \in 2..n, UpOrdered(n, d, p), d[p] < d[p \div 2],
           e[p] = d[p \div 2], e[p \div 2] = d[p],
           \A i \in 1..n : i # p /\ i # p \div 2 => e[i] = d[i]
    PROVE  UpOrdered(n, e, p \div 2)
  <1> DEFINE r == p \div 2
  <1>1. r \in 1..p - 1 /\ r \in 1..n
    BY Parents
  <1>2. SUFFICES ASSUME NEW i \in 2..n
                 PROVE  /\ i # r => e[i \div 2] <= e[i]
                        /\ i \div 2 = r /\ r > 1 => e[r \div 2] <= e[i]
    BY DEF UpOrdered
  <1> DEFINE h == i \div 2
  <1>3. h \in 1..i - 1 /\ h \in 1..n
    BY Parents
  <1>4. i # p => d[h] <= d[i]
    BY DEF UpOrdered
  <1>5. h = p => d[r] <= d[i]
    BY DEF UpOrdered
  <1>6. r > 1 => r \div 2 \in 1..r - 1 /\ d[r \div 2] <= d[r]
    <2> SUFFICES ASSUME r > 1 PROVE r \div 2 \in 1..r - 1 /\ d[r \div 2] <= d[r]
      OBVIOUS
    <2>1. r \in 2..n /\ r # p /\ r \in Nat /\ r >= 2
      BY <1>1
    <2>2. r \div 2 \in 1..r - 1
      BY <2>1, Parents
    <2> HIDE DEF r
    <2>3. d[r \div 2] <= d[r]
      BY <2>1 DEF UpOrdered
    <2> QED BY <2>2, <2>3
  <1>7. \A j \in 1..n : d[j] \in Nat /\ e[j] \in Nat
    OBVIOUS
  <1>8. /\ e[p] = d[r] /\ e[r] = d[p] /\ d[p] < d[r]
        /\ \A j \in 1..n : j # p /\ j # r => e[j] = d[j]
    OBVIOUS
  <1>9. i = p => h = r
    OBVIOUS
  <1> HIDE DEF r, h
  <1>10. i # r => e[h] <= e[i]
    <2>1. CASE i = p
      BY <1>1, <1>7, <1>8, <1>9, <2>1
    <2>2. CASE i # p /\ h = p
      BY <1>1, <1>3, <1>5, <1>7, <1>8, <2>2
    <2>3. CASE i # p /\ h = r
      BY <1>1, <1>3, <1>4, <1>7, <1>8, <2>3
    <2>4. CASE i # p /\ h # p /\ h # r
      BY <1>1, <1>3, <1>4, <1>7, <1>8, <2>4
    <2> QED BY <2>1, <2>2, <2>3, <2>4
  <1>11. h = r /\ r > 1 => e[r \div 2] <= e[i]
    <2> SUFFICES ASSUME h = r, r > 1 PROVE e[r \div 2] <= e[i]
      OBVIOUS
    <2> DEFINE g == r \div 2
    <2>1. g \in 1..r - 1 /\ d[g] <= d[r]
      BY <1>6
    <2> HIDE DEF g
    <2>2. e[g] = d[g] /\ d[g] \in Nat
      BY <1>1, <1>7, <1>8, <2>1
    <2>3. CASE i = p
      BY <1>1, <1>7, <1>8, <2>1, <2>2, <2>3 DEF g
    <2>4. CASE i # p
      <3>1. e[i] = d[i] /\ d[r] <= d[i]
        BY <1>3, <1>4, <1>8, <2>4
      <3>2. d[g] \in Nat /\ d[r] \in Nat /\ d[i] \in Nat
        BY <1>1, <1>7, <2>2
      <3>3. e[g] <= e[i]
        BY <2>1, <2>2, <3>1, <3>2
      <3> QED BY <3>3 DEF g
    <2> QED BY <2>3, <2>4
  <1> QED BY <1>10, <1>11 DEF h, r

\* heapDown exchanges an entry with the earlier one of its children.
LEMMA DownKeepsOrder ==
    ASSUME NEW n \in Nat, NEW d \in [1..n -> Nat], NEW e \in [1..n -> Nat],
           NEW p \in 1..n, NEW q \in 2..n, q \div 2 = p, DownOrdered(n, d, p), d[q] < d[p],
           \A i \in 2..n : i \div 2 = p => d[q] <= d[i],
           e[p] = d[q], e[q] = d[p],
           \A i \in 1..n : i # p /\ i # q => e[i] = d[i]
    PROVE  DownOrdered(n, e, q)
  <1>1. p \in 1..q - 1
    BY Parents
  <1>2. SUFFICES ASSUME NEW i \in 2..n
                 PROVE  /\ i \div 2 # q => e[i \div 2] <= e[i]
                        /\ i \div 2 = q => e[q \div 2] <= e[i]
    BY DEF DownOrdered
  <1> DEFINE h == i \div 2
  <1>3. h \in 1..i - 1 /\ h \in 1..n
    BY Parents
  <1>4. h # p => d[h] <= d[i]
    BY DEF DownOrdered
  <1>5. i = p => d[h] <= d[q]
    BY DEF DownOrdered
  <1>6. h = p => d[q] <= d[i]
    OBVIOUS
  <1>7. \A j \in 1..n : d[j] \in Nat /\ e[j] \in Nat
    OBVIOUS
  <1>8. i = q => h = p
    OBVIOUS
  <1> HIDE DEF h
  <1>9. h # q => e[h] <= e[i]
    <2>1. CASE h = p
      <3>1. CASE i = q
        BY <1>1, <1>7, <2>1, <3>1
      <3>2. CASE i # q
        BY <1>1, <1>3, <1>6, <1>7, <2>1, <3>2
      <3> QED BY <3>1, <3>2
    <2>2. CASE h # p /\ i = p
      BY <1>1, <1>3, <1>5, <1>7, <2>2
    <2>3. CASE h # p /\ i # p
      BY <1>1, <1>3, <1>4, <1>7, <1>8, <2>3
    <2> QED BY <2>1, <2>2, <2>3
  <1>10. h = q => e[p] <= e[i]
    <2> SUFFICES ASSUME h = q PROVE e[p] <= e[i]
      OBVIOUS
    <2>1. h # p /\ i # p /\ i # q
      BY <1>1, <1>3
    <2> QED BY <1>3, <1>4, <1>7, <2>1
  <1> QED BY <1>9, <1>10 DEF h

\* The timers in the heap are owned, so their deadlines are not set, except that of the
\* timer that is put back.
LEMMA DuesAre ==
    ASSUME IndInv
    PROVE  /\ Len(heap) \in Nat /\ Dues \in [1..Len(heap) -> Nat]
           /\ \A i \in 1..Len(heap) : heap[i] \in Timer /\ Dues[i] = deadline[heap[i]]
           /\ \A i \in 1..Len(heap) : heap[i] \in owned
           /\ phase \in {"down", "popped"} => \A i \in 1..Len(heap) : heap[i] \notin due
  <1>1. Len(heap) \in Nat /\ deadline \in [Timer -> Nat]
    BY DEF IndInv, TypeOK
  <1>2. \A i \in 1..Len(heap) : heap[i] \in Timer /\ heap[i] \in inHeap
    BY DEF IndInv, TypeOK, HeapMatchesMap
  <1> QED BY <1>1, <1>2 DEF Dues, inHeap

\* What a swap does to the deadlines.
LEMMA SwappedDues ==
    ASSUME IndInv, NEW a \in 1..Len(heap), NEW b \in 1..Len(heap), a # b, HeapSwap(a, b),
           UNCHANGED <<owned, phase, due, deadline>>
    PROVE  /\ Len(heap') = Len(heap) /\ Dues' \in [1..Len(heap) -> Nat]
           /\ Dues'[a] = Dues[b] /\ Dues'[b] = Dues[a]
           /\ \A i \in 1..Len(heap) : i # a /\ i # b => Dues'[i] = Dues[i]
  <1>1. heap \in Seq(Timer) /\ deadline \in [Timer -> Nat]
    BY DEF IndInv, TypeOK
  <1>2. /\ heap' \in Seq(Timer) /\ Len(heap') = Len(heap)
        /\ heap'[a] = heap[b] /\ heap'[b] = heap[a]
        /\ \A i \in 1..Len(heap) : i # a /\ i # b => heap'[i] = heap[i]
    BY <1>1, SMTT(30) DEF HeapSwap
  <1>3. \A i \in 1..Len(heap) : heap'[i] \in Timer
    BY <1>2
  <1> QED BY <1>1, <1>2, <1>3 DEF Dues

\* What a drop leaves of the deadlines.
LEMMA DroppedDues ==
    ASSUME IndInv, NEW a \in 1..Len(heap), SwapAndDrop(a), deadline' = deadline
    PROVE  /\ Len(heap') = Len(heap) - 1
           /\ \A i \in 1..Len(heap) - 1 :
                 Dues'[i] = IF i = a THEN Dues[Len(heap)] ELSE Dues[i]
  <1> DEFINE n == Len(heap)
  <1> DEFINE h == [heap EXCEPT ![a] = heap[n]]
  <1>1. n \in Nat /\ n > 0 /\ heap \in Seq(Timer)
    BY DEF IndInv, TypeOK
  <1>2. h \in Seq(Timer) /\ Len(h) = n /\ \A i \in 1..n : h[i] = IF i = a THEN heap[n] ELSE heap[i]
    BY <1>1
  <1>3. heap' = SubSeq(h, 1, n - 1)
    BY DEF SwapAndDrop
  <1> HIDE DEF h
  <1>4. /\ Len(heap') = n - 1
        /\ \A i \in 1..(n - 1) : heap'[i] = IF i = a THEN heap[n] ELSE heap[i]
    BY <1>1, <1>2, <1>3
  <1> QED BY <1>1, <1>4 DEF Dues

\* What an insertion does to the deadlines.
LEMMA InsertedDues ==
    ASSUME IndInv, NEW t \in Timer, HeapInsert(t),
           \A i \in 1..Len(heap) : deadline'[heap[i]] = deadline[heap[i]]
    PROVE  /\ Len(heap') = Len(heap) + 1 /\ pos' = Len(heap) + 1 /\ phase' = "up"
           /\ \A i \in 1..Len(heap) : Dues'[i] = Dues[i]
  <1>1. heap \in Seq(Timer)
    BY DEF IndInv, TypeOK
  <1>2. /\ Len(heap') = Len(heap) + 1 /\ \A i \in 1..Len(heap) : heap'[i] = heap[i]
        /\ pos' = Len(heap) + 1 /\ phase' = "up"
    BY <1>1 DEF HeapInsert
  <1> QED BY <1>1, <1>2 DEF Dues

\* Where the order was kept in the place of every entry, an entry at the end keeps all
\* the others in order.
LEMMA InsertKeepsOrder ==
    ASSUME NEW n \in Nat, NEW d, NEW e, Ordered(n, d), \A i \in 1..n : e[i] = d[i]
    PROVE  UpOrdered(n + 1, e, n + 1)
  <1> SUFFICES ASSUME NEW i \in 2..n + 1
               PROVE  /\ i # n + 1 => e[i \div 2] <= e[i]
                      /\ i \div 2 # n + 1
    BY DEF UpOrdered
  <1>1. i \div 2 \in 1..i - 1
    BY Parents
  <1>2. ASSUME i # n + 1 PROVE e[i \div 2] <= e[i]
    <2>1. i \in 2..n /\ i \div 2 \in 1..n
      BY <1>1, <1>2
    <2> QED BY <2>1 DEF Ordered
  <1> QED BY <1>1, <1>2

\* A drop leaves the order but for the place of the last entry.
LEMMA DropKeepsOrder ==
    ASSUME NEW n \in Nat, NEW a \in 1..n, a = 1 \/ a = n, NEW d, NEW e, Ordered(n, d),
           \A i \in 1..n - 1 : e[i] = IF i = a THEN d[n] ELSE d[i]
    PROVE  DownOrdered(n - 1, e, a)
  <1> SUFFICES ASSUME NEW i \in 2..n - 1
               PROVE  /\ i \div 2 # a => e[i \div 2] <= e[i]
                      /\ i \div 2 = a => ~(a > 1)
    BY DEF DownOrdered
  <1> DEFINE h == i \div 2
  <1>1. h \in 1..i - 1 /\ h \in 1..n - 1 /\ i # a
    BY Parents
  <1>2. d[h] <= d[i]
    BY DEF Ordered
  <1> HIDE DEF h
  <1>3. h # a => e[h] <= e[i]
    BY <1>1, <1>2
  <1>4. h = a => ~(a > 1)
    BY <1>1
  <1> QED BY <1>3, <1>4 DEF h

\* Every step keeps the order.
LEMMA NextOrder == IndInv /\ Order /\ [Next]_vars => Order'
  <1> SUFFICES ASSUME IndInv, Order, [Next]_vars, ~moved' PROVE Order'
    BY DEF Order
  <1> USE DEF clock
  <1>0. /\ Len(heap) \in Nat /\ Dues \in [1..Len(heap) -> Nat]
        /\ \A i \in 1..Len(heap) : heap[i] \in Timer /\ Dues[i] = deadline[heap[i]]
        /\ \A i \in 1..Len(heap) : heap[i] \in owned
        /\ phase \in {"down", "popped"} => \A i \in 1..Len(heap) : heap[i] \notin due
        /\ deadline \in [Timer -> Nat]
    BY DuesAre DEF IndInv, TypeOK
  <1>1. ~moved
    BY DEF Next, LoopThread, SiftUp, SiftUpEnds, SiftDown, SiftDownEnds, PopTimer, CallbackReturns,
           AddTimer, PopOneShot, PopRepeated, Tick, CancelTimer, CreateTimer, vars
  <1>2. /\ phase \in {"idle", "popped"} => Ordered(Len(heap), Dues)
        /\ phase = "up" => UpOrdered(Len(heap), Dues, pos) /\ pos \in 1..Len(heap)
        /\ phase = "down" => DownOrdered(Len(heap), Dues, pos) /\ pos \in Nat \ {0}
    BY <1>1 DEF Order, IndInv, Lives, TypeOK
  <1>3. CASE SiftUp
    <2>1. /\ phase = "up" /\ pos > 1 /\ Earlier(pos, pos \div 2)
          /\ HeapSwap(pos, pos \div 2) /\ pos' = pos \div 2
          /\ UNCHANGED <<owned, phase, due, deadline>>
      BY <1>3 DEF SiftUp
    <2>2. pos \in 2..Len(heap) /\ pos \div 2 \in 1..pos - 1 /\ pos \div 2 \in 1..Len(heap)
      BY <1>0, <1>2, <2>1, Parents
    <2>3. Dues[pos] < Dues[pos \div 2]
      BY <1>0, <2>1, <2>2 DEF Earlier
    <2>4. /\ Len(heap') = Len(heap) /\ Dues' \in [1..Len(heap) -> Nat]
          /\ Dues'[pos] = Dues[pos \div 2] /\ Dues'[pos \div 2] = Dues[pos]
          /\ \A i \in 1..Len(heap) : i # pos /\ i # pos \div 2 => Dues'[i] = Dues[i]
      BY <2>1, <2>2, SwappedDues
    <2>5. UpOrdered(Len(heap), Dues', pos \div 2)
      BY <1>0, <1>2, <2>1, <2>2, <2>3, <2>4, UpKeepsOrder
    <2> QED BY <2>1, <2>4, <2>5 DEF Order
  <1>4. CASE SiftUpEnds
    <2>1. /\ phase = "up" /\ ~(pos > 1 /\ Earlier(pos, pos \div 2)) /\ phase' = "idle"
          /\ UNCHANGED <<heap, deadline>>
      BY <1>4 DEF SiftUpEnds
    <2>2. Ordered(Len(heap), Dues)
      <3> SUFFICES ASSUME NEW i \in 2..Len(heap) PROVE Dues[i \div 2] <= Dues[i]
        BY DEF Ordered
      <3>1. CASE i # pos
        BY <1>2, <2>1, <3>1 DEF UpOrdered
      <3>2. CASE i = pos
        <4>1. i \div 2 \in 1..Len(heap) /\ ~Earlier(i, i \div 2)
          BY <1>0, <2>1, <3>2, Parents
        <4>2. ~(Dues[i] < Dues[i \div 2])
          BY <1>0, <4>1 DEF Earlier
        <4>3. Dues[i] \in Nat /\ Dues[i \div 2] \in Nat
          BY <1>0, <4>1
        <4> QED BY <4>2, <4>3
      <3> QED BY <3>1, <3>2
    <2>3. Dues' = Dues
      BY <2>1 DEF Dues
    <2> QED BY <2>1, <2>2, <2>3 DEF Order
  <1>5. CASE SiftDown
    <2> DEFINE q == Target(pos)
    <2>1. /\ phase = "down" /\ 2 * pos <= Len(heap) /\ q # pos
          /\ HeapSwap(pos, q) /\ pos' = q
          /\ UNCHANGED <<owned, phase, due, deadline>>
      BY <1>5 DEF SiftDown
    <2>2. pos \in 1..Len(heap) /\ pos \in Nat /\ 2 * pos \in 2..Len(heap)
      BY <1>0, <1>2, <2>1
    <2> DEFINE left == 2 * pos
    <2> DEFINE right == 2 * pos + 1
    <2>3. /\ left \in 1..Len(heap) /\ q \in {left, right} /\ q <= Len(heap)
          /\ Dues[q] < Dues[pos] /\ Dues[q] <= Dues[left]
          /\ right <= Len(heap) => Dues[q] <= Dues[right]
      <3>1. /\ Dues[left] \in Nat /\ Dues[pos] \in Nat
            /\ Earlier(left, pos) <=> Dues[left] < Dues[pos]
        BY <1>0, <2>2 DEF Earlier
      <3>2. right <= Len(heap) =>
              /\ Dues[right] \in Nat
              /\ Earlier(right, pos) <=> Dues[right] < Dues[pos]
              /\ Earlier(right, left) <=> Dues[right] < Dues[left]
        BY <1>0, <2>2 DEF Earlier
      <3>3. CASE Earlier(left, pos)
        <4>1. q = IF right <= Len(heap) /\ Earlier(right, left) THEN right ELSE left
          BY <2>1, <3>3 DEF Target
        <4> HIDE DEF q
        <4> QED BY <1>0, <2>2, <3>1, <3>2, <3>3, <4>1
      <3>4. CASE ~Earlier(left, pos)
        <4>1. q = IF right <= Len(heap) /\ Earlier(right, pos) THEN right ELSE pos
          BY <2>1, <3>4 DEF Target
        <4> HIDE DEF q
        <4> QED BY <1>0, <2>1, <2>2, <3>1, <3>2, <3>4, <4>1
      <3> QED BY <3>3, <3>4
    <2> HIDE DEF q
    <2>4. q \in 2..Len(heap) /\ q \div 2 = pos /\ q \in 1..Len(heap)
      BY <2>2, <2>3, Parents
    <2>5. \A i \in 2..Len(heap) : i \div 2 = pos => Dues[q] <= Dues[i]
      <3> SUFFICES ASSUME NEW i \in 2..Len(heap), i \div 2 = pos PROVE Dues[q] <= Dues[i]
        OBVIOUS
      <3>1. i = left \/ i = right
        BY <2>2, Parents
      <3> QED BY <2>3, <3>1
    <2>6. /\ Len(heap') = Len(heap) /\ Dues' \in [1..Len(heap) -> Nat]
          /\ Dues'[pos] = Dues[q] /\ Dues'[q] = Dues[pos]
          /\ \A i \in 1..Len(heap) : i # pos /\ i # q => Dues'[i] = Dues[i]
      BY <2>1, <2>2, <2>4, SwappedDues
    <2>7. DownOrdered(Len(heap), Dues', q)
      <3> DEFINE d == Dues
      <3> DEFINE e == Dues'
      <3> DEFINE n == Len(heap)
      <3>1. /\ n \in Nat /\ d \in [1..n -> Nat] /\ e \in [1..n -> Nat] /\ DownOrdered(n, d, pos)
            /\ pos \in 1..n /\ q \in 2..n /\ q \div 2 = pos /\ d[q] < d[pos]
            /\ \A i \in 2..n : i \div 2 = pos => d[q] <= d[i]
            /\ e[pos] = d[q] /\ e[q] = d[pos]
            /\ \A i \in 1..n : i # pos /\ i # q => e[i] = d[i]
        BY <1>0, <1>2, <2>1, <2>2, <2>3, <2>4, <2>5, <2>6
      <3> HIDE DEF d, e, n
      <3>2. DownOrdered(n, e, q)
        BY <3>1, DownKeepsOrder, ZenonT(60)
      <3> QED BY <3>2 DEF n, e
    <2> QED BY <2>1, <2>6, <2>7 DEF Order
  <1>6. CASE SiftDownEnds
    <2>1. /\ phase = "down" /\ (2 * pos > Len(heap) \/ Target(pos) = pos)
          /\ phase' \in {"idle", "popped"} /\ UNCHANGED <<heap, deadline>>
      BY <1>6 DEF SiftDownEnds
    <2>2. Ordered(Len(heap), Dues)
      <3> SUFFICES ASSUME NEW i \in 2..Len(heap) PROVE Dues[i \div 2] <= Dues[i]
        BY DEF Ordered
      <3>1. CASE i \div 2 # pos
        BY <1>2, <2>1, <3>1 DEF DownOrdered
      <3>2. CASE i \div 2 = pos
        <4>0. pos \in Nat \ {0} /\ i \in Nat /\ i >= 2
          BY <1>0, <1>2, <2>1
        <4>1. pos \in Nat \ {0} /\ (i = 2 * pos \/ i = 2 * pos + 1)
          BY <3>2, <4>0, Parents
        <4>2. Target(pos) = pos /\ 2 * pos <= Len(heap) /\ pos \in 1..Len(heap)
          BY <1>0, <2>1, <4>1
        <4>3. ~Earlier(2 * pos, pos)
          BY <4>1, <4>2 DEF Target
        <4>4. 2 * pos + 1 <= Len(heap) => ~Earlier(2 * pos + 1, pos)
          BY <4>1, <4>2, <4>3 DEF Target
        <4>5. ~Earlier(i, pos)
          BY <4>1, <4>3, <4>4
        <4>6. ~(Dues[i] < Dues[pos]) /\ Dues[i] \in Nat /\ Dues[pos] \in Nat
          BY <1>0, <4>2, <4>5 DEF Earlier
        <4> QED BY <3>2, <4>6
      <3> QED BY <3>1, <3>2
    <2>3. Dues' = Dues
      BY <2>1 DEF Dues
    <2> QED BY <2>1, <2>2, <2>3 DEF Order
  <1>7. CASE PopTimer
    <2>1. /\ phase = "idle" /\ heap # <<>> /\ SwapAndDrop(1) /\ deadline' = deadline
          /\ phase' = "down" /\ pos' = 1
      BY <1>7 DEF PopTimer, checkTimers
    <2>2. 1 \in 1..Len(heap)
      BY <2>1 DEF IndInv, TypeOK
    <2>3. /\ Len(heap') = Len(heap) - 1
          /\ \A i \in 1..Len(heap) - 1 :
                Dues'[i] = IF i = 1 THEN Dues[Len(heap)] ELSE Dues[i]
      BY <2>1, <2>2, DroppedDues
    <2>4. DownOrdered(Len(heap) - 1, Dues', 1)
      BY <1>0, <1>2, <2>1, <2>2, <2>3, DropKeepsOrder
    <2> QED BY <2>1, <2>3, <2>4 DEF Order
  <1>8. ASSUME NEW t \in Timer, AddTimer(t) PROVE Order'
    <2>1. phase = "idle" /\ HeapInsert(t) /\ deadline' = deadline
      BY <1>8 DEF AddTimer
    <2>2. /\ Len(heap') = Len(heap) + 1 /\ pos' = Len(heap) + 1 /\ phase' = "up"
          /\ \A i \in 1..Len(heap) : Dues'[i] = Dues[i]
      BY <2>1, InsertedDues
    <2>3. UpOrdered(Len(heap) + 1, Dues', Len(heap) + 1)
      BY <1>0, <1>2, <2>1, <2>2, InsertKeepsOrder
    <2> QED BY <2>2, <2>3 DEF Order
  <1>9. ASSUME NEW t \in Timer, PopRepeated(t) PROVE Order'
    <2>1. phase = "popped" /\ due = {t} /\ HeapInsert(t)
          /\ deadline' = [deadline EXCEPT ![t] = now + interval[t]]
      BY <1>9 DEF PopRepeated
    <2>2. \A i \in 1..Len(heap) : deadline'[heap[i]] = deadline[heap[i]]
      BY <1>0, <2>1
    <2>3. /\ Len(heap') = Len(heap) + 1 /\ pos' = Len(heap) + 1 /\ phase' = "up"
          /\ \A i \in 1..Len(heap) : Dues'[i] = Dues[i]
      BY <2>1, <2>2, InsertedDues
    <2>4. UpOrdered(Len(heap) + 1, Dues', Len(heap) + 1)
      BY <1>0, <1>2, <2>1, <2>3, InsertKeepsOrder
    <2> QED BY <2>3, <2>4 DEF Order
  <1>10. ASSUME NEW t \in Timer, CancelTimer(t) PROVE Order'
    <2> DEFINE a == index[t]
    <2>1. /\ phase = "idle" /\ t \in owned /\ SwapAndDrop(a) /\ phase' = "down" /\ pos' = a
          /\ moved' = (moved \/ a < Len(heap)) /\ deadline' = deadline
      BY <1>10 DEF CancelTimer, HeapDelete
    <2>2. a \in 1..Len(heap)
      BY <2>1 DEF IndInv, HeapMatchesMap, inHeap
    <2> HIDE DEF a
    <2>3. a = Len(heap)
      <3>1. ~(a < Len(heap))
        BY <2>1, Zenon
      <3> QED BY <1>0, <2>2, <3>1
    <2>4. /\ Len(heap') = Len(heap) - 1
          /\ \A i \in 1..Len(heap) - 1 :
                Dues'[i] = IF i = a THEN Dues[Len(heap)] ELSE Dues[i]
      BY <2>1, <2>2, DroppedDues
    <2>5. DownOrdered(Len(heap) - 1, Dues', a)
      BY <1>0, <1>2, <2>1, <2>2, <2>3, <2>4, DropKeepsOrder
    <2> QED BY <2>1, <2>4, <2>5 DEF Order
  <1>11. ASSUME NEW t \in Timer, NEW d \in Delay, CreateTimer(t, d) PROVE Order'
    <2>1. /\ t \notin owned /\ deadline' = [deadline EXCEPT ![t] = now + d]
          /\ UNCHANGED <<heap, phase, pos>>
      BY <1>11 DEF CreateTimer
    <2>2. Dues' = Dues
      BY <1>0, <2>1 DEF Dues
    <2> QED BY <1>2, <2>1, <2>2 DEF Order
  <1>12. CASE CallbackReturns \/ Tick \/ UNCHANGED vars
    <2>1. UNCHANGED <<heap, deadline, phase, pos>>
      BY <1>12 DEF CallbackReturns, Tick, vars
    <2>2. Dues' = Dues
      BY <2>1 DEF Dues
    <2> QED BY <1>2, <2>1, <2>2 DEF Order
  <1>13. ASSUME NEW t \in Timer, PopOneShot(t) PROVE Order'
    <2>1. UNCHANGED <<heap, deadline>> /\ phase = "popped" /\ phase' = "idle"
      BY <1>13 DEF PopOneShot
    <2>2. Dues' = Dues
      BY <2>1 DEF Dues
    <2> QED BY <1>2, <2>1, <2>2 DEF Order
  <1> QED
    BY <1>3, <1>4, <1>5, <1>6, <1>7, <1>8, <1>9, <1>10, <1>11, <1>12, <1>13 DEF Next, LoopThread

\* Parents are due no later than their children after every operation of the queue,
\* until cancelTimer has moved an entry: heapUp and heapDown put right what an insertion
\* and popTimer leave.
THEOREM ParentsAreFirst == Spec => []HeapOrdered
  <1>1. Init => Order
    BY DEF Init, Order, Ordered
  <1>2. IndInv /\ Order => HeapOrdered
    <2> SUFFICES ASSUME IndInv, Order, phase = "idle", ~moved, NEW i \in 2..Len(heap)
                 PROVE  deadline[heap[i \div 2]] <= deadline[heap[i]]
      BY DEF HeapOrdered
    <2>1. i \div 2 \in 1..Len(heap)
      BY DuesAre, Parents
    <2>2. Dues[i \div 2] <= Dues[i]
      BY DEF Order, Ordered
    <2> QED BY <2>1, <2>2, DuesAre
  <1>3. Spec => [](IndInv /\ Order)
    <2>1. (IndInv /\ Order) /\ [Next]_vars => (IndInv /\ Order)'
      BY NextIndInv, NextOrder
    <2>2. Init => IndInv /\ Order
      BY <1>1, InitIndInv
    <2> QED BY <2>1, <2>2, PTL DEF Spec
  <1> QED BY <1>2, <1>3, PTL
=============================================================================
