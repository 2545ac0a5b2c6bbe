--------------------------- MODULE EventLoopProofs ---------------------------
(***************************************************************************)
(* EventLoop's safety properties, for any tasks, timers and poll sizes:    *)
(* IndInv is inductive and implies them, and every step of the loop is a   *)
(* step of FunctorQueue or leaves it alone.                                *)
(***************************************************************************)
EXTENDS EventLoop, TLAPS

(***************************************************************************)
(* Sequences                                                               *)
(***************************************************************************)

\* Executing the head of the batch moves it from one history to the other.
LEMMA MoveHead ==
    ASSUME NEW a \in Seq(Functor), NEW b \in Seq(Functor), NEW c \in Seq(Functor), b # <<>>
    PROVE  /\ Append(a, Head(b)) \o Tail(b) \o c = a \o b \o c
           /\ Tail(b) \o c = Tail(b \o c)
           /\ Head(b) = Head(b \o c)
           /\ b \o c # <<>>
           /\ Len(Append(a, Head(b))) + Len(Tail(b)) = Len(a) + Len(b)
  BY SMTT(30)

\* Queueing a functor extends the end of the line.
LEMMA AppendLast ==
    ASSUME NEW a \in Seq(Functor), NEW b \in Seq(Functor), NEW c \in Seq(Functor), NEW x \in Functor
    PROVE  /\ a \o b \o Append(c, x) = Append(a \o b \o c, x)
           /\ b \o Append(c, x) = Append(b \o c, x)
  OBVIOUS

\* The swap moves the whole vector to the empty batch.
LEMMA SwapConcat ==
    ASSUME NEW a \in Seq(Functor), NEW c \in Seq(Functor)
    PROVE  /\ a \o <<>> \o c = a \o c \o <<>>
           /\ <<>> \o c = c
           /\ c \o <<>> = c
           /\ Len(a \o <<>> \o c) = Len(a) + Len(c)
  OBVIOUS

\* Length and entries of a concatenation, as the marks and the order of calls
\* are stated with them.
LEMMA ConcatFacts ==
    ASSUME NEW a \in Seq(Functor), NEW b \in Seq(Functor), NEW c \in Seq(Functor)
    PROVE  /\ a \o b \o c \in Seq(Functor)
           /\ Len(a \o b \o c) = Len(a) + Len(b) + Len(c)
           /\ \A i \in 1..Len(a) : (a \o b \o c)[i] = a[i]
           /\ b # <<>> => (a \o b \o c)[Len(a) + 1] = Head(b)
  OBVIOUS

(***************************************************************************)
(* The inductive invariant                                                 *)
(***************************************************************************)

\* The functors of addTimer() and cancelTimer() are never mistaken for one
\* another or for a task.
LEMMA FunctorFacts ==
    /\ \A t \in Timer : <<"add", t>> \in Functor /\ <<"cancel", t>> \in Functor
    /\ \A k \in Task : <<"task", k>> \in Functor
    /\ \A t \in Timer : <<"cancel", t>> \in CancelFunctor /\ <<"cancel", t>> \notin AddFunctor
    /\ \A f \in AddFunctor : f[2] \in Timer /\ f = <<"add", f[2]>>
  BY DEF Functor, AddFunctor, CancelFunctor

\* A new loop has nothing queued.
LEMMA InitIndInv == Init => IndInv
  <1> SUFFICES ASSUME Init PROVE IndInv
    OBVIOUS
  <1> USE DEF Init
  <1>1. TypeOK
    <2>1. <<>> \in Seq(Functor) /\ {} \in SUBSET Timer /\ {} \in SUBSET Functor
      OBVIOUS
    <2>2. 0 \in 0..MaxActive /\ 0 \in Nat
      BY MaxActiveAssumption
    <2>3. stage \in Stage /\ step \in Step /\ inCallback \in BOOLEAN /\ quit \in BOOLEAN
      BY DEF Stage, Step
    <2> QED BY <2>1, <2>2, <2>3 DEF TypeOK
  <1>2. Shape /\ StopDrains /\ DestructorDrains
    BY DEF Shape, StopDrains, DestructorDrains
  <1>3. ExactlyOnceInOrder
    BY DEF ExactlyOnceInOrder
  <1>4. Marks /\ CallOrder /\ CancelIsFinal
    BY DEF Marks, CallOrder, CancelIsFinal, SeqToSet
  <1> QED BY <1>1, <1>2, <1>3, <1>4 DEF IndInv

\* queueInLoop(), whatever is queued.
LEMMA QueueInLoopStep ==
    ASSUME IndInv, NEW f \in Functor, QueueInLoop(f),
           \A t \in Timer : f = <<"cancel", t>> => <<"add", t>> \in Submitted
    PROVE  IndInv'
  <1> USE DEF IndInv, QueueInLoop, ctrl, hist
  <1>1. /\ Len(queued') = Len(queued) + 1
        /\ \A i \in 1..Len(queued) : queued'[i] = queued[i]
        /\ queued'[Len(queued) + 1] = f
    BY DEF TypeOK
  <1>2. TypeOK'
    BY DEF TypeOK
  <1>3. Shape'
    BY DEF Shape
  <1>4. ExactlyOnceInOrder'
    <2>1. ran \o batch \o Append(functors, f) = Append(ran \o batch \o functors, f)
      BY AppendLast DEF TypeOK
    <2> QED BY <2>1 DEF ExactlyOnceInOrder
  <1>5. Marks' /\ StopDrains' /\ DestructorDrains'
    BY <1>1 DEF Marks, StopDrains, DestructorDrains, TypeOK
  <1>6. CallOrder'
    <2>1. f \notin inlined /\ \A i \in 1..Len(queued) : queued[i] # f
      BY DEF Submitted, SeqToSet
    <2>2. Len(queued) \in Nat
      BY DEF TypeOK
    <2>3. \A i, j \in 1..Len(queued') : queued'[i] = queued'[j] => i = j
      BY <1>1, <2>1, <2>2 DEF CallOrder
    <2>4. \A i \in 1..Len(queued') : queued'[i] \notin inlined'
      BY <1>1, <2>1, <2>2 DEF CallOrder
    <2>5. ASSUME NEW t \in Timer, NEW j \in 1..Len(queued'), queued'[j] = <<"cancel", t>>
          PROVE  \/ <<"add", t>> \in inlined'
                 \/ \E i \in 1..(j - 1) : queued'[i] = <<"add", t>>
      <3>1. CASE j \in 1..Len(queued)
        <4>1. queued[j] = <<"cancel", t>>
          BY <1>1, <2>5, <3>1
        <4>2. \/ <<"add", t>> \in inlined
              \/ \E i \in 1..(j - 1) : queued[i] = <<"add", t>>
          BY <3>1, <4>1 DEF CallOrder
        <4>3. \A i \in 1..(j - 1) : queued'[i] = queued[i]
          BY <1>1, <2>2, <3>1
        <4> QED BY <4>2, <4>3
      <3>2. CASE j = Len(queued) + 1
        <4>1. <<"add", t>> \in Submitted
          BY <1>1, <2>5, <3>2
        <4> QED BY <1>1, <2>2, <3>2, <4>1 DEF Submitted, SeqToSet
      <3> QED BY <1>1, <2>2, <3>1, <3>2, SMTT(30)
    <2> QED BY <2>3, <2>4, <2>5 DEF CallOrder
  <1>7. CancelIsFinal'
    BY DEF CancelIsFinal, SeqToSet
  <1> QED BY <1>2, <1>3, <1>4, <1>5, <1>6, <1>7

\* runInLoop() on the loop thread.
LEMMA InlineStep ==
    ASSUME IndInv, NEW f \in Functor, f \notin Submitted, Effect(f),
           inlined' = inlined \cup {f},
           UNCHANGED <<ctrl, hist, functors, batch, queued, ran>>,
           \A t \in Timer : f = <<"cancel", t>> => <<"add", t>> \in Submitted
    PROVE  IndInv'
  <1> USE DEF IndInv, ctrl, hist
  <1>1. armed' \in SUBSET Timer
    BY FunctorFacts DEF Effect, TypeOK
  <1>2. TypeOK'
    BY <1>1 DEF TypeOK
  <1>3. Shape' /\ ExactlyOnceInOrder' /\ Marks' /\ StopDrains' /\ DestructorDrains'
    BY DEF Shape, ExactlyOnceInOrder, Marks, StopDrains, DestructorDrains
  <1>4. CallOrder'
    BY DEF CallOrder, Submitted, SeqToSet, TypeOK
  <1>5. CancelIsFinal'
    <2> SUFFICES ASSUME NEW t \in Timer, <<"cancel", t>> \in SeqToSet(ran)
                 PROVE  t \notin armed'
      BY DEF CancelIsFinal, SeqToSet
    <2>1. PICK j \in 1..Len(ran) : ran[j] = <<"cancel", t>>
      BY DEF SeqToSet
    <2>2. j \in 1..Len(queued) /\ queued[j] = <<"cancel", t>>
      BY <2>1, ConcatFacts DEF ExactlyOnceInOrder, TypeOK
    <2>3. <<"add", t>> \in Submitted
      <3>1. \/ <<"add", t>> \in inlined
            \/ \E i \in 1..(j - 1) : queued[i] = <<"add", t>>
        BY <2>2 DEF CallOrder
      <3>2. Len(queued) \in Nat
        BY DEF TypeOK
      <3> QED BY <2>2, <3>1, <3>2 DEF Submitted, SeqToSet
    <2>4. f \in AddFunctor => f[2] # t
      BY <2>3, FunctorFacts
    <2>5. t \notin armed
      BY DEF CancelIsFinal
    <2> QED BY <2>4, <2>5 DEF Effect
  <1> QED BY <1>2, <1>3, <1>4, <1>5

\* runInLoop(), on either kind of thread, keeps the invariant.
LEMMA RunInLoopStep ==
    ASSUME IndInv, NEW f \in Functor, RunInLoop(f),
           \A t \in Timer : f = <<"cancel", t>> => <<"add", t>> \in Submitted
    PROVE  IndInv'
  BY QueueInLoopStep, InlineStep DEF RunInLoop

\* Executing the next functor of the batch.
LEMMA RunFunctorStep ==
    ASSUME IndInv, RunFunctor
    PROVE  IndInv'
  <1> USE DEF IndInv, RunFunctor, hist
  <1> DEFINE f == Head(batch)
  <1>1. f \in Functor /\ ran' \in Seq(Functor) /\ batch' \in Seq(Functor)
    BY DEF TypeOK
  <1>2. armed' \in SUBSET Timer
    BY <1>1, FunctorFacts DEF Effect, TypeOK
  <1>3. TypeOK'
    BY <1>1, <1>2 DEF TypeOK
  <1>4. Shape'
    BY DEF Shape
  <1>5. ExactlyOnceInOrder' /\ Len(ran') + Len(batch') = Len(ran) + Len(batch)
    <2>1. /\ Append(ran, Head(batch)) \o Tail(batch) \o functors = ran \o batch \o functors
          /\ Len(Append(ran, Head(batch))) + Len(Tail(batch)) = Len(ran) + Len(batch)
      BY MoveHead, SMTT(30) DEF TypeOK
    <2> QED BY <2>1 DEF ExactlyOnceInOrder
  <1>6. Marks' /\ StopDrains' /\ DestructorDrains'
    BY <1>5 DEF Marks, StopDrains, DestructorDrains, TypeOK, Shape
  <1>7. CallOrder'
    BY DEF CallOrder
  <1>8. CancelIsFinal'
    <2> SUFFICES ASSUME NEW t \in Timer, <<"cancel", t>> \in SeqToSet(ran')
                 PROVE  t \notin armed'
      BY DEF CancelIsFinal
    <2> DEFINE k == Len(ran) + 1
    <2>1. k \in 1..Len(queued) /\ queued[k] = f
      BY ConcatFacts DEF ExactlyOnceInOrder, TypeOK
    <2>2. CASE f = <<"cancel", t>>
      BY <2>2, FunctorFacts DEF Effect
    <2>3. CASE f # <<"cancel", t>>
      <3>1. PICK j \in 1..Len(ran) : ran[j] = <<"cancel", t>>
        BY <2>3 DEF SeqToSet, TypeOK
      <3>2. j \in 1..Len(queued) /\ queued[j] = <<"cancel", t>> /\ j < k
        BY <3>1, ConcatFacts DEF ExactlyOnceInOrder, TypeOK
      <3>3. \/ <<"add", t>> \in inlined
            \/ \E i \in 1..(j - 1) : queued[i] = <<"add", t>>
        BY <3>2 DEF CallOrder
      <3>4. f # <<"add", t>>
        <4>1. Len(queued) \in Nat
          BY DEF TypeOK
        <4>2. queued[k] \notin inlined
          BY <2>1 DEF CallOrder
        <4>3. ASSUME NEW i \in 1..(j - 1), queued[i] = <<"add", t>>, f = <<"add", t>>
              PROVE  FALSE
          <5>1. i \in 1..Len(queued) /\ i < k
            BY <2>1, <3>2, <4>1
          <5>2. queued[i] = queued[k]
            BY <2>1, <4>3
          <5>3. i = k
            BY <2>1, <5>1, <5>2 DEF CallOrder
          <5> QED BY <4>1, <5>1, <5>3, <2>1
        <4> QED BY <2>1, <3>3, <4>2, <4>3
      <3>5. f \in AddFunctor => f[2] # t
        BY <3>4, FunctorFacts
      <3>6. t \notin armed
        BY <3>1 DEF CancelIsFinal, SeqToSet
      <3> QED BY <3>5, <3>6 DEF Effect
    <2> QED BY <2>2, <2>3
  <1> QED BY <1>3, <1>4, <1>5, <1>6, <1>7, <1>8

\* Steps that leave functors, batch and their histories alone.
LEMMA ControlStep ==
    ASSUME IndInv,
           \/ Stop \/ StartAborts \/ StartAsserts \/ Start \/ CheckQuit \/ Poll \/ HandleEvent
           \/ ReturnFromCallback \/ FinishFunctors \/ FinishTimers \/ Destroy
           \/ \E t \in Timer : FireTimer(t)
    PROVE  IndInv'
  <1> DEFINE Types == /\ stage' \in Stage /\ step' \in Step
                      /\ inCallback' \in BOOLEAN /\ active' \in 0..MaxActive /\ quit' \in BOOLEAN
                      /\ stopMark' \in Nat /\ dtorMark' \in Nat
             Rest  == Types /\ Shape' /\ Marks' /\ StopDrains' /\ DestructorDrains'
  <1>1. UNCHANGED <<functors, batch, queued, ran, inlined>> /\ armed' \subseteq armed
    BY DEF Stop, StartAborts, StartAsserts, Start, CheckQuit, Poll, HandleEvent,
           ReturnFromCallback, FinishFunctors, FinishTimers, Destroy, FireTimer
  <1>2. /\ Len(<<>>) = 0 /\ Len(batch) \in Nat /\ Len(ran) \in Nat /\ Len(queued) \in Nat
        /\ stage \in Stage /\ step \in Step
        /\ inCallback \in BOOLEAN /\ active \in 0..MaxActive /\ quit \in BOOLEAN
        /\ stopMark \in Nat /\ dtorMark \in Nat
    BY DEF IndInv, TypeOK
  <1>3. Shape /\ Marks /\ StopDrains /\ DestructorDrains
    BY DEF IndInv
  <1> USE MaxActiveAssumption DEF hist, Stage, Step, Shape, Marks, StopDrains, DestructorDrains
  <1>4. ASSUME Stop PROVE Rest
    BY <1>1, <1>2, <1>3, <1>4 DEF Stop
  <1>5. ASSUME StartAborts PROVE Rest
    BY <1>1, <1>2, <1>3, <1>5 DEF StartAborts
  <1>6. ASSUME StartAsserts PROVE Rest
    BY <1>1, <1>2, <1>3, <1>6 DEF StartAsserts
  <1>7. ASSUME Start PROVE Rest
    BY <1>1, <1>2, <1>3, <1>7 DEF Start
  <1>8. ASSUME CheckQuit PROVE Rest
    BY <1>1, <1>2, <1>3, <1>8 DEF CheckQuit
  <1>9. ASSUME Poll PROVE Rest
    BY <1>1, <1>2, <1>3, <1>9 DEF Poll
  <1>10. ASSUME HandleEvent PROVE Rest
    BY <1>1, <1>2, <1>3, <1>10 DEF HandleEvent
  <1>11. ASSUME ReturnFromCallback PROVE Rest
    BY <1>1, <1>2, <1>3, <1>11 DEF ReturnFromCallback
  <1>12. ASSUME FinishFunctors PROVE Rest
    BY <1>1, <1>2, <1>3, <1>12 DEF FinishFunctors
  <1>13. ASSUME FinishTimers PROVE Rest
    BY <1>1, <1>2, <1>3, <1>13 DEF FinishTimers
  <1>14. ASSUME Destroy PROVE Rest
    BY <1>1, <1>2, <1>3, <1>14 DEF Destroy
  <1>15. ASSUME \E t \in Timer : FireTimer(t) PROVE Rest
    BY <1>1, <1>2, <1>3, <1>15 DEF FireTimer
  <1>16. Rest
    BY <1>4, <1>5, <1>6, <1>7, <1>8, <1>9, <1>10, <1>11,
       <1>12, <1>13, <1>14, <1>15
  <1>17. TypeOK'
    BY <1>1, <1>16 DEF IndInv, TypeOK
  <1>18. ExactlyOnceInOrder' /\ CallOrder' /\ CancelIsFinal'
    <2>1. ExactlyOnceInOrder'
      BY <1>1 DEF IndInv, ExactlyOnceInOrder
    <2>2. CallOrder'
      BY <1>1, Zenon DEF IndInv, CallOrder
    <2>3. CancelIsFinal'
      BY <1>1, Zenon DEF IndInv, CancelIsFinal, SeqToSet
    <2> QED BY <2>1, <2>2, <2>3
  <1> QED BY <1>16, <1>17, <1>18 DEF IndInv

\* The swap in runFunctors().
LEMMA SwapStep ==
    ASSUME IndInv, SwapFunctors
    PROVE  IndInv'
  <1> USE DEF IndInv, SwapFunctors, hist
  <1>1. batch = <<>>
    BY DEF Shape
  <1>2. TypeOK'
    BY DEF TypeOK, Step
  <1>3. Shape'
    BY DEF Shape
  <1>4. ExactlyOnceInOrder'
    BY <1>1, SwapConcat DEF TypeOK, ExactlyOnceInOrder
  <1>5. Len(queued) = Len(ran) + Len(batch')
    BY <1>1, SwapConcat DEF TypeOK, ExactlyOnceInOrder
  <1>6. Marks' /\ StopDrains' /\ DestructorDrains'
    BY <1>5 DEF Marks, StopDrains, DestructorDrains, TypeOK, Shape
  <1>7. CallOrder' /\ CancelIsFinal'
    BY DEF CallOrder, CancelIsFinal, SeqToSet
  <1> QED BY <1>2, <1>3, <1>4, <1>6, <1>7

\* Every step of the loop thread and of its callers preserves the invariant.
LEMMA NextIndInv == IndInv /\ [Next]_vars => IndInv'
  <1> SUFFICES ASSUME IndInv, [Next]_vars PROVE IndInv'
    OBVIOUS
  <1>1. ASSUME NEW k \in Task, RunInLoop(<<"task", k>>) PROVE IndInv'
    <2>1. \A t \in Timer : <<"task", k>> # <<"cancel", t>>
      OBVIOUS
    <2> QED BY <1>1, <2>1, RunInLoopStep, FunctorFacts
  <1>2. ASSUME NEW t \in Timer, AddTimer(t) PROVE IndInv'
    <2>1. \A u \in Timer : <<"add", t>> # <<"cancel", u>>
      OBVIOUS
    <2> QED BY <1>2, <2>1, RunInLoopStep, FunctorFacts DEF AddTimer
  <1>3. ASSUME NEW t \in Timer, CancelTimer(t) PROVE IndInv'
    <2>1. \A u \in Timer : <<"cancel", t>> = <<"cancel", u>> => <<"add", u>> \in Submitted
      BY <1>3 DEF CancelTimer
    <2> QED BY <1>3, <2>1, RunInLoopStep, FunctorFacts DEF CancelTimer
  <1>4. ASSUME UNCHANGED vars PROVE IndInv'
    <2> USE <1>4 DEF vars, IndInv
    <2>1. TypeOK' /\ Shape'
      BY DEF TypeOK, Shape
    <2>2. ExactlyOnceInOrder' /\ StopDrains' /\ DestructorDrains'
      BY DEF ExactlyOnceInOrder, StopDrains, DestructorDrains
    <2>3. Marks' /\ CallOrder' /\ CancelIsFinal'
      BY DEF Marks, CallOrder, CancelIsFinal, SeqToSet
    <2> QED BY <2>1, <2>2, <2>3
  <1> QED
    BY <1>1, <1>2, <1>3, <1>4, ControlStep, SwapStep, RunFunctorStep
    DEF Next, LoopThread, Callers

\* The inductive invariant holds of every loop, whoever calls it.
THEOREM Invariance == Spec => []IndInv
  BY InitIndInv, NextIndInv, PTL DEF Spec

\* Type correctness.
THEOREM TypeCorrect == Spec => []TypeOK
  BY Invariance, PTL DEF IndInv

\* Nothing given to queueInLoop is lost, repeated or reordered.
THEOREM QueueIntegrity == Spec => []ExactlyOnceInOrder
  BY Invariance, PTL DEF IndInv

\* start() returns only after the functors queued before stop() were executed.
THEOREM StopIsClean == Spec => []StopDrains
  BY Invariance, PTL DEF IndInv

\* The destructor executes everything queued before it.
THEOREM DestructorIsClean == Spec => []DestructorDrains
  BY Invariance, PTL DEF IndInv

\* A timer cancelled from another thread stays cancelled.
THEOREM CancelCorrect == Spec => []CancelIsFinal
  BY Invariance, PTL DEF IndInv

(***************************************************************************)
(* The loop implements FunctorQueue                                        *)
(***************************************************************************)

\* A call appends to the line, executing a functor takes the head of it, the
\* swap only moves the boundary between batch and vector, nothing else counts.
THEOREM Refinement == Spec => ImplementsQueue
  <1>1. Init => Queue!QInit
    BY DEF Init, Queue!QInit
  <1>2. ASSUME IndInv, Next PROVE [Queue!QNext]_(Queue!qvars)
    <2> USE DEF Queue!qvars, IndInv
    <2>1. ASSUME NEW f \in Functor, RunInLoop(f) PROVE [Queue!QNext]_(Queue!qvars)
      <3>1. CASE QueueInLoop(f)
        <4>1. batch' \o functors' = Append(batch \o functors, f) /\ ran' = ran
          BY <3>1, AppendLast DEF QueueInLoop, TypeOK
        <4> QED BY <4>1 DEF Queue!QNext, Queue!Submit
      <3> QED BY <2>1, <3>1 DEF RunInLoop
    <2>2. CASE RunFunctor
      <3>1. /\ batch \o functors # <<>>
            /\ ran' = Append(ran, Head(batch \o functors))
            /\ batch' \o functors' = Tail(batch \o functors)
        BY <2>2, MoveHead DEF RunFunctor, TypeOK
      <3> QED BY <3>1 DEF Queue!QNext, Queue!Execute
    <2>3. CASE SwapFunctors
      <3>1. batch' \o functors' = batch \o functors /\ ran' = ran
        <4>1. batch = <<>> /\ batch' = functors /\ functors' = <<>> /\ ran' = ran
          BY <2>3, <1>2 DEF SwapFunctors, Shape
        <4>2. functors \in Seq(Functor)
          BY <1>2 DEF TypeOK
        <4>3. <<>> \o functors = functors \o <<>>
          BY <4>2
        <4> QED BY <4>1, <4>3
      <3> QED BY <3>1
    <2>4. ASSUME \/ Stop \/ StartAborts \/ StartAsserts \/ Start \/ CheckQuit \/ Poll \/ HandleEvent
                 \/ ReturnFromCallback \/ FinishFunctors \/ FinishTimers \/ Destroy
                 \/ \E t \in Timer : FireTimer(t)
          PROVE  [Queue!QNext]_(Queue!qvars)
      BY <2>4 DEF Stop, StartAborts, StartAsserts, Start, CheckQuit, Poll, HandleEvent,
           ReturnFromCallback, FinishFunctors, FinishTimers, Destroy, FireTimer
    <2> QED
      BY <1>2, <2>1, <2>2, <2>3, <2>4, FunctorFacts
      DEF Next, LoopThread, Callers, AddTimer, CancelTimer
  <1>3. UNCHANGED vars => UNCHANGED Queue!qvars
    BY DEF vars, Queue!qvars
  <1> QED
    BY <1>1, <1>2, <1>3, Invariance, PTL DEF Spec, ImplementsQueue, Queue!QSpec
=============================================================================
