------------------------------ MODULE EventLoop ------------------------------
(***************************************************************************)
(* One saf::EventLoop (src/src/net/EventLoop.{h,cpp}): the loop thread in  *)
(* start() and in the destructor, and everybody else who calls stop(),     *)
(* queueInLoop(), runInLoop(), addTimer() and cancelTimer() meanwhile.     *)
(* The build is the default one (Debug, assertions on).                    *)
(*                                                                         *)
(* Each task and each timer names one call: a name is submitted once.      *)
(* Functors are task names, or what addTimer and cancelTimer submit.       *)
(***************************************************************************)
EXTENDS Integers, Sequences, FiniteSets

CONSTANTS Task,         \* functors given to queueInLoop / runInLoop
          Timer,        \* one-shot timers given to addTimer
          MaxActive     \* most descriptors one poll reports

ASSUME MaxActiveAssumption == MaxActive \in Nat

AddFunctor == {"add"} \X Timer
CancelFunctor == {"cancel"} \X Timer
Functor == ({"task"} \X Task) \cup AddFunctor \cup CancelFunctor

VARIABLES
    stage,      \* which function the loop thread is in, or between
    step,       \* where in that function
    inCallback, \* the loop thread executes an event, functor or timer callback
    active,     \* descriptors of this poll still to be handled (activeFds)
    quit,       \* _quit
    functors,   \* _functors, under _mutex
    batch,      \* the local vector of runFunctors()
    armed,      \* the timers in _timerQueue
    queued,     \* history: every functor that went through queueInLoop
    ran,        \* history: the ones executed out of a batch
    inlined,    \* history: the ones runInLoop executed on the spot
    stopMark,   \* history: Len(queued) when stop() last set _quit
    dtorMark    \* history: Len(queued) when the destructor was entered

ctrl == <<stage, step, inCallback, active, quit>>
hist == <<stopMark, dtorMark>>
vars == <<stage, step, inCallback, active, quit, functors, batch, armed,
          queued, ran, inlined, stopMark, dtorMark>>

Stage == {"new", "starting", "loop", "final", "stopped", "dtor", "destroyed", "aborted"}
Step == {"idle", "check", "poll", "swap", "run", "timers"}

\* _looping: between start()'s first lines and its last
looping == stage \in {"loop", "final"}

\* The object exists and its methods may be called.
alive == stage \notin {"destroyed", "aborted"}

SeqToSet(s) == {s[i] : i \in 1..Len(s)}
Submitted == SeqToSet(queued) \cup inlined

\* The loop thread executes code of its owner: a callback, or whatever the
\* owner does before start() and after it.
onLoopThread == inCallback \/ stage \in {"new", "stopped"}

\* The thread has no other loop: a second one is answered with LOG_FATAL, that is
\* abort(), before it has any state.
Init ==
    /\ stage = "new" /\ step = "idle"
    /\ inCallback = FALSE /\ active = 0 /\ quit = FALSE
    /\ functors = <<>> /\ batch = <<>> /\ armed = {}
    /\ queued = <<>> /\ ran = <<>> /\ inlined = {}
    /\ stopMark = 0 /\ dtorMark = 0

-----------------------------------------------------------------------------
(* Calls other threads, and callbacks, make *)

QueueInLoop(f) ==
    /\ alive /\ f \notin Submitted
    /\ functors' = Append(functors, f)
    /\ queued' = Append(queued, f)
    /\ UNCHANGED <<ctrl, hist, batch, armed, ran, inlined>>

\* What executing a functor does to the loop's own state.
Effect(f) ==
    armed' = CASE f \in AddFunctor -> armed \cup {f[2]}
               [] f \in CancelFunctor -> armed \ {f[2]}
               [] OTHER -> armed

\* runInLoop on the loop thread executes the functor at once, ahead of all
\* that is queued; on any other thread it is queueInLoop.
RunInLoop(f) ==
    \/ QueueInLoop(f)
    \/ /\ onLoopThread /\ f \notin Submitted
       /\ Effect(f)
       /\ inlined' = inlined \cup {f}
       /\ UNCHANGED <<ctrl, hist, functors, batch, queued, ran>>

AddTimer(t) == RunInLoop(<<"add", t>>)

\* The timer's number is known once addTimer has returned.
CancelTimer(t) ==
    /\ <<"add", t>> \in Submitted
    /\ RunInLoop(<<"cancel", t>>)

Stop ==
    /\ alive
    /\ quit' = TRUE
    /\ stopMark' = IF quit THEN stopMark ELSE Len(queued)
    /\ UNCHANGED <<stage, step, inCallback, active, functors, batch, armed,
                   queued, ran, inlined, dtorMark>>

-----------------------------------------------------------------------------
(* The loop thread *)

\* start(): assert(!_quit) refuses a loop that was stopped, before it ran or
\* because it ran once already.
StartAborts ==
    /\ stage \in {"new", "stopped"} /\ quit
    /\ stage' = "aborted"
    /\ UNCHANGED <<step, inCallback, active, quit, functors, batch, armed,
                   queued, ran, inlined, hist>>

StartAsserts ==
    /\ stage \in {"new", "stopped"} /\ ~quit
    /\ stage' = "starting"
    /\ UNCHANGED <<step, inCallback, active, quit, functors, batch, armed,
                   queued, ran, inlined, hist>>

\* _quit = false follows the assertion, and wipes out a stop() that came in
\* between.  The accesses race; a compiler that drops the store, which the
\* assertion makes redundant, keeps the stop.
Start ==
    /\ stage = "starting"
    /\ stage' = "loop" /\ step' = "check"
    /\ quit' \in {FALSE, quit}
    /\ UNCHANGED <<inCallback, active, functors, batch, armed,
                   queued, ran, inlined, hist>>

\* while (!_quit)
CheckQuitNoFinal ==
    /\ stage = "loop" /\ step = "check"
    /\ IF quit THEN stage' = "stopped" /\ step' = "idle"
               ELSE stage' = "loop" /\ step' = "poll"
    /\ UNCHANGED <<inCallback, active, quit, functors, batch, armed,
                   queued, ran, inlined, hist>>

CheckQuit ==
    /\ stage = "loop" /\ step = "check"
    /\ IF quit THEN stage' = "final" /\ step' = "swap"
               ELSE stage' = "loop" /\ step' = "poll"
    /\ UNCHANGED <<inCallback, active, quit, functors, batch, armed,
                   queued, ran, inlined, hist>>

\* The poller returns: some descriptors are active, or kPollTimeMs went by.
Poll ==
    /\ step = "poll"
    /\ active' \in 0..MaxActive
    /\ step' = "swap"
    /\ UNCHANGED <<stage, inCallback, quit, functors, batch, armed,
                   queued, ran, inlined, hist>>

HandleEvent ==
    /\ step = "swap" /\ active > 0 /\ ~inCallback
    /\ active' = active - 1
    /\ inCallback' = TRUE
    /\ UNCHANGED <<stage, step, quit, functors, batch, armed,
                   queued, ran, inlined, hist>>

ReturnFromCallback ==
    /\ inCallback
    /\ inCallback' = FALSE
    /\ UNCHANGED <<stage, step, active, quit, functors, batch, armed,
                   queued, ran, inlined, hist>>

\* runFunctors(): the vectors are swapped under the mutex ...
SwapKeeps ==
    /\ step = "swap" /\ active = 0 /\ ~inCallback
    /\ batch' = functors /\ functors' = functors
    /\ step' = "run"
    /\ UNCHANGED <<stage, inCallback, active, quit, armed, queued, ran,
                   inlined, hist>>

SwapFunctors ==
    /\ step = "swap" /\ active = 0 /\ ~inCallback
    /\ batch' = functors /\ functors' = <<>>
    /\ step' = "run"
    /\ UNCHANGED <<stage, inCallback, active, quit, armed, queued, ran,
                   inlined, hist>>

\* ... and the batch is executed in order, without the mutex.
RunFunctorLast ==
    /\ step = "run" /\ ~inCallback /\ batch # <<>>
    /\ ran' = Append(ran, batch[Len(batch)])
    /\ batch' = SubSeq(batch, 1, Len(batch) - 1)
    /\ Effect(batch[Len(batch)])
    /\ inCallback' = TRUE
    /\ UNCHANGED <<stage, step, active, quit, functors, queued, inlined, hist>>

RunFunctor ==
    /\ step = "run" /\ ~inCallback /\ batch # <<>>
    /\ ran' = Append(ran, Head(batch))
    /\ batch' = Tail(batch)
    /\ Effect(Head(batch))
    /\ inCallback' = TRUE
    /\ UNCHANGED <<stage, step, active, quit, functors, queued, inlined, hist>>

\* The batch is done: runTimers() follows in the loop and in the destructor,
\* start() returns after its last runFunctors().
FinishFunctorsEarly ==
    /\ step = "run" /\ ~inCallback
    /\ IF stage = "final" THEN stage' = "stopped" /\ step' = "idle"
                          ELSE stage' = stage /\ step' = "timers"
    /\ UNCHANGED <<inCallback, active, quit, functors, batch, armed,
                   queued, ran, inlined, hist>>

FinishFunctors ==
    /\ step = "run" /\ ~inCallback /\ batch = <<>>
    /\ IF stage = "final" THEN stage' = "stopped" /\ step' = "idle"
                          ELSE stage' = stage /\ step' = "timers"
    /\ UNCHANGED <<inCallback, active, quit, functors, batch, armed,
                   queued, ran, inlined, hist>>

\* runTimers(): a due one-shot timer is taken out and its callback executed.
FireTimer(t) ==
    /\ step = "timers" /\ ~inCallback /\ t \in armed
    /\ armed' = armed \ {t}
    /\ inCallback' = TRUE
    /\ UNCHANGED <<stage, step, active, quit, functors, batch,
                   queued, ran, inlined, hist>>

FinishTimersNoCheck ==
    /\ step = "timers" /\ ~inCallback
    /\ IF stage = "dtor" THEN stage' = "destroyed" /\ step' = "idle"
                         ELSE stage' = stage /\ step' = "poll"
    /\ UNCHANGED <<inCallback, active, quit, functors, batch, armed,
                   queued, ran, inlined, hist>>

\* No timer is due.
FinishTimers ==
    /\ step = "timers" /\ ~inCallback
    /\ IF stage = "dtor" THEN stage' = "destroyed" /\ step' = "idle"
                         ELSE stage' = stage /\ step' = "check"
    /\ UNCHANGED <<inCallback, active, quit, functors, batch, armed,
                   queued, ran, inlined, hist>>

\* ~EventLoop(): the wakeup descriptor is detached, then runFunctors() and
\* runTimers() once more.
DestroyNoRun ==
    /\ stage \in {"new", "stopped"}
    /\ stage' = "dtor" /\ step' = "timers"
    /\ dtorMark' = Len(queued)
    /\ UNCHANGED <<inCallback, active, quit, functors, batch, armed,
                   queued, ran, inlined, stopMark>>

Destroy ==
    /\ stage \in {"new", "stopped"}
    /\ stage' = "dtor" /\ step' = "swap"
    /\ dtorMark' = Len(queued)
    /\ UNCHANGED <<inCallback, active, quit, functors, batch, armed,
                   queued, ran, inlined, stopMark>>

LoopThread ==
    \/ Start \/ CheckQuit \/ Poll \/ HandleEvent \/ ReturnFromCallback
    \/ SwapFunctors \/ RunFunctor \/ FinishFunctors
    \/ FinishTimers \/ \E t \in Timer : FireTimer(t)

Callers ==
    \/ \E k \in Task : RunInLoop(<<"task", k>>)
    \/ \E t \in Timer : AddTimer(t) \/ CancelTimer(t)
    \/ Stop \/ StartAborts \/ StartAsserts \/ Destroy

Next == LoopThread \/ Callers

Spec == Init /\ [][Next]_vars

\* The operating system runs the loop thread, a poll returns after at most
\* kPollTimeMs and callbacks return.  Nobody is obliged to call anything.
FairSpec == Spec /\ WF_vars(LoopThread)

-----------------------------------------------------------------------------
(* Properties *)

\* Every variable keeps its type.
TypeOK ==
    /\ stage \in Stage /\ step \in Step
    /\ inCallback \in BOOLEAN /\ active \in 0..MaxActive /\ quit \in BOOLEAN
    /\ functors \in Seq(Functor) /\ batch \in Seq(Functor)
    /\ armed \in SUBSET Timer
    /\ queued \in Seq(Functor) /\ ran \in Seq(Functor)
    /\ inlined \in SUBSET Functor
    /\ stopMark \in Nat /\ dtorMark \in Nat

\* What queueInLoop was given is, at every moment, what was executed followed
\* by the rest of the batch followed by what is still in the vector: the swap
\* in runFunctors loses, repeats and reorders nothing, whoever queues while a
\* batch is being executed.
ExactlyOnceInOrder == queued = ran \o batch \o functors

\* start() does not return before every functor queued before stop() was
\* executed: the runFunctors() after the loop covers the ones that came in
\* between the last batch and the check of _quit.
StopDrains == stage = "stopped" => stopMark <= Len(ran)

\* When the destructor is through, every functor queued before it began was
\* executed, also those queued by the last batch of start().  (A functor that
\* a callback queues during the destructor itself may be dropped.)
DestructorDrains == stage = "destroyed" => dtorMark <= Len(ran)

\* cancelTimer() called off the loop thread is final: once its functor was
\* executed the timer is not in the timer queue and nothing can put it there,
\* since its addTimer() went through the same line before.  (On the loop
\* thread cancelTimer() overtakes an addTimer() that is still in the line.)
CancelIsFinal ==
    \A t \in Timer : <<"cancel", t>> \in SeqToSet(ran) => t \notin armed

(* The inductive invariant the proofs use, in named parts *)

\* Where each stage of the loop thread can be, and when a batch can exist.
Shape ==
    /\ stage \in {"new", "starting", "stopped", "destroyed", "aborted"} => step = "idle"
    /\ stage = "loop" => step # "idle"
    /\ stage = "final" => step \in {"swap", "run"}
    /\ stage = "dtor" => step \in {"swap", "run", "timers"}
    /\ stage \in {"final", "stopped"} => quit
    /\ step # "run" => batch = <<>>

\* The functors queued before stop() (before the destructor) are executed or
\* in the batch from the swap that follows it on.
Marks ==
    /\ stopMark <= Len(queued) /\ dtorMark <= Len(queued)
    /\ (stage = "final" /\ step = "run") => stopMark <= Len(ran) + Len(batch)
    /\ (stage = "dtor" /\ step = "run") => dtorMark <= Len(ran) + Len(batch)
    /\ (stage = "dtor" /\ step = "timers") => dtorMark <= Len(ran)

\* Names are submitted once, and cancelTimer() after its addTimer().
CallOrder ==
    /\ \A i, j \in 1..Len(queued) : queued[i] = queued[j] => i = j
    /\ \A i \in 1..Len(queued) : queued[i] \notin inlined
    /\ \A t \in Timer : \A j \in 1..Len(queued) :
          queued[j] = <<"cancel", t>> =>
              \/ <<"add", t>> \in inlined
              \/ \E i \in 1..(j - 1) : queued[i] = <<"add", t>>

IndInv ==
    /\ TypeOK /\ Shape /\ ExactlyOnceInOrder /\ Marks /\ CallOrder
    /\ StopDrains /\ DestructorDrains /\ CancelIsFinal

\* A functor queued while the loop runs is executed, unless it came after
\* stop(): one queued later may be left to the destructor.
QueuedRuns ==
    \A i \in 1..Cardinality(Functor) :
        (stage = "loop" /\ i <= Len(queued))
            ~> (i <= Len(ran) \/ (quit /\ stopMark < i))

\* stop() ends start().
StopReturns == (looping /\ quit) ~> (stage = "stopped")

\* The loop implements the line of functors its callers rely on.
Queue == INSTANCE FunctorQueue WITH line <- batch \o functors, done <- ran
ImplementsQueue == Queue!QSpec
=============================================================================
