----------------------------- MODULE IOFdProofs -----------------------------
(***************************************************************************)
(* The three records of a registration agree and no address outlives its   *)
(* watcher, for any watchers and descriptor numbers.                       *)
(***************************************************************************)
EXTENDS IOFd, TLAPS

\* updateFd files an attached watcher whose events become ev, and tells the
\* kernel.
LEMMA UpdateEffect ==
    ASSUME IndInv, NEW w \in alive, NEW ev \in SUBSET Event, ev # events[w],
           UpdateFd(w, ev)
    PROVE  /\ status' = [status EXCEPT ![w] = IF ev = {} THEN "DELETED" ELSE "ADDED"]
           /\ fds' = [fds EXCEPT ![number[w]] = w]
           /\ kptr' = [kptr EXCEPT ![number[w]] = IF ev = {} THEN None ELSE w]
           /\ kevents' = [kevents EXCEPT ![number[w]] = ev]
  <1> DEFINE n == number[w]
  <1>1. /\ w \in Watcher /\ n \in Number /\ w # None
        /\ status \in [Watcher -> {"NEW", "ADDED", "DELETED"}]
        /\ fds \in [Number -> Watcher \cup {None}]
        /\ kptr \in [Number -> Watcher \cup {None}] /\ kevents \in [Number -> SUBSET Event]
    BY NoneAssumption DEF IndInv, TypeOK
  <1>2. /\ kptr[n] = IF events[w] = {} THEN None ELSE w
        /\ status[w] = "ADDED" <=> events[w] # {}
        /\ status[w] # "NEW" => fds[n] = w
    BY DEF IndInv, KernelInStep, PollerAsserts, hasFd
  <1>3. CASE status[w] = "NEW"
    BY <1>1, <1>2, <1>3 DEF UpdateFd, ControlFd
  <1>4. CASE status[w] = "DELETED"
    <2>1. fds' = fds /\ fds = [fds EXCEPT ![n] = w]
      BY <1>1, <1>2, <1>4 DEF UpdateFd
    <2> QED BY <1>1, <1>2, <1>4, <2>1 DEF UpdateFd, ControlFd
  <1>5. CASE status[w] = "ADDED"
    <2>1. fds' = fds /\ fds = [fds EXCEPT ![n] = w]
      BY <1>1, <1>2, <1>5 DEF UpdateFd
    <2>2. CASE ev = {}
      BY <1>1, <1>2, <1>5, <2>1, <2>2 DEF UpdateFd, ControlFd
    <2>3. CASE ev # {}
      <3>1. status = [status EXCEPT ![w] = "ADDED"]
        BY <1>1, <1>5
      <3> QED BY <1>1, <1>2, <1>5, <2>1, <2>3, <3>1 DEF UpdateFd, ControlFd
    <2> QED BY <2>2, <2>3
  <1> QED BY <1>1, <1>3, <1>4, <1>5

\* enable and disable keep the invariant.
LEMMA UpdateStep ==
    ASSUME IndInv, NEW w \in attached, NEW ev \in SUBSET Event, ev # events[w],
           UpdateFd(w, ev), events' = [events EXCEPT ![w] = ev],
           UNCHANGED <<alive, number, attached, revents, disp>>
    PROVE  IndInv'
  <1> DEFINE n == number[w]
  <1>1. /\ w \in alive /\ w \in Watcher /\ n \in Number /\ w # None
        /\ status \in [Watcher -> {"NEW", "ADDED", "DELETED"}]
        /\ events \in [Watcher -> SUBSET Event] /\ number \in [Watcher -> Number]
        /\ fds \in [Number -> Watcher \cup {None}] /\ alive \subseteq Watcher
        /\ kptr \in [Number -> Watcher \cup {None}] /\ kevents \in [Number -> SUBSET Event]
    BY NoneAssumption DEF IndInv, TypeOK
  <1>2. /\ status' = [status EXCEPT ![w] = IF ev = {} THEN "DELETED" ELSE "ADDED"]
        /\ fds' = [fds EXCEPT ![n] = w]
        /\ kptr' = [kptr EXCEPT ![n] = IF ev = {} THEN None ELSE w]
        /\ kevents' = [kevents EXCEPT ![n] = ev]
    BY <1>1, UpdateEffect
  <1>3. \A v \in alive : v # w => number[v] # n
    BY <1>1 DEF IndInv, Filed
  <1>4. TypeOK'
    BY <1>1, <1>2 DEF IndInv, TypeOK, disp
  <1>5. KernelInStep'
    BY <1>1, <1>2, <1>3 DEF IndInv, KernelInStep
  <1>6. NoDangling'
    BY <1>1, <1>2 DEF IndInv, NoDangling, disp
  <1>7. PollerAsserts' /\ DetachedIsIdle'
    BY <1>1, <1>2, <1>3 DEF IndInv, PollerAsserts, DetachedIsIdle, hasFd
  <1>8. Filed'
    BY <1>1, <1>2, <1>3 DEF IndInv, Filed, disp
  <1>9. DestructorAsserts'
    BY DEF IndInv, DestructorAsserts, disp
  <1> QED BY <1>4, <1>5, <1>6, <1>7, <1>8, <1>9 DEF IndInv

\* A new watcher gets a number nobody alive has: neither map nor kernel know it.
LEMMA NewStep ==
    ASSUME IndInv, NEW w \in Watcher, NEW n \in Number, New(w, n)
    PROVE  IndInv'
  <1> USE DEF New, disp
  <1>1. /\ status \in [Watcher -> {"NEW", "ADDED", "DELETED"}]
        /\ events \in [Watcher -> SUBSET Event] /\ revents \in [Watcher -> SUBSET REvent]
        /\ number \in [Watcher -> Number]
        /\ alive \subseteq Watcher /\ attached \subseteq alive
    BY DEF IndInv, TypeOK
  <1>2. fds[n] = None /\ kptr[n] = None /\ kevents[n] = {}
    BY DEF IndInv, NoDangling, Filed
  <1>3. /\ w \notin alive /\ alive' = alive \cup {w} /\ number'[w] = n
        /\ status'[w] = "NEW" /\ events'[w] = {}
        /\ \A v \in alive : number'[v] = number[v] /\ status'[v] = status[v] /\ events'[v] = events[v]
    BY <1>1
  <1>4. TypeOK'
    BY <1>1 DEF IndInv, TypeOK
  <1>5. KernelInStep'
    <2> SUFFICES ASSUME NEW v \in alive'
                 PROVE  /\ kptr[number'[v]] = IF events'[v] = {} THEN None ELSE v
                        /\ kevents[number'[v]] = events'[v]
      BY DEF KernelInStep
    <2>1. CASE v = w
      BY <1>2, <1>3, <2>1
    <2>2. CASE v \in alive
      BY <1>3, <2>2 DEF IndInv, KernelInStep
    <2> QED BY <1>3, <2>1, <2>2
  <1>6. NoDangling'
    BY <1>3 DEF IndInv, NoDangling
  <1>7. PollerAsserts' /\ DetachedIsIdle'
    BY <1>1, <1>2, <1>3 DEF IndInv, PollerAsserts, DetachedIsIdle, hasFd
  <1>8. Filed'
    BY <1>2, <1>3 DEF IndInv, Filed, NoDangling
  <1>9. DestructorAsserts'
    BY DEF IndInv, DestructorAsserts, disp
  <1> QED BY <1>4, <1>5, <1>6, <1>7, <1>8, <1>9 DEF IndInv

\* detachInLoop clears all three records.
LEMMA DetachStep ==
    ASSUME IndInv, NEW w \in Watcher, Detach(w)
    PROVE  IndInv'
  <1> USE DEF disp
  <1> DEFINE n == number[w]
  <1>1. /\ w \in alive /\ n \in Number /\ w # None
        /\ status \in [Watcher -> {"NEW", "ADDED", "DELETED"}]
        /\ events \in [Watcher -> SUBSET Event] /\ number \in [Watcher -> Number]
        /\ fds \in [Number -> Watcher \cup {None}] /\ alive \subseteq Watcher
        /\ kptr \in [Number -> Watcher \cup {None}] /\ kevents \in [Number -> SUBSET Event]
    BY NoneAssumption DEF IndInv, TypeOK, Detach
  <1>2. /\ kptr[n] = IF events[w] = {} THEN None ELSE w
        /\ kevents[n] = events[w]
        /\ status[w] = "NEW" => fds[n] = None
        /\ status[w] # "NEW" => fds[n] = w
    BY <1>1 DEF IndInv, KernelInStep, PollerAsserts, hasFd
  <1>3. kptr' = [kptr EXCEPT ![n] = None] /\ kevents' = [kevents EXCEPT ![n] = {}]
    <2>1. CASE events[w] # {}
      BY <1>1, <1>2, <2>1 DEF Detach, ControlFd
    <2>2. CASE events[w] = {}
      <3>1. kptr' = kptr /\ kevents' = kevents
        BY <2>2 DEF Detach
      <3> QED BY <1>1, <1>2, <2>2, <3>1
    <2> QED BY <2>1, <2>2
  <1>4. fds' = [fds EXCEPT ![n] = None] /\ status' = [status EXCEPT ![w] = "NEW"]
    <2>1. CASE hasFd(w)
      BY <2>1 DEF Detach
    <2>2. CASE ~hasFd(w)
      <3>1. fds' = fds /\ status' = status /\ status[w] = "NEW" /\ fds[n] = None
        BY <1>2, <2>2 DEF Detach, hasFd
      <3> QED BY <1>1, <3>1
    <2> QED BY <2>1, <2>2
  <1>5. /\ events' = [events EXCEPT ![w] = {}] /\ attached' = attached \ {w}
        /\ UNCHANGED <<alive, number, revents, disp>>
    BY DEF Detach
  <1>6. \A v \in alive : v # w => number[v] # n
    BY <1>1 DEF IndInv, Filed
  <1>7. TypeOK'
    BY <1>1, <1>3, <1>4, <1>5 DEF IndInv, TypeOK
  <1>8. KernelInStep'
    BY <1>1, <1>3, <1>5, <1>6 DEF IndInv, KernelInStep
  <1>9. NoDangling'
    BY <1>1, <1>3, <1>4, <1>5 DEF IndInv, NoDangling
  <1>10. PollerAsserts' /\ DetachedIsIdle'
    BY <1>1, <1>4, <1>5, <1>6 DEF IndInv, PollerAsserts, DetachedIsIdle, hasFd
  <1>11. Filed'
    BY <1>1, <1>3, <1>4, <1>5 DEF IndInv, Filed
  <1>12. DestructorAsserts'
    BY <1>5 DEF IndInv, DestructorAsserts
  <1> QED BY <1>7, <1>8, <1>9, <1>10, <1>11, <1>12 DEF IndInv

\* ~IOFd fails only for a watcher that has its loop or that handleEvent will come
\* back to; any other is in no record, and nothing but a batch holds its address
\* when it goes.
LEMMA DestroyStep ==
    ASSUME IndInv, fault = "none", NEW w \in Watcher, Destroy(w)
    PROVE  IndInv'
  <1> DEFINE n == number[w]
             fails == w \in handling \/ status[w] = "ADDED" \/ w \in attached \/ events[w] # {}
  <1>1. /\ w \in alive /\ n \in Number /\ w # None
        /\ kptr \in [Number -> Watcher \cup {None}] /\ kevents \in [Number -> SUBSET Event]
        /\ MayDestroy(w) /\ handling \subseteq current
        /\ calling = {"close"} => handling = {}
        /\ UNCHANGED <<number, attached, status, events, revents, fds,
                       phase, active, current, todo, calling, handling, uses>>
    BY NoneAssumption DEF IndInv, TypeOK, Destroy, Filed
  <1>2. w \in attached \/ (status[w] = "NEW" /\ events[w] = {})
    BY <1>1 DEF IndInv, DetachedIsIdle
  <1>3. CASE fails
    <2>1. fault' = "destructor" /\ UNCHANGED <<alive, kptr, kevents>>
      BY <1>3 DEF Destroy
    <2>2. w \in attached \/ w \in handling
      BY <1>2, <1>3
    <2>3. uses \cap {"attached", "handling"} # {}
      BY <1>1, <2>2 DEF MayDestroy
    <2>4. TypeOK' /\ DestructorAsserts'
      BY <1>1, <2>1, <2>3 DEF IndInv, TypeOK, DestructorAsserts
    <2>5. KernelInStep' /\ PollerAsserts' /\ DetachedIsIdle'
      BY <1>1, <2>1 DEF IndInv, KernelInStep, PollerAsserts, DetachedIsIdle, hasFd
    <2>6. NoDangling' /\ Filed'
      BY <1>1, <2>1 DEF IndInv, NoDangling, Filed
    <2> QED BY <2>4, <2>5, <2>6 DEF IndInv
  <1>4. CASE ~fails
    <2>1. /\ alive' = alive \ {w} /\ UNCHANGED fault
          /\ kptr' = [kptr EXCEPT ![n] = None] /\ kevents' = [kevents EXCEPT ![n] = {}]
      BY <1>4 DEF Destroy
    <2>2. fds[n] = None /\ kptr[n] = None /\ kevents[n] = {}
      BY <1>1, <1>2, <1>4 DEF IndInv, KernelInStep, PollerAsserts
    <2>3. kptr' = kptr /\ kevents' = kevents /\ alive' \subseteq alive
      BY <1>1, <2>1, <2>2
    <2>4. \A m \in Number : fds[m] # w /\ kptr[m] # w
      BY <1>1, <2>2 DEF IndInv, Filed
    <2>5. TypeOK' /\ DestructorAsserts'
      BY <1>1, <1>4, <2>1, <2>3 DEF IndInv, TypeOK, DestructorAsserts
    <2>6. KernelInStep'
      BY <1>1, <2>3 DEF IndInv, KernelInStep
    <2>7. PollerAsserts' /\ DetachedIsIdle'
      BY <1>1, <2>3 DEF IndInv, PollerAsserts, DetachedIsIdle, hasFd
    <2>8. NoDangling'
      BY <1>1, <1>4, <2>1, <2>3, <2>4 DEF IndInv, NoDangling, MayDestroy
    <2>9. Filed'
      BY <1>1, <2>1, <2>3 DEF IndInv, Filed
    <2> QED BY <2>5, <2>6, <2>7, <2>8, <2>9 DEF IndInv
  <1> QED BY <1>3, <1>4

\* Polling and dispatching leave the registrations alone; a batch holds what
\* the kernel held.
LEMMA DispatchStep ==
    ASSUME IndInv, UNCHANGED <<alive, reg, uses>>, revents' \in [Watcher -> SUBSET REvent],
           phase' \in {"events", "other"}, todo' \in SUBSET Callback,
           calling' \in SUBSET Callback, active' \in SUBSET Watcher, current' \in SUBSET Watcher,
           handling' \subseteq current' \cap alive,
           "pending" \notin uses => active' \subseteq alive /\ fault' # "dangling",
           fault' \in {fault, "dangling"},
           phase' = "other" => active' = {} /\ current' = {},
           calling' # {} => current' # {},
           todo' = {} \/ todo' = {"close"} \/ "close" \notin todo',
           "close" \in todo' \cup calling' => handling' = {}
    PROVE  IndInv'
  <1> USE DEF reg
  <1>1. TypeOK' /\ DestructorAsserts'
    BY DEF IndInv, TypeOK, DestructorAsserts
  <1>2. KernelInStep' /\ PollerAsserts' /\ DetachedIsIdle'
    BY DEF IndInv, KernelInStep, PollerAsserts, DetachedIsIdle, hasFd
  <1>3. NoDangling' /\ Filed'
    BY DEF IndInv, NoDangling, Filed
  <1> QED BY <1>1, <1>2, <1>3 DEF IndInv

\* epoll_wait hands back addresses of living watchers only.
LEMMA PollStep ==
    ASSUME IndInv, NEW N \in SUBSET Number, Poll(N)
    PROVE  IndInv'
  <1>1. PICK got \in [N -> SUBSET REvent] :
           revents' = [w \in Watcher |->
                 IF \E n \in N : kptr[n] = w
                   THEN got[CHOOSE n \in N : kptr[n] = w] ELSE revents[w]]
    BY DEF Poll
  <1>2. revents' \in [Watcher -> SUBSET REvent]
    <2> SUFFICES ASSUME NEW w \in Watcher PROVE revents'[w] \in SUBSET REvent
      BY <1>1
    <2>1. CASE \E n \in N : kptr[n] = w
      <3>1. (CHOOSE n \in N : kptr[n] = w) \in N
        BY <2>1
      <3> QED BY <1>1, <2>1, <3>1
    <2>2. CASE ~ \E n \in N : kptr[n] = w
      BY <1>1, <2>2 DEF IndInv, TypeOK
    <2> QED BY <2>1, <2>2
  <1>3. active' \subseteq alive /\ current' = current /\ current = {}
    BY DEF Poll, IndInv, NoDangling, Filed
  <1>4. /\ UNCHANGED <<alive, reg, todo, calling, handling, uses, fault>> /\ phase' = "events"
    BY DEF Poll
  <1>5. /\ todo \in SUBSET Callback /\ calling \in SUBSET Callback /\ alive \subseteq Watcher
        /\ handling \subseteq current
        /\ calling # {} => current # {}
        /\ todo = {} \/ todo = {"close"} \/ "close" \notin todo
        /\ "close" \in todo \cup calling => handling = {}
        /\ "pending" \notin uses => fault # "dangling"
    BY DEF IndInv, TypeOK, Filed, NoDangling
  <1> QED BY <1>2, <1>3, <1>4, <1>5, DispatchStep

\* A loop without watchers.
LEMMA InitIndInv == Init => IndInv
  <1> SUFFICES ASSUME Init PROVE IndInv
    OBVIOUS
  <1>1. (CHOOSE n \in Number : TRUE) \in Number
    BY NoneAssumption
  <1>2. TypeOK
    BY <1>1 DEF Init, TypeOK
  <1>3. KernelInStep /\ PollerAsserts /\ DestructorAsserts /\ DetachedIsIdle
    BY DEF Init, KernelInStep, PollerAsserts, DestructorAsserts, DetachedIsIdle
  <1>4. NoDangling /\ Filed
    BY DEF Init, NoDangling, Filed
  <1> QED BY <1>2, <1>3, <1>4 DEF IndInv

\* Every operation of a watcher and every step of a batch keeps the invariant.
LEMMA NextIndInv == IndInv /\ [Next]_vars => IndInv'
  <1> SUFFICES ASSUME IndInv, [Next]_vars PROVE IndInv'
    OBVIOUS
  <1>0. /\ alive \subseteq Watcher /\ attached \subseteq alive
        /\ events \in [Watcher -> SUBSET Event] /\ revents \in [Watcher -> SUBSET REvent]
        /\ phase \in {"events", "other"} /\ todo \in SUBSET Callback
        /\ calling \in SUBSET Callback
        /\ active \in SUBSET Watcher /\ current \in SUBSET Watcher
        /\ handling \subseteq current /\ handling \subseteq alive
        /\ "pending" \notin uses => active \subseteq alive /\ fault # "dangling"
        /\ phase = "other" => active = {} /\ current = {}
        /\ calling # {} => current # {}
        /\ todo = {} \/ todo = {"close"} \/ "close" \notin todo
        /\ "close" \in todo \cup calling => handling = {}
        /\ DetachedIsIdle
    BY DEF IndInv, TypeOK, NoDangling, Filed
  <1>1. ASSUME NEW w \in Watcher, NEW e \in Event, Enable(w, e) PROVE IndInv'
    <2> DEFINE ev == events[w] \cup {e}
    <2>1. ev \in SUBSET Event /\ ev # events[w] /\ events' = [events EXCEPT ![w] = ev]
      BY <1>0, <1>1 DEF Enable
    <2>2. w \in attached /\ UpdateFd(w, ev) /\ UNCHANGED <<alive, number, attached, revents, disp>>
      BY <1>1 DEF Enable
    <2> HIDE DEF ev
    <2> QED BY <2>1, <2>2, UpdateStep
  <1>2. ASSUME NEW w \in Watcher, NEW e \in Event, Disable(w, e) PROVE IndInv'
    <2> DEFINE ev == events[w] \ {e}
    <2>1. ev \in SUBSET Event /\ ev # events[w] /\ events' = [events EXCEPT ![w] = ev]
      BY <1>0, <1>2 DEF Disable
    <2>2. w \in attached
      BY <1>0, <1>2 DEF Disable, DetachedIsIdle
    <2>3. UpdateFd(w, ev) /\ UNCHANGED <<alive, number, attached, revents, disp>>
      BY <1>2 DEF Disable
    <2> HIDE DEF ev
    <2> QED BY <2>1, <2>2, <2>3, UpdateStep
  <1>3. ASSUME NEW w \in Watcher, Attach(w) PROVE IndInv'
    <2>1. TypeOK' /\ DestructorAsserts'
      BY <1>3 DEF Attach, IndInv, TypeOK, DestructorAsserts, disp
    <2>2. KernelInStep' /\ PollerAsserts' /\ DetachedIsIdle'
      BY <1>3 DEF Attach, IndInv, KernelInStep, PollerAsserts, DetachedIsIdle, hasFd
    <2>3. NoDangling' /\ Filed'
      BY <1>3 DEF Attach, IndInv, NoDangling, Filed, disp
    <2> QED BY <2>1, <2>2, <2>3 DEF IndInv
  <1>4. ASSUME NEW w \in Watcher, BeginEvent(w) PROVE IndInv'
    <2>1. /\ todo' = Callbacks(revents[w]) /\ w \in alive /\ current = {} /\ current' = {w}
          /\ active' = active \ {w} /\ phase = "events"
          /\ UNCHANGED <<alive, reg, phase, calling, uses, fault>>
      BY <1>4 DEF BeginEvent
    <2>2. CASE Hangup(revents[w])
      <3>1. todo' = {"close"} /\ handling' = {} /\ revents' = [revents EXCEPT ![w] = {}]
        BY <1>4, <2>1, <2>2 DEF BeginEvent, Callbacks
      <3>2. todo' \in SUBSET Callback /\ revents' \in [Watcher -> SUBSET REvent]
        BY <1>0, <3>1 DEF Callback
      <3> QED BY <1>0, <2>1, <3>1, <3>2, DispatchStep
    <2>3. CASE ~Hangup(revents[w])
      <3>1. handling' = {w} /\ revents' = revents
        BY <1>4, <2>3 DEF BeginEvent
      <3>2. todo' \in SUBSET Callback /\ "close" \notin todo'
        BY <2>1, <2>3 DEF Callbacks, Callback
      <3> QED BY <1>0, <2>1, <3>1, <3>2, DispatchStep
    <2> QED BY <2>2, <2>3
  <1>5. ASSUME NEW w \in Watcher, BeginDangling(w) PROVE IndInv'
    <2>1. /\ UNCHANGED <<alive, reg, revents, phase, active, current, todo, calling, handling, uses>>
          /\ fault' = "dangling" /\ w \in active \ alive
      BY <1>5 DEF BeginDangling
    <2> QED BY <1>0, <2>1, DispatchStep
  <1>6. ASSUME NEW k \in Callback, CallBack(k) PROVE IndInv'
    <2>1. /\ UNCHANGED <<alive, reg, revents, phase, active, current, handling, uses, fault>>
          /\ current # {} /\ k \in todo /\ todo' = todo \ {k} /\ calling' = {k}
      BY <1>6 DEF CallBack
    <2>2. "close" \in todo' \cup calling' => "close" \in todo
      BY <2>1
    <2>3. todo' = {} \/ todo' = {"close"} \/ "close" \notin todo'
      BY <1>0, <2>1
    <2> QED BY <1>0, <2>1, <2>2, <2>3, DispatchStep
  <1>7. CASE Return
    <2>1. /\ UNCHANGED <<alive, reg, revents, phase, active, current, todo, handling, uses, fault>>
          /\ calling' = {}
      BY <1>7 DEF Return
    <2> QED BY <1>0, <2>1, DispatchStep
  <1>8. CASE EndEvent
    <2>1. /\ UNCHANGED <<alive, reg, phase, active, todo, calling, uses, fault>>
          /\ calling = {} /\ current' = {} /\ handling' = {} /\ todo = {}
      BY <1>8 DEF EndEvent
    <2>2. revents' \in [Watcher -> SUBSET REvent]
      BY <1>0, <1>8 DEF EndEvent
    <2> QED BY <1>0, <2>1, <2>2, DispatchStep
  <1>9. CASE EndBatch
    <2>1. /\ UNCHANGED <<alive, reg, revents, active, current, todo, calling, handling, uses, fault>>
          /\ active = {} /\ current = {} /\ phase' = "other"
      BY <1>9 DEF EndBatch
    <2> QED BY <1>0, <2>1, DispatchStep
  <1>10. CASE UNCHANGED vars
    <2>1. UNCHANGED <<alive, reg, revents, phase, active, current, todo, calling, handling, uses, fault>>
      BY <1>10 DEF vars, reg
    <2> QED BY <1>0, <2>1, DispatchStep
  <1> QED
    BY <1>1, <1>2, <1>3, <1>4, <1>5, <1>6, <1>7, <1>8, <1>9, <1>10,
       NewStep, DetachStep, DestroyStep, PollStep DEF Next, Step

\* The three records of a registration agree at all times.
THEOREM Invariance == Spec => []IndInv
  BY InitIndInv, NextIndInv, PTL DEF Spec

\* Type correctness.
THEOREM TypeCorrect == Spec => []TypeOK
  BY Invariance, PTL DEF IndInv

\* The kernel watches what the watchers ask for.
THEOREM KernelCorrect == Spec => []KernelInStep
  BY Invariance, PTL DEF IndInv

\* Poller, kernel and handleEvent keep no address of a watcher that is gone, at
\* whatever moment the owners destroy it; a batch keeps one, and the loop calls
\* it, only if they destroy watchers whose event is still to come.
THEOREM NoUseAfterFree == Spec => []NoDangling
  BY Invariance, PTL DEF IndInv

\* The assertions of the poller hold, and all four of ~IOFd fail only for a
\* watcher that has its loop or that handleEvent will come back to.
THEOREM NoAssertionFails == Spec => []AssertionsHold
  BY Invariance, PTL DEF IndInv, AssertionsHold
=============================================================================
