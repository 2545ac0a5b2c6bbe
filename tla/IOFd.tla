-------------------------------- MODULE IOFd --------------------------------
(***************************************************************************)
(* The watchers of one loop: IOFd (src/src/net/fd/IOFd.cpp), the poller    *)
(* that knows them (src/src/net/poller/EPollPoller.cpp) and the kernel's   *)
(* epoll set.  The same registration is recorded three times, in the       *)
(* watcher's status, in the poller's map from descriptor numbers to        *)
(* watchers and in the kernel, which hands the watcher's raw address back  *)
(* from epoll_wait; the results of epoll_ctl are not looked at.            *)
(* Descriptor numbers are reused as soon as they are closed.               *)
(*                                                                         *)
(* Obligation of the owners, which the operations assume: a watcher is     *)
(* attached before it is enabled (update() follows _looper).               *)
(*                                                                         *)
(* Owners destroy watchers wherever the loop thread executes their code: a *)
(* connection that ends is let go inside the handler of its socket, stop() *)
(* may come in the callback of another object.  "uses" says at which       *)
(* moments that do not go well they do; "fault" is the assertion of ~IOFd  *)
(* that fails then, or the call through a dead address, and it is the end. *)
(***************************************************************************)
EXTENDS Integers

CONSTANTS Watcher,      \* IOFd objects, each constructed over and over again
          Number,       \* descriptor numbers
          None,         \* no watcher
          Uses          \* the uses that are explored, alone and together

\* When a watcher may be destroyed, other than detached and between two
\* handlers: while it has its loop, while handleEvent will come back to it, or
\* while its address waits in activeFds.
Use == {"attached", "handling", "pending"}

ASSUME NoneAssumption == None \notin Watcher /\ Number # {}
ASSUME UseAssumption == Uses \subseteq Use

Event == {"read", "write"}              \* kReadEvent, kWriteEvent
REvent == {"IN", "OUT", "HUP", "ERR"}
Callback == {"close", "error", "read", "write"}

VARIABLES
    alive,      \* the watchers that exist
    number,     \* Fd::_fd
    attached,   \* the watchers whose _looper is this loop
    status,     \* _status
    events,     \* _events
    revents,    \* _revents
    fds,        \* EPollPoller::_fds
    kptr,       \* kernel: data.ptr registered for a number, or None
    kevents,    \* kernel: the events registered for a number
    phase,      \* "events" while a batch is handled, "other" otherwise
    active,     \* activeFds still to be handled
    current,    \* the watcher in handleEvent, if any
    todo,       \* callbacks its handleEvent may still make
    calling,    \* the one that is being executed, if any
    handling,   \* the watchers whose _handling is set
    uses,       \* what the owners do
    fault       \* how the process ended

reg == <<number, attached, status, events, fds, kptr, kevents>>
disp == <<phase, active, current, todo, calling, handling, fault, uses>>
vars == <<alive, number, attached, status, events, revents, fds, kptr, kevents,
          phase, active, current, todo, calling, handling, uses, fault>>

Init ==
    /\ alive = {} /\ attached = {}
    /\ number = [w \in Watcher |-> CHOOSE n \in Number : TRUE]
    /\ status = [w \in Watcher |-> "NEW"]
    /\ events = [w \in Watcher |-> {}] /\ revents = [w \in Watcher |-> {}]
    /\ fds = [n \in Number |-> None]
    /\ kptr = [n \in Number |-> None] /\ kevents = [n \in Number |-> {}]
    /\ phase = "other" /\ active = {} /\ current = {} /\ todo = {}
    /\ calling = {} /\ handling = {}
    /\ uses \in SUBSET Uses /\ fault = "none"

-----------------------------------------------------------------------------
(* EPollPoller *)

\* epoll_ctl: adding a number that is there, and changing or deleting one that
\* is not, fails and has no effect.
ControlFd(op, w, ev) ==
    LET n == number[w]
        there == kptr[n] # None
    IN  \/ /\ op = "ADD" /\ ~there
           /\ kptr' = [kptr EXCEPT ![n] = w] /\ kevents' = [kevents EXCEPT ![n] = ev]
        \/ /\ op = "MOD" /\ there
           /\ kptr' = [kptr EXCEPT ![n] = w] /\ kevents' = [kevents EXCEPT ![n] = ev]
        \/ /\ op = "DEL" /\ there
           /\ kptr' = [kptr EXCEPT ![n] = None] /\ kevents' = [kevents EXCEPT ![n] = {}]
        \/ /\ there = (op = "ADD")
           /\ UNCHANGED <<kptr, kevents>>

hasFd(w) == fds[number[w]] = w

\* updateFd, with the new value of w's events
UpdateFdKeepsAdded(w, ev) ==
    \/ /\ status[w] = "NEW"
       /\ status' = [status EXCEPT ![w] = "ADDED"]
       /\ fds' = [fds EXCEPT ![number[w]] = w]
       /\ ControlFd("ADD", w, ev)
    \/ /\ status[w] = "DELETED"
       /\ status' = [status EXCEPT ![w] = "ADDED"]
       /\ UNCHANGED fds
       /\ ControlFd("ADD", w, ev)
    \/ /\ status[w] = "ADDED" /\ ev = {}
       /\ UNCHANGED <<fds, status>>
       /\ ControlFd("DEL", w, ev)
    \/ /\ status[w] = "ADDED" /\ ev # {}
       /\ UNCHANGED <<fds, status>>
       /\ ControlFd("MOD", w, ev)

UpdateFd(w, ev) ==
    \/ /\ status[w] = "NEW"
       /\ status' = [status EXCEPT ![w] = "ADDED"]
       /\ fds' = [fds EXCEPT ![number[w]] = w]
       /\ ControlFd("ADD", w, ev)
    \/ /\ status[w] = "DELETED"
       /\ status' = [status EXCEPT ![w] = "ADDED"]
       /\ UNCHANGED fds
       /\ ControlFd("ADD", w, ev)
    \/ /\ status[w] = "ADDED" /\ ev = {}
       /\ status' = [status EXCEPT ![w] = "DELETED"]
       /\ UNCHANGED fds
       /\ ControlFd("DEL", w, ev)
    \/ /\ status[w] = "ADDED" /\ ev # {}
       /\ UNCHANGED <<fds, status>>
       /\ ControlFd("MOD", w, ev)

-----------------------------------------------------------------------------
(* IOFd *)

\* The loop thread executes code of the watchers' owners.
Free == phase = "other" \/ calling # {}

\* A descriptor is opened and its watcher constructed; the kernel gives out a
\* number that is not open.
New(w, n) ==
    /\ Free /\ w \notin alive
    /\ \A v \in alive : number[v] # n
    /\ alive' = alive \cup {w}
    /\ number' = [number EXCEPT ![w] = n]
    /\ status' = [status EXCEPT ![w] = "NEW"]
    /\ events' = [events EXCEPT ![w] = {}]
    /\ revents' = [revents EXCEPT ![w] = {}]
    /\ UNCHANGED <<attached, fds, kptr, kevents, disp>>

\* enableReadInLoop, enableWriteInLoop
Enable(w, e) ==
    /\ Free /\ w \in attached
    /\ e \notin events[w]
    /\ events' = [events EXCEPT ![w] = @ \cup {e}]
    /\ UpdateFd(w, events[w] \cup {e})
    /\ UNCHANGED <<alive, number, attached, revents, disp>>

\* disableReadInLoop, disableWriteInLoop
DisableSilently(w, e) ==
    /\ Free /\ w \in alive
    /\ e \in events[w]
    /\ events' = [events EXCEPT ![w] = @ \ {e}]
    /\ UNCHANGED <<alive, number, attached, status, fds, kptr, kevents, revents, disp>>

Disable(w, e) ==
    /\ Free /\ w \in alive
    /\ e \in events[w]
    /\ events' = [events EXCEPT ![w] = @ \ {e}]
    /\ UpdateFd(w, events[w] \ {e})
    /\ UNCHANGED <<alive, number, attached, revents, disp>>

\* attachInLoop; a watcher that has no loop has no events
Attach(w) ==
    /\ Free /\ w \in alive /\ w \notin attached
    /\ attached' = attached \cup {w}
    /\ UNCHANGED <<alive, number, status, events, revents, fds, kptr, kevents, disp>>

\* detachInLoop: disableAllInLoop, which deletes a watcher that has events from
\* the epoll set; removeFd, which finds it deleted already; _looper = nullptr.
DetachForgetsMap(w) ==
    /\ Free /\ w \in attached
    /\ attached' = attached \ {w}
    /\ events' = [events EXCEPT ![w] = {}]
    /\ IF events[w] # {}
         THEN ControlFd("DEL", w, {})
         ELSE UNCHANGED <<kptr, kevents>>
    /\ status' = [status EXCEPT ![w] = "NEW"]
    /\ UNCHANGED <<alive, number, fds, revents, disp>>

Detach(w) ==
    /\ Free /\ w \in attached
    /\ attached' = attached \ {w}
    /\ events' = [events EXCEPT ![w] = {}]
    /\ IF events[w] # {}
         THEN ControlFd("DEL", w, {})
         ELSE UNCHANGED <<kptr, kevents>>
    /\ IF hasFd(w)
         THEN /\ fds' = [fds EXCEPT ![number[w]] = None]
              /\ status' = [status EXCEPT ![w] = "NEW"]
         ELSE UNCHANGED <<fds, status>>
    /\ UNCHANGED <<alive, number, revents, disp>>

\* The owners may destroy w now.
MayDestroy(w) ==
    /\ w \in attached => "attached" \in uses
    /\ w \in current /\ calling # {"close"} => "handling" \in uses
    /\ w \in active => "pending" \in uses

\* ~IOFd and its assertions; the owner closes the descriptor, which takes it
\* out of the epoll set.
Destroy(w) ==
    /\ Free /\ w \in alive /\ MayDestroy(w)
    /\ IF w \in handling \/ status[w] = "ADDED" \/ w \in attached \/ events[w] # {}
         THEN /\ fault' = "destructor"
              /\ UNCHANGED <<alive, kptr, kevents>>
         ELSE /\ alive' = alive \ {w}
              /\ kptr' = [kptr EXCEPT ![number[w]] = None]
              /\ kevents' = [kevents EXCEPT ![number[w]] = {}]
              /\ UNCHANGED fault
    /\ UNCHANGED <<number, attached, status, events, revents, fds,
                   phase, active, current, todo, calling, handling, uses>>

-----------------------------------------------------------------------------
(* A batch of events *)

Ready(n) == {"HUP", "ERR"} \cup (IF "read" \in kevents[n] THEN {"IN"} ELSE {})
                           \cup (IF "write" \in kevents[n] THEN {"OUT"} ELSE {})

\* epoll_wait reports some of the registered descriptors.
Poll(N) ==
    /\ phase = "other"
    /\ \A n \in N : kptr[n] # None
    /\ \E got \in [N -> SUBSET REvent] :
          /\ \A n \in N : got[n] # {} /\ got[n] \subseteq Ready(n)
          /\ revents' = [w \in Watcher |->
                 IF \E n \in N : kptr[n] = w
                   THEN got[CHOOSE n \in N : kptr[n] = w] ELSE revents[w]]
    /\ active' = {kptr[n] : n \in N}
    /\ phase' = "events"
    /\ UNCHANGED <<alive, reg, current, todo, calling, handling, uses, fault>>

\* handleEvent: a hangup with nothing to read is the close callback alone,
\* else error, read and write callbacks as reported, in this order.
Hangup(r) == "HUP" \in r /\ "IN" \notin r

Callbacks(r) ==
    IF Hangup(r)
      THEN {"close"}
      ELSE (IF "ERR" \in r THEN {"error"} ELSE {})
            \cup (IF "IN" \in r THEN {"read"} ELSE {})
            \cup (IF "OUT" \in r THEN {"write"} ELSE {})

BeginEventKeepsHandling(w) ==
    /\ phase = "events" /\ current = {} /\ w \in active \cap alive
    /\ active' = active \ {w}
    /\ current' = {w} /\ todo' = Callbacks(revents[w])
    /\ handling' = {w}
    /\ revents' = IF Hangup(revents[w]) THEN [revents EXCEPT ![w] = {}] ELSE revents
    /\ UNCHANGED <<alive, reg, phase, calling, uses, fault>>

\* A hangup is through with the watcher before the close callback.
BeginEvent(w) ==
    /\ phase = "events" /\ current = {} /\ w \in active \cap alive
    /\ active' = active \ {w}
    /\ current' = {w} /\ todo' = Callbacks(revents[w])
    /\ IF Hangup(revents[w])
         THEN handling' = {} /\ revents' = [revents EXCEPT ![w] = {}]
         ELSE handling' = {w} /\ UNCHANGED revents
    /\ UNCHANGED <<alive, reg, phase, calling, uses, fault>>

\* The loop comes to an address in activeFds whose watcher is gone.
BeginDangling(w) ==
    /\ phase = "events" /\ current = {} /\ w \in active \ alive
    /\ fault' = "dangling"
    /\ UNCHANGED <<alive, reg, revents, phase, active, current, todo, calling, handling, uses>>

Before(k) == CASE k = "write" -> {"error", "read"} [] k = "read" -> {"error"} [] OTHER -> {}

CallBack(k) ==
    /\ current # {} /\ calling = {}
    /\ k \in todo /\ todo \cap Before(k) = {}
    /\ todo' = todo \ {k} /\ calling' = {k}
    /\ UNCHANGED <<alive, reg, revents, phase, active, current, handling, uses, fault>>

Return ==
    /\ calling # {}
    /\ calling' = {}
    /\ UNCHANGED <<alive, reg, revents, phase, active, current, todo, handling, uses, fault>>

\* After a hangup handleEvent returns at once.
EndEvent ==
    /\ current # {} /\ calling = {} /\ todo = {}
    /\ revents' = [w \in Watcher |-> IF w \in handling THEN {} ELSE revents[w]]
    /\ current' = {} /\ handling' = {}
    /\ UNCHANGED <<alive, reg, phase, active, todo, calling, uses, fault>>

EndBatch ==
    /\ phase = "events" /\ active = {} /\ current = {}
    /\ phase' = "other"
    /\ UNCHANGED <<alive, reg, revents, active, current, todo, calling, handling, uses, fault>>

Step ==
    \/ \E w \in Watcher :
          \/ Attach(w) \/ Detach(w) \/ Destroy(w) \/ BeginEvent(w) \/ BeginDangling(w)
          \/ \E n \in Number : New(w, n)
          \/ \E e \in Event : Enable(w, e) \/ Disable(w, e)
    \/ \E N \in SUBSET Number : Poll(N)
    \/ \E k \in Callback : CallBack(k)
    \/ Return \/ EndEvent \/ EndBatch

Next == fault = "none" /\ Step

Spec == Init /\ [][Next]_vars

-----------------------------------------------------------------------------
(* Properties *)

\* Every variable keeps its type.
TypeOK ==
    /\ alive \in SUBSET Watcher /\ attached \in SUBSET alive
    /\ number \in [Watcher -> Number]
    /\ status \in [Watcher -> {"NEW", "ADDED", "DELETED"}]
    /\ events \in [Watcher -> SUBSET Event] /\ revents \in [Watcher -> SUBSET REvent]
    /\ fds \in [Number -> Watcher \cup {None}]
    /\ kptr \in [Number -> Watcher \cup {None}] /\ kevents \in [Number -> SUBSET Event]
    /\ phase \in {"events", "other"} /\ active \in SUBSET Watcher
    /\ current \in SUBSET Watcher /\ todo \in SUBSET Callback
    /\ calling \in SUBSET Callback /\ handling \in SUBSET Watcher
    /\ uses \in SUBSET Uses /\ fault \in {"none", "destructor", "dangling"}

\* The kernel watches exactly what each watcher asks for, though the results of
\* epoll_ctl are ignored: no enabled event is missed for good, none that was
\* disabled is reported for ever.
KernelInStep ==
    \A w \in alive :
        /\ kptr[number[w]] = IF events[w] = {} THEN None ELSE w
        /\ kevents[number[w]] = events[w]

\* Every address the poller and the kernel hold is that of a living watcher, and
\* handleEvent comes back to a living one; a batch holds a dead address, and the
\* loop calls it, only if an owner destroys watchers whose event is still to come.
NoDangling ==
    /\ \A n \in Number : fds[n] # None => fds[n] \in alive
    /\ \A n \in Number : kptr[n] # None => kptr[n] \in alive
    /\ handling \subseteq alive
    /\ "pending" \notin uses => active \subseteq alive /\ fault # "dangling"

\* The assertions of updateFd and removeFd: the number of a NEW watcher is not
\* in the map, also when it was used by another watcher before; the others are
\* in the map under their own number; removeFd finds no events.
PollerAsserts ==
    \A w \in alive :
        /\ status[w] = "NEW" => fds[number[w]] = None
        /\ status[w] # "NEW" => hasFd(w)
        /\ status[w] = "ADDED" <=> events[w] # {}

\* The assertions of ~IOFd
DestructorAsserts == fault = "destructor" => uses \cap {"attached", "handling"} # {}

\* The assertions of the poller hold, and those of ~IOFd at every moment at which
\* a watcher is destroyed, but while it has its loop or handleEvent will come
\* back to it.  In particular it may go in its own close callback, and in the
\* callback of any other watcher of the batch.
AssertionsHold == PollerAsserts /\ DestructorAsserts

\* What makes the above inductive: descriptor numbers of living watchers differ
\* and the poller and the kernel file each watcher under its own.
Filed ==
    /\ \A v, w \in alive : number[v] = number[w] => v = w
    /\ \A n \in Number : fds[n] # None => number[fds[n]] = n
    /\ \A n \in Number : kptr[n] # None => number[kptr[n]] = n
    /\ phase = "other" => active = {} /\ current = {}
    /\ calling # {} => current # {}
    /\ handling \subseteq current
    /\ todo = {} \/ todo = {"close"} \/ "close" \notin todo
    /\ "close" \in todo \cup calling => handling = {}
    /\ \A n \in Number : kptr[n] = None => kevents[n] = {}

\* A watcher without a loop is registered nowhere.
DetachedIsIdle ==
    \A w \in alive : w \notin attached => status[w] = "NEW" /\ events[w] = {}

IndInv ==
    /\ TypeOK /\ KernelInStep /\ NoDangling /\ PollerAsserts
    /\ DestructorAsserts /\ DetachedIsIdle /\ Filed
=============================================================================
