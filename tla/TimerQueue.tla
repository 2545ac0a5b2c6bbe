------------------------------ MODULE TimerQueue ------------------------------
(***************************************************************************)
(* saf::TimerQueue (src/src/net/TimerQueue.cpp): a binary heap of timers   *)
(* with, in every timer, its own position in the heap, and the map that    *)
(* owns the timers.  EventLoop calls it on the loop thread only, except    *)
(* createTimer, which runs on whatever thread calls addTimer: a timer's    *)
(* clock starts there, before the loop has heard of it.                    *)
(*                                                                         *)
(* Positions are the code's: FirstItem = 1, entry 0 of the vector is a     *)
(* dummy, so that the sequence heap is the vector without it.  One turn of *)
(* the loops in heapUp and heapDown is one step; until they are through    *)
(* the loop thread does nothing else.                                      *)
(***************************************************************************)
EXTENDS Integers, Sequences

CONSTANTS Timer,        \* the timers ever created, each once
          Repeated,     \* the ones created with repeated = true
          Delay,        \* the delays (and intervals), in clock ticks
          MaxTime       \* bound on the clock

ASSUME TimerAssumption ==
    Repeated \subseteq Timer /\ Delay \subseteq Nat /\ MaxTime \in Nat

VARIABLES
    heap,       \* _heap
    index,      \* every timer's _heapIndex
    owned,      \* the keys of _timers
    created,    \* made by createTimer, addTimer still queued
    interval,   \* _interval of the repeated timers
    deadline,   \* _timestamp
    phase,      \* "up", "down": in heapUp, heapDown; "popped": heapPop is done
    pos,        \* the position heapUp or heapDown looks at
    due,        \* the timer popTimer works on, if any
    running,    \* the timer whose callback is being executed, if any
    over,       \* history: fired once and not repeated, or cancelled
    moved,      \* history: a cancelTimer moved an entry inside the heap
    now         \* time::timestamp()

vars == <<heap, index, owned, created, interval, deadline, phase, pos, due,
          running, over, moved, now>>
clock == <<interval, deadline, now>>

Init ==
    /\ heap = <<>> /\ index = [t \in Timer |-> 0]
    /\ owned = {} /\ created = {}
    /\ interval = [t \in Repeated |-> 0] /\ deadline = [t \in Timer |-> 0]
    /\ phase = "idle" /\ pos = 1 /\ due = {}
    /\ running = {} /\ over = {} /\ moved = FALSE /\ now = 0

-----------------------------------------------------------------------------
(* Heap operations *)

HeapSwapOne(a, b) ==
    /\ heap' = [heap EXCEPT ![a] = heap[b], ![b] = heap[a]]
    /\ index' = [index EXCEPT ![heap[b]] = a]

HeapSwap(a, b) ==
    /\ heap' = [heap EXCEPT ![a] = heap[b], ![b] = heap[a]]
    /\ index' = [index EXCEPT ![heap[b]] = a, ![heap[a]] = b]

\* heapSwap with the last entry, then pop_back.  The index of the entry that is
\* dropped is not read again before it is set again: it is 0 here.
SwapAndDrop(a) ==
    /\ heap' = SubSeq([heap EXCEPT ![a] = heap[Len(heap)]], 1, Len(heap) - 1)
    /\ index' = [index EXCEPT ![heap[Len(heap)]] = a, ![heap[a]] = 0]

\* push_back and heapUp
HeapInsert(t) ==
    /\ heap' = Append(heap, t)
    /\ index' = [index EXCEPT ![t] = Len(heap) + 1]
    /\ phase' = "up" /\ pos' = Len(heap) + 1

\* The entry that takes the place of the deleted one goes down only.
HeapDelete(p) ==
    /\ SwapAndDrop(p)
    /\ phase' = "down" /\ pos' = p

Earlier(p, q) == deadline[heap[p]] < deadline[heap[q]]

\* heapUp: a turn that swaps, or the end, after which popTimer executes the
\* callback of the repeated timer it has put back.
SiftUp ==
    /\ phase = "up" /\ pos > 1 /\ Earlier(pos, pos \div 2)
    /\ HeapSwap(pos, pos \div 2)
    /\ pos' = pos \div 2
    /\ UNCHANGED <<owned, created, phase, due, running, over, moved, clock>>

SiftUpEnds ==
    /\ phase = "up" /\ ~(pos > 1 /\ Earlier(pos, pos \div 2))
    /\ phase' = "idle" /\ pos' = 1 /\ due' = {}
    /\ running' = IF due = {} THEN running ELSE due
    /\ UNCHANGED <<heap, index, owned, created, over, moved, clock>>

\* heapDown: the earlier child of p, the left one if they are equal, when it is
\* earlier than p itself.
Target(p) ==
    LET left == 2 * p
        right == 2 * p + 1
        best == IF left <= Len(heap) /\ Earlier(left, p) THEN left ELSE p
    IN  IF right <= Len(heap) /\ Earlier(right, best) THEN right ELSE best

TargetLeft(p) == IF 2 * p <= Len(heap) /\ Earlier(2 * p, p) THEN 2 * p ELSE p

SiftDownLeft ==
    /\ phase = "down" /\ 2 * pos <= Len(heap) /\ TargetLeft(pos) # pos
    /\ HeapSwap(pos, TargetLeft(pos))
    /\ pos' = TargetLeft(pos)
    /\ UNCHANGED <<owned, created, phase, due, running, over, moved, clock>>

SiftDown ==
    /\ phase = "down" /\ 2 * pos <= Len(heap) /\ Target(pos) # pos
    /\ HeapSwap(pos, Target(pos))
    /\ pos' = Target(pos)
    /\ UNCHANGED <<owned, created, phase, due, running, over, moved, clock>>

SiftDownEnds ==
    /\ phase = "down" /\ (2 * pos > Len(heap) \/ Target(pos) = pos)
    /\ phase' = IF due = {} THEN "idle" ELSE "popped"
    /\ pos' = 1
    /\ UNCHANGED <<heap, index, owned, created, due, running, over, moved, clock>>

-----------------------------------------------------------------------------
(* The operations of the queue *)

\* createTimer, on any thread
CreateTimer(t, d) ==
    /\ t \notin created \cup owned \cup over
    /\ created' = created \cup {t}
    /\ interval' = IF t \in Repeated THEN [interval EXCEPT ![t] = d] ELSE interval
    /\ deadline' = [deadline EXCEPT ![t] = now + d]
    /\ UNCHANGED <<heap, index, owned, phase, pos, due, running, over, moved, now>>

\* addTimer, on the loop thread
AddTimer(t) ==
    /\ phase = "idle" /\ t \in created
    /\ HeapInsert(t)
    /\ owned' = owned \cup {t}
    /\ created' = created \ {t}
    /\ UNCHANGED <<due, running, over, moved, clock>>

\* cancelTimer, on the loop thread, possibly from a timer's callback; a number
\* that is not in the map is ignored.
CancelKeepsHeap(t) ==
    /\ phase = "idle" /\ t \in owned
    /\ owned' = owned \ {t}
    /\ over' = over \cup {t}
    /\ UNCHANGED <<heap, index, created, phase, pos, due, running, moved, clock>>

CancelTimer(t) ==
    /\ phase = "idle" /\ t \in owned
    /\ HeapDelete(index[t])
    /\ owned' = owned \ {t}
    /\ over' = over \cup {t}
    /\ moved' = (moved \/ index[t] < Len(heap))
    /\ UNCHANGED <<created, due, running, clock>>

\* checkTimers looks at the first entry only.
checkTimersOffByOne == Len(heap) > 1 /\ deadline[heap[1]] < now

checkTimers == heap # <<>> /\ deadline[heap[1]] < now

\* popTimer: heapPop ...
PopTimer ==
    /\ phase = "idle" /\ running = {} /\ checkTimers
    /\ SwapAndDrop(1)
    /\ phase' = "down" /\ pos' = 1
    /\ due' = {heap[1]}
    /\ UNCHANGED <<owned, created, running, over, moved, clock>>

\* ... a one-shot timer leaves the map before its callback is executed ...
PopOneShot(t) ==
    /\ phase = "popped" /\ due = {t} /\ t \notin Repeated
    /\ owned' = owned \ {t}
    /\ over' = over \cup {t}
    /\ running' = {t}
    /\ due' = {} /\ phase' = "idle"
    /\ UNCHANGED <<heap, index, created, pos, moved, clock>>

\* ... a repeated one is put back first, one interval from now.
PopRepeated(t) ==
    /\ phase = "popped" /\ due = {t} /\ t \in Repeated
    /\ deadline' = [deadline EXCEPT ![t] = now + interval[t]]
    /\ HeapInsert(t)
    /\ UNCHANGED <<owned, created, due, running, interval, over, moved, now>>

CallbackReturns ==
    /\ phase = "idle" /\ running # {}
    /\ running' = {}
    /\ UNCHANGED <<heap, index, owned, created, phase, pos, due, over, moved, clock>>

Tick ==
    /\ now < MaxTime
    /\ now' = now + 1
    /\ UNCHANGED <<heap, index, owned, created, interval, deadline, phase, pos, due,
                   running, over, moved>>

LoopThread ==
    \/ SiftUp \/ SiftUpEnds \/ SiftDown \/ SiftDownEnds
    \/ PopTimer \/ CallbackReturns
    \/ \E t \in Timer : AddTimer(t) \/ PopOneShot(t) \/ PopRepeated(t)

Next ==
    \/ LoopThread \/ Tick
    \/ \E t \in Timer : CancelTimer(t) \/ \E d \in Delay : CreateTimer(t, d)

\* The loop goes on taking functors and timers, callbacks return, time passes.
Spec == Init /\ [][Next]_vars
FairSpec == Spec /\ WF_vars(LoopThread) /\ WF_vars(Tick)

-----------------------------------------------------------------------------
(* Properties *)

\* The timers the heap should hold: popTimer has one in hand for a while.
inHeap == IF phase \in {"down", "popped"} THEN owned \ due ELSE owned

\* Every variable keeps its type.
TypeOK ==
    /\ heap \in Seq(Timer) /\ index \in [Timer -> Nat]
    /\ owned \in SUBSET Timer /\ created \in SUBSET Timer
    /\ interval \in [Repeated -> Nat] /\ deadline \in [Timer -> Nat]
    /\ phase \in {"idle", "up", "down", "popped"} /\ pos \in Nat \ {0}
    /\ due \in SUBSET Timer /\ running \in SUBSET Timer /\ over \in SUBSET Timer
    /\ moved \in BOOLEAN /\ now \in 0..MaxTime

\* Heap and map hold the same timers, each once, and every timer knows where
\* it is, through any mix of insertions, cancellations and callbacks: the raw
\* pointers in the heap point to timers the map owns, and cancelTimer deletes
\* the entry of the timer it was given.
HeapMatchesMap ==
    /\ \A i \in 1..Len(heap) : heap[i] \in inHeap /\ index[heap[i]] = i
    /\ \A t \in inHeap : index[t] \in 1..Len(heap) /\ heap[index[t]] = t

\* Parents are due no later than their children, so that checkTimers sees every
\* due timer, until a cancelTimer has moved the last entry to the place of
\* another one: heapDelete does not move it up where it should.
HeapOrdered ==
    (phase = "idle" /\ ~moved) =>
        \A i \in 2..Len(heap) : deadline[heap[i \div 2]] <= deadline[heap[i]]

\* A timer that has fired for good or was cancelled is never fired again.
NoFireAfterEnd ==
    [][\A t \in over : t \in running' => t \in running]_vars

(* What keeps HeapMatchesMap and NoFireAfterEnd invariant: a timer is in one   *)
(* stage of its life at a time, and the timer popTimer has in hand is owned.   *)
Lives ==
    /\ created \cap owned = {} /\ over \cap owned = {} /\ over \cap created = {}
    /\ due \subseteq owned
    /\ phase = "idle" => due = {}
    /\ phase = "popped" => due # {}
    /\ \A t, u \in due : t = u
    /\ phase = "up" => pos \in 1..Len(heap)

IndInv == TypeOK /\ Lives /\ HeapMatchesMap

\* Every one-shot timer that was added fires at last or is cancelled, if the
\* clock can go beyond the deadlines of the timers it shares the heap with.
TimersFire ==
    \A t \in Timer \ Repeated :
        (t \in owned /\ \A u \in owned : deadline[u] < MaxTime) ~> (t \in over)
=============================================================================
