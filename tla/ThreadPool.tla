------------------------------ MODULE ThreadPool ------------------------------
(***************************************************************************)
(* ThreadPool (src/src/base/ThreadPool.cpp): workers that wait on a        *)
(* condition variable for tasks, each of which ends after its first task,  *)
(* threads that hand tasks over with run(), and the owner that starts and  *)
(* stops the pool.  run() reads _stop and _workers without the mutex.      *)
(***************************************************************************)
EXTENDS Naturals, Sequences, FiniteSets

CONSTANTS PoolTask,     \* tasks, each given to run() once
          MaxWorkers,   \* bound: argument of start()
          MaxStarts     \* bound: calls of start()

ASSUME PoolAssumption == MaxWorkers \in Nat /\ MaxStarts \in Nat

VARIABLES
    poolStop,   \* _stop
    tasks,      \* _tasks
    worker,     \* _workers: the state of each thread, "begin", "waiting", "woken",
                \* "running" or "done"
    call,       \* where run(task) is, for every task
    control,    \* the owner: "idle", "starting" or "joining"
    toStart,    \* of start(): threads still to be made
    starts      \* number of calls of start() so far

poolvars == <<poolStop, tasks, worker, call, control, toStart, starts>>

PoolInit ==
    /\ poolStop = FALSE /\ tasks = <<>> /\ worker = <<>>
    /\ call = [t \in PoolTask |-> "new"]
    /\ control = "idle" /\ toStart = 0 /\ starts = 0

In(states) == {w \in DOMAIN worker : worker[w] \in states}

-----------------------------------------------------------------------------
(* ThreadPool::run: refused, executed by the caller, or pushed *)

RunChecksStop(t) ==
    /\ call[t] = "new"
    /\ call' = [call EXCEPT ![t] = IF poolStop THEN "refused" ELSE "accepted"]
    /\ UNCHANGED <<poolStop, tasks, worker, control, toStart, starts>>

RunChecksWorkers(t) ==
    /\ call[t] = "accepted"
    /\ call' = [call EXCEPT ![t] = IF worker = <<>> THEN "inline" ELSE "pushing"]
    /\ UNCHANGED <<poolStop, tasks, worker, control, toStart, starts>>

RunInline(t) ==
    /\ call[t] = "inline"
    /\ call' = [call EXCEPT ![t] = "returned"]
    /\ UNCHANGED <<poolStop, tasks, worker, control, toStart, starts>>

\* notify_one wakes one of the threads in wait(), if there is one.
NotifyOne ==
    \/ In({"waiting"}) = {} /\ UNCHANGED worker
    \/ \E w \in In({"waiting"}) : worker' = [worker EXCEPT ![w] = "woken"]

RunPushesQuietly(t) ==
    /\ call[t] = "pushing"
    /\ tasks' = Append(tasks, t)
    /\ IF tasks = <<>> THEN NotifyOne ELSE UNCHANGED worker
    /\ call' = [call EXCEPT ![t] = "returned"]
    /\ UNCHANGED <<poolStop, control, toStart, starts>>

RunPushes(t) ==
    /\ call[t] = "pushing"
    /\ tasks' = Append(tasks, t)
    /\ NotifyOne
    /\ call' = [call EXCEPT ![t] = "returned"]
    /\ UNCHANGED <<poolStop, control, toStart, starts>>

-----------------------------------------------------------------------------
(* ThreadPool::work *)

\* The predicate of wait(), evaluated with the mutex held: by a new thread, by a
\* notified one and by one that wakes up for no reason.
Work(w) ==
    /\ worker[w] \in {"begin", "woken", "waiting"}
    /\ \/ /\ poolStop
          /\ worker' = [worker EXCEPT ![w] = "done"]
          /\ UNCHANGED tasks
       \/ /\ ~poolStop /\ tasks # <<>>
          /\ worker' = [worker EXCEPT ![w] = "running"]
          /\ tasks' = Tail(tasks)
       \/ /\ ~poolStop /\ tasks = <<>>
          /\ worker' = [worker EXCEPT ![w] = "waiting"]
          /\ UNCHANGED tasks
    /\ UNCHANGED <<poolStop, call, control, toStart, starts>>

TaskReturns(w) ==
    /\ worker[w] = "running"
    /\ worker' = [worker EXCEPT ![w] = "done"]
    /\ UNCHANGED <<poolStop, tasks, call, control, toStart, starts>>

-----------------------------------------------------------------------------
(* ThreadPool::start and ThreadPool::stop *)

PoolStart(count) ==
    /\ control = "idle" /\ worker = <<>> /\ starts < MaxStarts
    /\ control' = "starting" /\ toStart' = count /\ starts' = starts + 1
    /\ UNCHANGED <<poolStop, tasks, worker, call>>

StartWorker ==
    /\ control = "starting" /\ toStart > 0
    /\ worker' = Append(worker, "begin")
    /\ toStart' = toStart - 1
    /\ UNCHANGED <<poolStop, tasks, call, control, starts>>

StartReturnsToOwner ==
    /\ control = "starting" /\ toStart = 0
    /\ control' = "idle"
    /\ UNCHANGED <<poolStop, tasks, worker, call, toStart, starts>>

PoolStopQuietly ==
    /\ control = "idle"
    /\ poolStop' = TRUE
    /\ control' = "joining"
    /\ UNCHANGED <<tasks, worker, call, toStart, starts>>

\* _stop is set and notify_all called under the mutex ...
PoolStop ==
    /\ control = "idle"
    /\ poolStop' = TRUE
    /\ worker' = [w \in DOMAIN worker |->
                    IF worker[w] = "waiting" THEN "woken" ELSE worker[w]]
    /\ control' = "joining"
    /\ UNCHANGED <<tasks, call, toStart, starts>>

\* ... every thread is joined and the vector cleared.  Nothing resets _stop.
PoolJoin ==
    /\ control = "joining"
    /\ \A w \in DOMAIN worker : worker[w] = "done"
    /\ worker' = <<>>
    /\ control' = "idle"
    /\ UNCHANGED <<poolStop, tasks, call, toStart, starts>>

-----------------------------------------------------------------------------

PoolNext ==
    \/ \E t \in PoolTask :
          RunChecksStop(t) \/ RunChecksWorkers(t) \/ RunInline(t) \/ RunPushes(t)
    \/ \E w \in DOMAIN worker : Work(w) \/ TaskReturns(w)
    \/ \E count \in 0..MaxWorkers : PoolStart(count)
    \/ StartWorker \/ StartReturnsToOwner \/ PoolStop \/ PoolJoin

Proceeds(w) == worker[w] \in {"begin", "woken"} /\ Work(w)

\* The operating system runs every thread that can run, and tasks end.  A thread
\* in wait() may wake up by itself and need not.
PoolFairness ==
    /\ \A w \in 1..MaxWorkers :
          WF_poolvars(w \in DOMAIN worker /\ (Proceeds(w) \/ TaskReturns(w)))
    /\ WF_poolvars(StartWorker \/ StartReturnsToOwner \/ PoolJoin)

PoolSpec == PoolInit /\ [][PoolNext]_poolvars /\ PoolFairness

-----------------------------------------------------------------------------
(* Properties *)

\* No wakeup is lost: while tasks are queued, as many workers are on their way
\* to the queue as there are tasks, or all that have not yet had a task are
\* (ThreadPool::run notifies once for every push, spurious wakeups may take the
\* task of a notified worker, and a worker that had its task does not return).
NoLostWakeup ==
    LET awake == Cardinality(In({"begin", "woken"}))
        idle  == Cardinality(In({"begin", "woken", "waiting"}))
    IN  ~poolStop => awake >= Len(tasks) \/ awake = idle

\* stop() returns, whatever the workers were doing and however many tasks are
\* queued, and a queued task is taken from the queue as long as a worker is left
\* that has not had a task (ThreadPool::stop, ThreadPool::work).
PoolProgress ==
    /\ (control = "joining") ~> (control = "idle")
    /\ (tasks # <<>> /\ In({"waiting"}) # {}) ~> (tasks = <<>> \/ In({"waiting"}) = {})
=============================================================================
