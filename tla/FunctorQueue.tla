---------------------------- MODULE FunctorQueue ----------------------------
(***************************************************************************)
(* What queueInLoop promises its callers (src/src/net/EventLoop.h): every  *)
(* functor handed to a loop waits in one line and is executed once, in the *)
(* order the calls were made.  How the line is cut into the vector behind  *)
(* the mutex and the batch being executed is not visible here.             *)
(***************************************************************************)
EXTENDS Sequences

CONSTANT Functor        \* everything that can be queued

VARIABLES line,         \* queued and not yet executed, oldest first
          done          \* executed, oldest first

qvars == <<line, done>>

QInit == line = <<>> /\ done = <<>>

Submit(f) ==
    /\ line' = Append(line, f)
    /\ UNCHANGED done

Execute ==
    /\ line # <<>>
    /\ done' = Append(done, Head(line))
    /\ line' = Tail(line)

QNext == Execute \/ \E f \in Functor : Submit(f)

QSpec == QInit /\ [][QNext]_qvars
=============================================================================
