--------------------------- MODULE SerialExecutor ---------------------------
(***************************************************************************)
(* What jnet::EventLoop promises the callers of QueueInLoop and RunInLoop  *)
(* (net/eventloop.h:34-37): functors handed over by any thread are         *)
(* executed one at a time, in the order in which they were handed over,    *)
(* each at most once, until the loop stops.  How the loop thread is woken, *)
(* how the queue is swapped out and what else the loop does is left to     *)
(* EventLoop, which is shown to implement this module.                     *)
(***************************************************************************)
EXTENDS Naturals, Sequences

CONSTANT Functors

VARIABLES posted,   \* every functor handed over so far, in order
          ran,      \* every functor executed so far, in order
          stopped   \* the loop has returned, or the process is gone

vars == <<posted, ran, stopped>>

Init == posted = <<>> /\ ran = <<>> /\ stopped = FALSE

Post(f) ==
    /\ posted' = Append(posted, f)
    /\ UNCHANGED <<ran, stopped>>

\* The next functor to execute is the oldest one not yet executed.
Run ==
    /\ ~stopped
    /\ Len(ran) < Len(posted)
    /\ ran' = Append(ran, posted[Len(ran) + 1])
    /\ UNCHANGED <<posted, stopped>>

Stop ==
    /\ ~stopped
    /\ stopped' = TRUE
    /\ UNCHANGED <<posted, ran>>

Next == (\E f \in Functors : Post(f)) \/ Run \/ Stop

Spec == Init /\ [][Next]_vars
=============================================================================
