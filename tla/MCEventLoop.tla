----------------------------- MODULE MCEventLoop -----------------------------
(***************************************************************************)
(* Two threads beside the loop's own, three functors and one channel: a    *)
(* functor can be queued from inside a callback, another from inside a     *)
(* functor, while a third comes from a thread that is between its append   *)
(* and its write to the eventfd.                                           *)
(***************************************************************************)
EXTENDS EventLoop, TLC

=============================================================================
