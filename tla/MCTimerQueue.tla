---------------------------- MODULE MCTimerQueue ----------------------------
(* TimerQueue with two addresses, so that the memory of a deleted Timer is  *)
(* reused, expirations before and after the call, and one-shot and          *)
(* repeating timers.                                                        *)
EXTENDS TimerQueue

MCDelays == {-1, 2}
=============================================================================
