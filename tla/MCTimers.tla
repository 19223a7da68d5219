------------------------------- MODULE MCTimers -------------------------------
(***************************************************************************)
(* Three timers, one-shot and periodic, before the counter wraps.          *)
(***************************************************************************)
EXTENDS Timers

CONSTANTS t1, t2, t3
=============================================================================
