------------------------------- MODULE MCTasks -------------------------------
(***************************************************************************)
(* Four places for a task_t, used again and again by up to five tasks.     *)
(***************************************************************************)
EXTENDS Tasks

CONSTANTS p1, p2, p3, p4
=============================================================================
