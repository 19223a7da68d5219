------------------------------ MODULE MCShutdown ------------------------------
(***************************************************************************)
(* Two modes, delays from "now" to just under half the ring of a tick      *)
(* counter that wraps after 10.                                            *)
(***************************************************************************)
EXTENDS Shutdown

Modes == {"poweroff", "reboot"}
=============================================================================
