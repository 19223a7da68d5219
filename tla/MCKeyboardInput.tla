---------------------------- MODULE MCKeyboardInput ----------------------------
(***************************************************************************)
(* A letter, Shift, Caps Lock, a cursor key and a key with a prefix.  The  *)
(* timer and the keyboard, as in kernel.c, and a request of the slave so   *)
(* that the dispatcher's other branches are taken.                         *)
(***************************************************************************)
EXTENDS KeyboardInput, TLC

MCLower == 30 :> "a"
MCUpper == 30 :> "A"
MCControl == "a" :> "^A" @@ "A" :> "^A"
=============================================================================
