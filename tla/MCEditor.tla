------------------------------ MODULE MCEditor ------------------------------
(***************************************************************************)
(* Editor with one printable character and stacks that are full after two  *)
(* snapshots.  The file is empty at first, or has two lines, the second    *)
(* with or without a line end.                                             *)
(***************************************************************************)
EXTENDS Editor

CONSTANTS ch

MCInitialText == {<<>>, <<ch, NL, ch>>, <<ch, NL, ch, NL>>}
=============================================================================
