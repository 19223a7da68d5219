------------------------------ MODULE MCConsole ------------------------------
(***************************************************************************)
(* Console with a ring of four slots: a key that emits nothing, one that   *)
(* emits one character, and one that emits a sequence of three.            *)
(***************************************************************************)
EXTENDS Console

CONSTANTS a, b

MCChar == {a, b}
MCKeyOutput == {<<>>, <<a>>, <<a, b, b>>}
=============================================================================
