------------------------------- MODULE MCRamFS -------------------------------
(***************************************************************************)
(* RamFS with two names, paths of one and two components that go down, up, *)
(* round and nowhere, and room for a few nodes beside the root.            *)
(***************************************************************************)
EXTENDS RamFS, TLC

CONSTANTS r, n1, n2, n3, c1, c2

Relative == {<<"a">>, <<"b">>, <<"..">>, <<"..", "a">>, <<"a", "b">>, <<"b", "">>}
Absolute == {<<"">>, <<"b", "..", "a">>, <<"", "a", ".">>}

MCPath == [abs : {FALSE}, comps : Relative] \cup [abs : {TRUE}, comps : Absolute]

Interchangeable == Permutations({n1, n2, n3}) \cup Permutations({c1, c2})
=============================================================================
