--------------------------- MODULE MCShutdownDelay ---------------------------
(***************************************************************************)
(* Delays of nothing, a second, a minute, an hour, the longest that can be *)
(* told (42949 s), the next one, and longer ones up to the largest word.   *)
(***************************************************************************)
EXTENDS ShutdownDelay

FarSeconds == {<<0, 0>>, <<0, 1>>, <<0, 60>>, <<0, 3600>>, <<0, 42949>>,
               <<0, 42950>>, <<0, 65535>>, <<65, 35296>>, <<65535, 65535>>}
Pauses     == {<<0, 1>>, <<0, 99>>, <<0, 4550>>, <<5, 20000>>}
=============================================================================
