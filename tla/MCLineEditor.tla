----------------------------- MODULE MCLineEditor -----------------------------
(***************************************************************************)
(* One letter and the keys of the line editor, with the characters         *)
(* keyboard.c puts for them.                                               *)
(***************************************************************************)
EXTENDS LineEditor

Does(o) == [op |-> o]
TheLetter == [op |-> "insert", c |-> "a"]

MCLetter == {"a"}
MCKeyChars ==
  TheLetter         :> <<"a">>
  @@ Does("enter")     :> <<"\n">>
  @@ Does("backspace") :> <<"BS">>
  @@ Does("left")      :> <<ESC, "[", "D">>
  @@ Does("right")     :> <<ESC, "[", "C">>
  @@ Does("end")       :> <<ESC, "[", "F">>
  @@ Does("home")      :> <<ESC, "[", "H">>
  @@ Does("older")     :> <<ESC, "[", "A">>
  @@ Does("newer")     :> <<ESC, "[", "B">>
  @@ Does("delete")    :> <<ESC, "[", "3", "~">>
MCCutKeys == {Does("left"), Does("older"), Does("delete")}
MCOutput == {<<>>, <<"!", "\n">>}
=============================================================================
