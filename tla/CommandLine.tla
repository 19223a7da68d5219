----------------------------- MODULE CommandLine -----------------------------
(***************************************************************************)
(* What the shell's line editor promises, whatever way the characters of a *)
(* key reach it: a key the user presses does that key's work, once, on the *)
(* line and its cursor; the cursor keys walk through the commands that     *)
(* "history" lists, one by one; and what remains of a key that was cut     *)
(* short does the work of some keys.                                       *)
(***************************************************************************)
EXTENDS Integers, SequencesExt

CONSTANTS
  Letter,        \* the characters a line is made of
  MAX_TEXT,      \* characters a line can hold
  HISTORY_SIZE   \* commands that are listed

VARIABLES
  text,          \* the line
  cursor,        \* the characters before the cursor
  past,          \* the commands listed, the oldest first
  place,         \* how many commands back the line was taken from, 0 for none
  asked          \* the key whose characters are on their way

lineVars == <<text, cursor, past, place, asked>>

Idle  == [op |-> "idle"]
Noise == [op |-> "noise"]
Keys  == [op : {"insert"}, c : Letter] \cup
         [op : {"enter", "backspace", "delete", "left", "right", "home", "end",
                "older", "newer"}]

LineInit ==
  /\ text = <<>> /\ cursor = 0
  /\ past = <<>> /\ place = 0
  /\ asked = Idle

\* The last HISTORY_SIZE of some commands.
Latest(s) ==
  IF Len(s) <= HISTORY_SIZE THEN s ELSE SubSeq(s, Len(s) - HISTORY_SIZE + 1, Len(s))

Edit(t, c) == text' = t /\ cursor' = c /\ UNCHANGED <<past, place>>
Nothing    == UNCHANGED <<text, cursor, past, place>>

\* The line becomes a command, with the cursor behind it.
Recall(t) == text' = t /\ cursor' = Len(t) /\ UNCHANGED past

\* One command further back; from the oldest one that is listed on, some command.
Older ==
  IF past = <<>> THEN Nothing
  ELSE IF place < Len(past)
       THEN place' = place + 1 /\ Recall(past[Len(past) - place])
       ELSE place' \in {place, place + 1} /\ \E n \in DOMAIN past : Recall(past[n])

\* One command forward, to an empty line behind the newest.
Newer ==
  CASE place = 0             -> Nothing
    [] place = 1             -> place' = 0 /\ Recall(<<>>)
    [] place > Len(past) + 1 -> place' = place - 1 /\ \E n \in DOMAIN past : Recall(past[n])
    [] place \in 2 .. Len(past) + 1 ->
         place' = place - 1 /\ Recall(past[Len(past) + 2 - place])

Enter ==
  /\ text' = <<>> /\ cursor' = 0 /\ place' = 0
  /\ past' = IF text = <<>> \/ (past # <<>> /\ Last(past) = text)
             THEN past ELSE Latest(Append(past, text))

Work(k) ==
  CASE k.op = "insert"    -> IF Len(text) < MAX_TEXT
                             THEN Edit(InsertAt(text, cursor + 1, k.c), cursor + 1) ELSE Nothing
    [] k.op = "backspace" -> IF cursor > 0
                             THEN Edit(RemoveAt(text, cursor), cursor - 1) ELSE Nothing
    [] k.op = "delete"    -> IF cursor < Len(text)
                             THEN Edit(RemoveAt(text, cursor + 1), cursor) ELSE Nothing
    [] k.op = "left"      -> IF cursor > 0 THEN Edit(text, cursor - 1) ELSE Nothing
    [] k.op = "right"     -> IF cursor < Len(text) THEN Edit(text, cursor + 1) ELSE Nothing
    [] k.op = "home"      -> Edit(text, 0)
    [] k.op = "end"       -> Edit(text, Len(text))
    [] k.op = "older"     -> Older
    [] k.op = "newer"     -> Newer
    [] k.op = "enter"     -> Enter

Press == asked = Idle /\ asked' \in Keys \cup {Noise} /\ Nothing

Perform == asked \in Keys /\ asked' = Idle /\ Work(asked)

Scraps ==
  /\ asked = Noise /\ asked' \in {Noise, Idle}
  /\ Nothing \/ \E k \in Keys : Work(k)

LineNext == Press \/ Perform \/ Scraps

LineSpec == LineInit /\ [][LineNext]_lineVars
=============================================================================
