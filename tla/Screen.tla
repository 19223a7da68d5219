-------------------------------- MODULE Screen --------------------------------
(***************************************************************************)
(* The text screen (drivers/screen/screen.c): the cells of the video       *)
(* memory and the cursor, and what printing a character does to them.      *)
(* Colours are left out.  A screen is a record, and an operation a         *)
(* function from screens to screens.                                       *)
(***************************************************************************)
EXTENDS Integers, SequencesExt

CONSTANTS SCREEN_WIDTH, SCREEN_HEIGHT

ASSUME ScreenAssumption ==
  SCREEN_WIDTH \in Nat \ {0} /\ SCREEN_HEIGHT \in Nat \ {0}

Rows    == 0 .. SCREEN_HEIGHT - 1
Columns == 0 .. SCREEN_WIDTH - 1
Blank   == [x \in Columns |-> " "]

\* A write below the last row changes memory that no operation shows again.
Write(s, c) ==
  IF s.row \in Rows THEN [s EXCEPT !.video[s.row][s.col] = c] ELSE s

\* The cursor goes where set_cursor_offset finds that cell, perhaps in a later row.
set_cursor_position(s, x, y) ==
  [s EXCEPT !.row = (y * SCREEN_WIDTH + x) \div SCREEN_WIDTH,
            !.col = (y * SCREEN_WIDTH + x) % SCREEN_WIDTH]

scroll(s) ==
  [video |-> [y \in Rows |-> IF y + 1 \in Rows THEN s.video[y + 1] ELSE Blank],
   row   |-> SCREEN_HEIGHT - 1,
   col   |-> 0]

Scrolled(s) == IF s.row >= SCREEN_HEIGHT THEN scroll(s) ELSE s

\* A newline or a character; nothing the shell prints holds a backspace.
cprint(s, c) ==
  IF c = "\n" THEN Scrolled([s EXCEPT !.row = @ + 1, !.col = 0])
  ELSE LET w == Write(s, c)
       IN  Scrolled(IF s.col + 1 < SCREEN_WIDTH
                    THEN [w EXCEPT !.col = @ + 1]
                    ELSE [w EXCEPT !.col = 0, !.row = @ + 1])

viprint(s, text) == FoldLeft(cprint, s, text)

clear_screen_row(s, y) == IF y \in Rows THEN [s EXCEPT !.video[y] = Blank] ELSE s

clear_screen == [video |-> [y \in Rows |-> Blank], row |-> 0, col |-> 0]
=============================================================================
