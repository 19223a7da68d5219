------------------------------ MODULE LineEditor ------------------------------
(***************************************************************************)
(* The shell's line editor (kernel/shell.c): the characters of a key       *)
(* through the decoder of escape sequences to the command line, the        *)
(* history of commands, and the row of the screen the line is shown in.    *)
(*                                                                         *)
(* Characters come from the keyboard ring, which may be full: then the     *)
(* rest of a key's sequence is missing (keyboard.c:373-376).  What a       *)
(* command does is only that it prints whole lines or clears the screen;   *)
(* "sn", which runs the text editor, is left out.                          *)
(***************************************************************************)
EXTENDS Screen

CONSTANTS
  Letter,          \* the printable characters of the keyboard
  KeyChars,        \* for each key, a record as in CommandLine, what it puts
  MAX_CMD_LEN, HISTORY_SIZE,
  Output,          \* what a command may print: nothing, or whole lines
  MAX_COMMANDS,    \* bound: commands in the history
  CutKeys,         \* bound: the keys that may be cut short
  MAX_CUTS,        \* bound: keys cut short
  MAX_ROW          \* bound: the row of the cursor for a key other than Enter

PROMPT     == <<">", " ">>
PROMPT_LEN == 2
ESC_BUF    == 8

ASSUME LineEditorAssumption ==
  /\ MAX_CMD_LEN \in Nat \ {0} /\ HISTORY_SIZE \in Nat \ {0}
  /\ MAX_COMMANDS \in Nat /\ MAX_CUTS \in Nat /\ MAX_ROW \in Nat
  /\ PROMPT_LEN < SCREEN_WIDTH
  /\ Letter \cap {"\n", "BS", "NUL", "ESC"} = {}
  /\ \A out \in Output : out \in Seq(Range(out)) /\ (out # <<>> => Last(out) = "\n")
  /\ \A k \in DOMAIN KeyChars : KeyChars[k] \in Seq(Range(KeyChars[k]))

NUL == "NUL"
ESC == "ESC"
Printable == Letter \cup {"[", "~", "3", "A", "B", "C", "D", "H", "F"}

\* What the keyboard puts for a key: its character, or a sequence for a cursor key.
Puts(k, chars) ==
  \/ \E c \in Printable : k = [op |-> "insert", c |-> c] /\ chars = <<c>>
  \/ k = [op |-> "enter"]     /\ chars = <<"\n">>
  \/ k = [op |-> "backspace"] /\ chars = <<"BS">>
  \/ k = [op |-> "older"]     /\ chars = <<ESC, "[", "A">>
  \/ k = [op |-> "newer"]     /\ chars = <<ESC, "[", "B">>
  \/ k = [op |-> "left"]      /\ chars = <<ESC, "[", "D">>
  \/ k = [op |-> "right"]     /\ chars = <<ESC, "[", "C">>
  \/ k = [op |-> "home"]      /\ chars = <<ESC, "[", "H">>
  \/ k = [op |-> "end"]       /\ chars = <<ESC, "[", "F">>
  \/ k = [op |-> "delete"]    /\ chars = <<ESC, "[", "3", "~">>

ASSUME KeyboardAssumption == \A k \in DOMAIN KeyChars : Puts(k, KeyChars[k])

VARIABLES
  cmd_buffer, cmd_pos, cmd_len,
  history, history_count, history_index,
  esc_state, esc_buf,   \* esc_buf holds esc_pos characters
  screen,
  todo,                 \* the characters in the ring
  asked,                \* the key they stand for; no variable of the code
  cuts,                 \* the keys cut short so far; no variable of the code
  overrun               \* whether a line has filled its row: "now", since the last
                        \* prompt, "earlier", since the screen was last cleared,
                        \* or "never"; no variable of the code

bufVars    == <<cmd_buffer, cmd_pos, cmd_len>>
histVars   == <<history, history_count, history_index>>
escVars    == <<esc_state, esc_buf>>
editorVars == <<bufVars, histVars, escVars, screen, todo, asked, cuts, overrun>>

Cell == 0 .. MAX_CMD_LEN - 1
esc_pos == Len(esc_buf)

\* C strings: the length up to the terminator, and a copy that keeps what is behind.
StrLen(s) == CHOOSE n \in Cell : s[n] = NUL /\ \A m \in 0 .. n - 1 : s[m] # NUL
StrCpy(d, s) == [n \in Cell |-> IF n <= StrLen(s) THEN s[n] ELSE d[n]]
StrEq(s, t)  == StrLen(s) = StrLen(t) /\ \A n \in 0 .. StrLen(s) : s[n] = t[n]
Chars(s, len) == [n \in 1 .. len |-> s[n - 1]]

\* shell_init, without the lines it prints above the first prompt; the arrays of the
\* program start as zeros.
shell_init ==
  /\ cmd_buffer = [n \in Cell |-> NUL] /\ cmd_pos = 0 /\ cmd_len = 0
  /\ history = [h \in 0 .. HISTORY_SIZE - 1 |-> [n \in Cell |-> NUL]]
  /\ history_count = 0 /\ history_index = -1
  /\ esc_state = "none" /\ esc_buf = <<>>
  /\ screen = viprint(clear_screen, PROMPT)
  /\ todo = <<>> /\ asked = [op |-> "idle"] /\ cuts = 0 /\ overrun = "never"
-----------------------------------------------------------------------------
(* The line and its row.                                                   *)

\* Faulty: the row is not cleared.
RedrawOver(buf, pos, len) ==
  LET printed == viprint(set_cursor_position(screen, 0, screen.row), PROMPT \o Chars(buf, len))
  IN  /\ screen' = set_cursor_position(printed, PROMPT_LEN + pos, screen.row)
      /\ overrun' = IF PROMPT_LEN + len < SCREEN_WIDTH THEN overrun ELSE "now"

\* The line is printed again in the row of the cursor, which then returns there.
shell_redraw_line(buf, pos, len) ==
  LET cleared == set_cursor_position(clear_screen_row(screen, screen.row), 0, screen.row)
      printed == viprint(cleared, PROMPT \o Chars(buf, len))
  IN  /\ screen' = set_cursor_position(printed, PROMPT_LEN + pos, screen.row)
      /\ overrun' = IF PROMPT_LEN + len < SCREEN_WIDTH THEN overrun ELSE "now"

SetLine(buf, pos, len) ==
  /\ cmd_buffer' = buf /\ cmd_pos' = pos /\ cmd_len' = len
  /\ shell_redraw_line(buf, pos, len)

Keep == UNCHANGED <<bufVars, screen, overrun>>

\* The line with a character put in at the cursor.
Inserted(c) ==
  [n \in Cell |-> CASE n = cmd_pos -> c
                    [] n \in cmd_pos + 1 .. cmd_len -> cmd_buffer[n - 1]
                    [] OTHER -> cmd_buffer[n]]

\* Faulty: the last cell takes a character too.
InsertToTheEnd(c) ==
  IF cmd_len >= MAX_CMD_LEN THEN Keep ELSE SetLine(Inserted(c), cmd_pos + 1, cmd_len + 1)

shell_insert_char(c) ==
  IF cmd_len >= MAX_CMD_LEN - 1 THEN Keep
  ELSE SetLine(Inserted(c), cmd_pos + 1, cmd_len + 1)

\* The characters behind a cell move one to the front.
Closed(from) ==
  [n \in Cell |-> IF n \in from .. cmd_len - 2 THEN cmd_buffer[n + 1] ELSE cmd_buffer[n]]

shell_delete_char_before ==
  IF cmd_pos = 0 THEN Keep ELSE SetLine(Closed(cmd_pos - 1), cmd_pos - 1, cmd_len - 1)
shell_delete_char_at ==
  IF cmd_pos >= cmd_len THEN Keep ELSE SetLine(Closed(cmd_pos), cmd_pos, cmd_len - 1)

MoveTo(pos) == SetLine(cmd_buffer, pos, cmd_len)
shell_move_left  == IF cmd_pos > 0 THEN MoveTo(cmd_pos - 1) ELSE Keep
shell_move_right == IF cmd_pos < cmd_len THEN MoveTo(cmd_pos + 1) ELSE Keep
shell_move_home  == MoveTo(0)
shell_move_end   == MoveTo(cmd_len)
-----------------------------------------------------------------------------
(* The history.                                                            *)

KeepHistory == UNCHANGED <<history, history_count>>

\* A string becomes the line, with the cursor behind it.
LineFrom(s) == SetLine(StrCpy(cmd_buffer, s), StrLen(s), StrLen(s))

Entry(i) == history[i % HISTORY_SIZE]

\* ESC [ A
HistoryUp ==
  IF history_count = 0 THEN Keep /\ UNCHANGED histVars
  ELSE /\ history_index' = CASE history_index = -1 -> history_count - 1
                             [] history_index > 0  -> history_index - 1
                             [] OTHER              -> history_index
       /\ LineFrom(Entry(history_index'))
       /\ KeepHistory

\* ESC [ B
HistoryDown ==
  IF history_index = -1 THEN Keep /\ UNCHANGED histVars
  ELSE /\ KeepHistory
       /\ IF history_index < history_count - 1
          THEN history_index' = history_index + 1 /\ LineFrom(Entry(history_index'))
          ELSE history_index' = -1 /\ SetLine([cmd_buffer EXCEPT ![0] = NUL], 0, 0)

\* A command that repeats the last one is not added.
shell_add_history(cmd) ==
  IF history_count > 0 /\ StrEq(Entry(history_count - 1), cmd)
  THEN KeepHistory
  ELSE /\ history' = [history EXCEPT ![history_count % HISTORY_SIZE] = StrCpy(@, cmd)]
       /\ history_count' = history_count + 1

\* The commands cmd_history lists.
Listed ==
  LET start == IF history_count > HISTORY_SIZE THEN history_count - HISTORY_SIZE ELSE 0
  IN  [n \in 1 .. history_count - start |->
         LET s == Entry(start + n - 1) IN Chars(s, StrLen(s))]
-----------------------------------------------------------------------------
(* shell_feed_char.                                                        *)

\* What a command leaves of the screen: it prints, or it is "clear".
AfterCommand(s) == {viprint(s, out) : out \in Output} \cup {clear_screen}

\* The prompt of the next line.
Prompt(s) ==
  /\ screen' = viprint(s, PROMPT)
  /\ overrun' = IF s = clear_screen \/ overrun = "never" THEN "never" ELSE "earlier"
  /\ cmd_len' = 0 /\ cmd_pos' = 0 /\ history_index' = -1

\* Faulty: the line is handed over without its terminator.
EnterUnterminated ==
  LET below == cprint(screen, "\n")
  IN  /\ IF cmd_len > 0
         THEN shell_add_history(cmd_buffer) /\ \E s \in AfterCommand(below) : Prompt(s)
         ELSE KeepHistory /\ Prompt(below)
      /\ UNCHANGED cmd_buffer

Enter ==
  LET below == cprint(screen, "\n")
  IN  /\ IF cmd_len > 0
         THEN /\ cmd_buffer' = [cmd_buffer EXCEPT ![cmd_len] = NUL]
              /\ shell_add_history(cmd_buffer')
              /\ \E s \in AfterCommand(below) : Prompt(s)
         ELSE KeepHistory /\ Prompt(below) /\ UNCHANGED cmd_buffer

\* shell_handle_escape, with the sequence in buf.
shell_handle_escape(final, buf) ==
  CASE final = "A" -> HistoryUp
    [] final = "B" -> HistoryDown
    [] OTHER ->
         /\ UNCHANGED histVars
         /\ CASE final = "C" -> shell_move_right
              [] final = "D" -> shell_move_left
              [] final = "H" -> shell_move_home
              [] final = "F" -> shell_move_end
              [] final = "~" -> IF Len(buf) >= 3 /\ buf[3] = "3"
                                THEN shell_delete_char_at ELSE Keep

\* A character within an escape sequence.
InEscape(c) ==
  LET buf == Append(esc_buf, c)
  IN  IF esc_state = "start"
      THEN /\ esc_state' = IF c = "[" THEN "bracket" ELSE "none"
           /\ esc_buf' = IF c = "[" THEN buf ELSE <<>>
           /\ Keep /\ UNCHANGED histVars
      ELSE IF c \in {"A", "B", "C", "D", "H", "F", "~"}
      THEN /\ shell_handle_escape(c, buf)
           /\ esc_state' = "none" /\ esc_buf' = <<>>
      ELSE /\ IF Len(buf) < ESC_BUF - 1
              THEN esc_buf' = buf /\ UNCHANGED esc_state
              ELSE esc_state' = "none" /\ esc_buf' = <<>>
           /\ Keep /\ UNCHANGED histVars

Plain(c) ==
  /\ esc_state' = IF c = ESC THEN "start" ELSE "none"
  /\ esc_buf' = IF c = ESC THEN <<ESC>> ELSE esc_buf
  /\ CASE c = "\n"          -> Enter
       [] c = "BS"          -> shell_delete_char_before /\ UNCHANGED histVars
       [] c \in Printable   -> shell_insert_char(c) /\ UNCHANGED histVars
       [] OTHER             -> Keep /\ UNCHANGED histVars

shell_feed_char(c) == IF esc_state # "none" THEN InEscape(c) ELSE Plain(c)

\* The kernel's loop hands the next character over.
Feed ==
  /\ todo # <<>>
  /\ shell_feed_char(Head(todo))
  /\ todo' = Tail(todo)
  /\ asked' = IF todo' = <<>> THEN [op |-> "idle"] ELSE asked
  /\ UNCHANGED cuts

\* A key is pressed, and the first n of its characters find room in the ring.
Type(k, n) ==
  /\ todo = <<>>
  /\ IF k.op = "enter" THEN history_count < MAX_COMMANDS ELSE screen.row < MAX_ROW
  /\ cuts' = IF n < Len(KeyChars[k]) THEN cuts + 1 ELSE cuts
  /\ cuts' > cuts => k \in CutKeys /\ cuts' <= MAX_CUTS
  /\ todo' = SubSeq(KeyChars[k], 1, n)
  /\ asked' = IF n = Len(KeyChars[k]) /\ esc_state = "none" THEN k ELSE [op |-> "noise"]
  /\ UNCHANGED <<bufVars, histVars, escVars, screen, overrun>>

EditorNext ==
  \/ \E k \in DOMAIN KeyChars : \E n \in DOMAIN KeyChars[k] : Type(k, n)
  \/ Feed

EditorSpec == shell_init /\ [][EditorNext]_editorVars
-----------------------------------------------------------------------------
(* Properties.                                                             *)

\* Types of the variables.  Every string in the history ends within its array, the
\* cursor is within the line, the line leaves room for its terminator, and the
\* decoder's buffer is not overrun (shell.c:208, 233, 251, 283, 393).
LineInBounds ==
  /\ cmd_buffer \in [Cell -> Printable \cup {NUL}]
  /\ cmd_len \in Cell /\ cmd_pos \in 0 .. cmd_len
  /\ \A h \in DOMAIN history : \E n \in Cell : history[h][n] = NUL
  /\ history_index \in -1 .. history_count - 1
  /\ esc_pos < ESC_BUF /\ (esc_state = "none") = (esc_buf = <<>>)

\* Every whole key does its work on the line and on the history, once, and the
\* scraps of a key cut short do that of some keys (shell.c:205-395).
Line == INSTANCE CommandLine WITH
          Letter   <- Printable,
          MAX_TEXT <- MAX_CMD_LEN - 1,
          text     <- Chars(cmd_buffer, cmd_len),
          cursor   <- cmd_pos,
          past     <- Listed,
          place    <- IF history_index = -1 THEN 0 ELSE history_count - history_index
ImplementsLine == Line!LineSpec

\* The line the user sees is the line the shell holds: as long as it leaves a cell of
\* its row free, the row of the cursor shows the prompt and the line and nothing
\* else, and the cursor stands behind the characters it is behind in the line.  After
\* a line that filled its row this begins with the first character: the prompt may
\* stand in a row that holds a piece of that line.  Until the line fills its row the
\* cursor cannot leave the screen (shell.c:248-259, 272-280, screen.c:57-109).
LineShown ==
  /\ overrun # "now" => screen.row \in Rows
  /\ /\ screen.row \in Rows /\ PROMPT_LEN + cmd_len < SCREEN_WIDTH
     /\ overrun = "never" \/ cmd_len > 0
     => LET shown == PROMPT \o Chars(cmd_buffer, cmd_len)
        IN  /\ screen.col = PROMPT_LEN + cmd_pos
            /\ screen.video[screen.row] =
                 [x \in Columns |-> IF x < Len(shown) THEN shown[x + 1] ELSE " "]
=============================================================================
