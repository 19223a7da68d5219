------------------------------- MODULE Editor -------------------------------
(***************************************************************************)
(* The text editor (snake/snake.c): a document of lines with a cursor,     *)
(* stacks of snapshots for undo and redo, and the one file it loads and    *)
(* saves.  A key is handled to its end before the next is read, so each    *)
(* is one step.                                                            *)
(*                                                                         *)
(* kmalloc may fail wherever the code asks for memory, except while the    *)
(* editor starts: editor_init leaves fields unset when it fails, and what  *)
(* the editor does then is not defined.  Scrolling and drawing are left    *)
(* out.  A text never holds a carriage return: no key inserts one.         *)
(***************************************************************************)
EXTENDS Naturals, SequencesExt

CONSTANTS
  Char, NL,
  MAX_UNDO_LEVELS,
  TEXT_HEIGHT,     \* how far PAGE UP and PAGE DOWN go
  InitialText,     \* what the file may hold at first, from earlier sessions
  MAX_TEXT         \* bound: no key adds to a document of that many characters,
                   \* line ends included

ASSUME EditorAssumption ==
  /\ NL \notin Char
  /\ MAX_UNDO_LEVELS \in Nat \ {0} /\ TEXT_HEIGHT \in Nat \ {0}
  /\ InitialText \subseteq Seq(Char \cup {NL})
  /\ MAX_TEXT \in Nat

VARIABLES
  file,                 \* the file's text
  editing,              \* the shell is inside editor_run
  lines,                \* the document; cursor_y counts its lines from 0
  cursor_x, cursor_y,
  named,                \* filename # NULL
  modified, file_ends_with_newline,
  undo_stack, redo_stack,
  warned                \* "Error saving file" was shown after the last load or
                        \* save that succeeded; no variable of the code

document   == <<lines, cursor_x, cursor_y>>
stacks     == <<undo_stack, redo_stack>>
fileVars   == <<file, editing, named, file_ends_with_newline, warned>>
editorVars == <<document, stacks, modified, fileVars>>

Line(y) == lines[y + 1]
LastLine == Len(lines) - 1
-----------------------------------------------------------------------------
(* Texts and documents.                                                    *)

EndsWithNewline(text) == text # <<>> /\ Last(text) = NL

\* editor_parse_buffer: a newline begins a line, and one at the end ends the last.
Parsed(ls, c) == IF c = NL THEN Append(ls, <<>>)
                 ELSE [ls EXCEPT ![Len(ls)] = Append(@, c)]
Body(text) == IF EndsWithNewline(text) THEN Front(text) ELSE text
editor_parse_buffer(text) == FoldLeft(Parsed, << <<>> >>, Body(text))

\* The buffer editor_save fills.
Joining(text, l)  == text \o <<NL>> \o l
Text(ls, newline) == FoldLeft(Joining, Head(ls), Tail(ls))
                       \o (IF newline THEN <<NL>> ELSE <<>>)

EditorInit ==
  /\ file \in InitialText /\ editing = FALSE /\ named = FALSE
  /\ lines = << <<>> >> /\ cursor_x = 0 /\ cursor_y = 0
  /\ undo_stack = <<>> /\ redo_stack = <<>>
  /\ modified = FALSE /\ file_ends_with_newline = FALSE /\ warned = FALSE
-----------------------------------------------------------------------------
(* Snapshots.                                                              *)

Snapshot == [lines |-> lines, x |-> cursor_x, y |-> cursor_y]

\* undo_stack_push: a full stack loses its oldest entry.
undo_stack_push(stack, state) ==
  Append(IF Len(stack) >= MAX_UNDO_LEVELS THEN Tail(stack) ELSE stack, state)

\* The stack with a snapshot of the present, if there is memory for one.
WithSnapshot(stack) == {undo_stack_push(stack, Snapshot), stack}

\* Faulty: the mark is left as it is.
RestoreUnmarked(state) ==
  /\ lines' = state.lines /\ cursor_x' = state.x /\ cursor_y' = state.y
  /\ UNCHANGED modified

editor_state_restore(state) ==
  /\ lines' = state.lines /\ cursor_x' = state.x /\ cursor_y' = state.y
  /\ modified' = TRUE

\* Faulty: the redo stack survives a change.
ChangedKeepsRedo(ls, x, y) ==
  /\ lines' = ls /\ cursor_x' = x /\ cursor_y' = y
  /\ modified' = TRUE
  /\ undo_stack' \in WithSnapshot(undo_stack)
  /\ UNCHANGED <<redo_stack, fileVars>>

\* A change that succeeds: editor_push_undo, the change, editor_clear_redo.
Changed(ls, x, y) ==
  /\ lines' = ls /\ cursor_x' = x /\ cursor_y' = y
  /\ modified' = TRUE
  /\ undo_stack' \in WithSnapshot(undo_stack)
  /\ redo_stack' = <<>>
  /\ UNCHANGED fileVars

\* One that fails or finds nothing to change: editor_push_undo and, if that
\* pushed, editor_discard_last_undo.
Unchanged ==
  /\ undo_stack' \in {Front(undo_stack_push(undo_stack, Snapshot)), undo_stack}
  /\ UNCHANGED <<document, redo_stack, modified, fileVars>>

editor_undo ==
  /\ editing /\ undo_stack # <<>>
  /\ redo_stack' \in WithSnapshot(redo_stack)
  /\ undo_stack' = Front(undo_stack)
  /\ editor_state_restore(Last(undo_stack))
  /\ UNCHANGED fileVars

editor_redo ==
  /\ editing /\ redo_stack # <<>>
  /\ undo_stack' \in WithSnapshot(undo_stack)
  /\ redo_stack' = Front(redo_stack)
  /\ editor_state_restore(Last(redo_stack))
  /\ UNCHANGED fileVars
-----------------------------------------------------------------------------
(* Changes.                                                                *)

Room == Len(Text(lines, file_ends_with_newline)) < MAX_TEXT

Before(s, n) == SubSeq(s, 1, n)
After(s, n)  == SubSeq(s, n + 1, Len(s))

\* editor_insert_char with line_insert_char
editor_insert_char(c) ==
  /\ editing /\ Room
  /\ \/ Changed([lines EXCEPT ![cursor_y + 1] = Before(@, cursor_x) \o <<c>> \o After(@, cursor_x)],
                cursor_x + 1, cursor_y)
     \/ Unchanged

\* editor_insert_newline with line_split
editor_insert_newline ==
  /\ editing /\ Room
  /\ \/ Changed(Before(lines, cursor_y)
                  \o <<Before(Line(cursor_y), cursor_x), After(Line(cursor_y), cursor_x)>>
                  \o After(lines, cursor_y + 1),
                0, cursor_y + 1)
     \/ Unchanged

\* The document without the character at x of line y, and with lines y and y + 1
\* joined.
Without(x, y) == [lines EXCEPT ![y + 1] = Before(@, x) \o After(@, x + 1)]
Joined(y)     == Before(lines, y) \o <<Line(y) \o Line(y + 1)>> \o After(lines, y + 2)

\* Faulty: the cursor goes to the end of the line that was joined.
BackwardToEnd ==
  /\ editing
  /\ \/ cursor_x > 0 /\ Changed(Without(cursor_x - 1, cursor_y), cursor_x - 1, cursor_y)
     \/ /\ cursor_x = 0 /\ cursor_y > 0
        /\ \/ Changed(Joined(cursor_y - 1), Len(Line(cursor_y - 1)) + 1, cursor_y - 1)
           \/ Unchanged
     \/ cursor_x = 0 /\ cursor_y = 0 /\ Unchanged

\* Only joining lines needs memory.
editor_delete_backward ==
  /\ editing
  /\ \/ cursor_x > 0 /\ Changed(Without(cursor_x - 1, cursor_y), cursor_x - 1, cursor_y)
     \/ /\ cursor_x = 0 /\ cursor_y > 0
        /\ \/ Changed(Joined(cursor_y - 1), Len(Line(cursor_y - 1)), cursor_y - 1)
           \/ Unchanged
     \/ cursor_x = 0 /\ cursor_y = 0 /\ Unchanged

editor_delete_forward ==
  /\ editing
  /\ \/ cursor_x < Len(Line(cursor_y)) /\ Changed(Without(cursor_x, cursor_y), cursor_x, cursor_y)
     \/ /\ cursor_x = Len(Line(cursor_y)) /\ cursor_y < LastLine
        /\ Changed(Joined(cursor_y), cursor_x, cursor_y) \/ Unchanged
     \/ cursor_x = Len(Line(cursor_y)) /\ cursor_y = LastLine /\ Unchanged
-----------------------------------------------------------------------------
(* The cursor.                                                             *)

Least(a, b) == IF a < b THEN a ELSE b

MoveTo(x, y) == /\ cursor_x' = x /\ cursor_y' = y
                /\ UNCHANGED <<lines, stacks, modified, fileVars>>

\* To line y, and to its end where the line is shorter.
ClampTo(y) == MoveTo(Least(cursor_x, Len(Line(y))), y)

Left  == IF cursor_x > 0 THEN MoveTo(cursor_x - 1, cursor_y)
         ELSE cursor_y > 0 /\ MoveTo(Len(Line(cursor_y - 1)), cursor_y - 1)
Right == IF cursor_x < Len(Line(cursor_y)) THEN MoveTo(cursor_x + 1, cursor_y)
         ELSE cursor_y < LastLine /\ MoveTo(0, cursor_y + 1)
Up    == IF cursor_y > 0 THEN ClampTo(cursor_y - 1) ELSE MoveTo(0, 0)
Down  == IF cursor_y < LastLine THEN ClampTo(cursor_y + 1)
         ELSE MoveTo(Len(Line(cursor_y)), cursor_y)
Home  == MoveTo(0, cursor_y)
End   == MoveTo(Len(Line(cursor_y)), cursor_y)
PageUp   == ClampTo(IF cursor_y > TEXT_HEIGHT THEN cursor_y - TEXT_HEIGHT ELSE 0)
PageDown == ClampTo(Least(cursor_y + TEXT_HEIGHT, LastLine))

editor_move_cursor ==
  editing /\ (Left \/ Right \/ Up \/ Down \/ Home \/ End \/ PageUp \/ PageDown)
-----------------------------------------------------------------------------
(* Loading and saving.                                                     *)

\* A load that succeeds: a new editor takes the old one's place.  Only the name
\* may be missing, if there is no memory for it.
Loaded ==
  /\ editing' = TRUE
  /\ lines' = editor_parse_buffer(file) /\ cursor_x' = 0 /\ cursor_y' = 0
  /\ file_ends_with_newline' = EndsWithNewline(file)
  /\ named' \in BOOLEAN
  /\ modified' = FALSE /\ warned' = FALSE
  /\ undo_stack' = <<>> /\ redo_stack' = <<>>
  /\ UNCHANGED file

\* sn from the shell, and Ctrl+O, which asks nothing about unsaved changes.  A
\* load that fails changes nothing.
cmd_sn     == ~editing /\ Loaded
OpenFile   == editing /\ Loaded

Saved(text) ==
  /\ named
  /\ file' = text
  /\ modified' = FALSE /\ warned' = FALSE
  /\ UNCHANGED <<document, stacks, named, file_ends_with_newline>>

\* Without a name or memory for the buffer the file stays as it is; without
\* memory for the file's new text fs_write_file has freed the old one already.
SaveFails(text) ==
  /\ warned' = TRUE
  /\ file' \in {file} \cup (IF named /\ text # <<>> THEN {<<>>} ELSE {})
  /\ UNCHANGED <<document, stacks, named, file_ends_with_newline, modified>>

\* Ctrl+S
editor_save ==
  LET text == Text(lines, file_ends_with_newline)
  IN  /\ editing
      /\ Saved(text) \/ SaveFails(text)
      /\ UNCHANGED editing

\* editor_free
Closed ==
  /\ editing' = FALSE
  /\ lines' = << <<>> >> /\ cursor_x' = 0 /\ cursor_y' = 0
  /\ undo_stack' = <<>> /\ redo_stack' = <<>>
  /\ modified' = FALSE /\ file_ends_with_newline' = FALSE
  /\ named' = FALSE /\ warned' = FALSE

\* Ctrl+Q: with unsaved changes the user is asked; "yes" saves, and stays if that
\* fails.
Quit ==
  LET text == Text(lines, file_ends_with_newline)
  IN  /\ editing
      /\ \/ Closed /\ UNCHANGED file
         \/ modified /\ named /\ Closed /\ file' = text
         \/ modified /\ SaveFails(text) /\ UNCHANGED editing

EditorNext ==
  \/ \E c \in Char : editor_insert_char(c)
  \/ editor_insert_newline \/ editor_delete_backward \/ editor_delete_forward
  \/ editor_move_cursor \/ editor_undo \/ editor_redo
  \/ cmd_sn \/ OpenFile \/ editor_save \/ Quit

EditorSpec == EditorInit /\ [][EditorNext]_editorVars
-----------------------------------------------------------------------------
(* Properties.                                                             *)

\* A place where the cursor may be in a document.
CursorIn(ls, x, y) == y \in 0 .. Len(ls) - 1 /\ x \in 0 .. Len(ls[y + 1])

\* Types, and the cursor is in the document, in the one shown and in every one
\* undo or redo may bring back: the code indexes lines with it unchecked
\* (snake.c:786-957).
CursorInDocument ==
  /\ file \in Seq(Char \cup {NL}) /\ lines \in Seq(Seq(Char))
  /\ undo_stack \in Seq([lines : Seq(Seq(Char)), x : Nat, y : Nat])
  /\ redo_stack \in Seq([lines : Seq(Seq(Char)), x : Nat, y : Nat])
  /\ {editing, named, modified, file_ends_with_newline, warned} \subseteq BOOLEAN
  /\ CursorIn(lines, cursor_x, cursor_y)
  /\ \A s \in Range(undo_stack) \cup Range(redo_stack) : CursorIn(s.lines, s.x, s.y)

\* Without the mark the file holds the document, so the editor may be left
\* without a question, unless the user has been told that saving failed; in
\* particular, what is loaded is saved back as it was (snake.c:583-675,
\* 743-772, 1046-1067).
UnmarkedIsSaved ==
  editing /\ ~modified /\ ~warned => file = Text(lines, file_ends_with_newline)

\* The two stacks and the document implement one line of versions: undo and redo
\* take each other back, a change cuts off what was ahead, and a shortage of
\* memory loses only the version it concerns (snake.c:362-431, 845-957).
Versions == INSTANCE History WITH
  Limit <- MAX_UNDO_LEVELS,
  timeline <- [i \in 1 .. Len(undo_stack) |-> undo_stack[i].lines] \o <<lines>>
                \o [i \in 1 .. Len(redo_stack) |-> redo_stack[Len(redo_stack) + 1 - i].lines],
  now <- Len(undo_stack) + 1

ImplementsHistory == Versions!HistorySpec
=============================================================================
