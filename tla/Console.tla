------------------------------- MODULE Console -------------------------------
(***************************************************************************)
(* The keyboard ring together with the code that empties it and the        *)
(* processor's interrupt flag: the kernel's main loop (kernel.c:256-264),  *)
(* the shell it feeds, and the editor a shell command may enter, which     *)
(* reads keys in a loop of its own (kbd_read_event in snake.c).            *)
(*                                                                         *)
(* An interrupt is taken between two steps of the foreground when IF is    *)
(* set; its gate clears IF and the return restores it.  "sti; hlt" is one  *)
(* step: with IF clear the processor accepts no interrupt between the two  *)
(* instructions.  With IF already set an interrupt may come just before    *)
(* that step, after the loop has looked at the ring.                       *)
(***************************************************************************)
EXTENDS KeyBuffer

CONSTANTS
  MAX_PENDING,   \* bound: scancodes waiting in the keyboard controller
  MayEdit        \* whether the shell may start the editor

ASSUME ConsoleAssumption ==
  /\ MAX_PENDING \in Nat \ {0}
  /\ MayEdit \in BOOLEAN

VARIABLES
  IF_flag,       \* EFLAGS.IF of the foreground
  pc,            \* where the foreground is
  kbd_pending,   \* scancodes the controller has raised IRQ1 for
  protected      \* the main loop has run a cli since it was entered or came
                 \* back from the editor; no variable of the code

consoleVars == <<vars, IF_flag, pc, kbd_pending, protected>>

ShellPc  == {"sti", "hlt", "cli", "check", "get", "feed"}
EditorPc == {"e_check", "e_sti", "e_hlt", "e_get", "e_more"}

ConsoleInit ==
  /\ Init
  /\ IF_flag = TRUE      \* asm_ints_on was called long before
  /\ pc = "sti"
  /\ kbd_pending = 0
  /\ protected = FALSE

Foreground == ~in_handler /\ pc # "off"

Goto(from, to) == pc = from /\ pc' = to
-----------------------------------------------------------------------------
(* The hardware and the handler.                                           *)

\* The user does something with a key.
KeyEvent ==
  /\ kbd_pending < MAX_PENDING
  /\ kbd_pending' = kbd_pending + 1
  /\ UNCHANGED <<vars, IF_flag, pc, protected>>

\* Faulty: the editor halts again without a look at the ring.
ResumeUnchecked == CASE pc = "hlt"   -> "cli"
                     [] pc = "e_hlt" -> "e_sti"
                     [] OTHER        -> pc

\* Where the foreground resumes after an interrupt: a halted processor goes on
\* behind its hlt.
Resume == CASE pc = "hlt"   -> "cli"
            [] pc = "e_hlt" -> "e_check"
            [] OTHER        -> pc

\* IRQ1 is accepted: the gate clears IF for the handler's time.
KeyboardInterrupt ==
  /\ Foreground /\ IF_flag /\ kbd_pending > 0
  /\ \E s \in KeyOutput : keyboard_handler(s)
  /\ kbd_pending' = kbd_pending - 1
  /\ pc' = Resume
  /\ UNCHANGED <<IF_flag, protected>>

\* The handler's own steps; its cleanup returns to the foreground.
HandlerStep ==
  /\ buffer_put \/ buffer_put_full \/ handler_cleanup
  /\ UNCHANGED <<IF_flag, pc, kbd_pending, protected>>

\* IRQ0: all that matters here is that it ends a hlt.
TimerInterrupt ==
  /\ Foreground /\ IF_flag
  /\ pc \in {"hlt", "e_hlt"}
  /\ pc' = Resume
  /\ UNCHANGED <<vars, IF_flag, kbd_pending, protected>>

\* IRQ0 on the tick of a scheduled shutdown: shutdown_fire never returns.
ShutdownInterrupt ==
  /\ Foreground /\ IF_flag
  /\ pc' = "off" /\ IF_flag' = FALSE
  /\ UNCHANGED <<vars, kbd_pending, protected>>
-----------------------------------------------------------------------------
(* The main loop and the shell.                                            *)

\* Faulty: hlt without sti.
SleepNoSti == /\ Foreground /\ Goto("sti", "hlt")
              /\ UNCHANGED <<vars, IF_flag, kbd_pending, protected>>

\* sti; hlt
ShellSleep == /\ Foreground /\ Goto("sti", "hlt")
              /\ IF_flag' = TRUE
              /\ UNCHANGED <<vars, kbd_pending, protected>>

\* Faulty: no cli behind the hlt.
WakeNoCli == /\ Foreground /\ Goto("cli", "check")
             /\ UNCHANGED <<vars, IF_flag, kbd_pending>>
             /\ protected' = TRUE

\* cli
ShellWake == /\ Foreground /\ Goto("cli", "check")
             /\ IF_flag' = FALSE
             /\ UNCHANGED <<vars, kbd_pending>>
             /\ protected' = TRUE

\* while (keyboard_has_char())
ShellCheck == /\ Foreground
              /\ Goto("check", IF keyboard_has_char THEN "get" ELSE "sti")
              /\ UNCHANGED <<vars, IF_flag, kbd_pending, protected>>

\* c = keyboard_get_char()
ShellGet == /\ Foreground
            /\ \/ get_char_read /\ Goto("get", "get")
               \/ get_char_advance /\ Goto("get", "feed")
            /\ UNCHANGED <<IF_flag, kbd_pending, protected>>

\* shell_feed_char(c), whose command may be the editor.
ShellFeed ==
  /\ Foreground
  /\ \/ Goto("feed", "check") /\ UNCHANGED protected
     \/ MayEdit /\ Goto("feed", "e_check") /\ protected' = FALSE
  /\ UNCHANGED <<vars, IF_flag, kbd_pending>>

\* while (!keyboard_has_char())
EditorCheck == /\ Foreground
               /\ Goto("e_check", IF keyboard_has_char THEN "e_get" ELSE "e_sti")
               /\ UNCHANGED <<vars, IF_flag, kbd_pending, protected>>

\* sti; hlt, with no cli behind it
EditorSleep == /\ Foreground /\ Goto("e_sti", "e_hlt")
               /\ IF_flag' = TRUE
               /\ UNCHANGED <<vars, kbd_pending, protected>>

\* keyboard_get_char()
EditorGet == /\ Foreground
             /\ \/ get_char_read /\ Goto("e_get", "e_get")
                \/ get_char_advance /\ Goto("e_get", "e_more")
             /\ UNCHANGED <<IF_flag, kbd_pending, protected>>

\* Inside an escape sequence one more character is read if there is one; an
\* event that is complete, or a sequence that is given up, is followed by the
\* next event or by the return to the shell's loop.
EditorEvent == /\ Foreground
               /\ \/ Goto("e_more", "e_check")
                  \/ keyboard_has_char /\ Goto("e_more", "e_get")
                  \/ Goto("e_more", "check")
               /\ UNCHANGED <<vars, IF_flag, kbd_pending, protected>>

Shell  == ShellSleep \/ ShellWake \/ ShellCheck \/ ShellGet \/ ShellFeed
Editor == EditorCheck \/ EditorSleep \/ EditorGet \/ EditorEvent

ConsoleNext == \/ KeyEvent \/ KeyboardInterrupt \/ HandlerStep
               \/ TimerInterrupt \/ ShutdownInterrupt
               \/ Shell \/ Editor

ConsoleSpec == ConsoleInit /\ [][ConsoleNext]_consoleVars

\* The processor executes the handler it is in.  Interrupts are rarer than
\* instructions, so the foreground is not shut out by them for ever; the timer
\* goes on ticking and a raised IRQ1 is accepted when IF is set often enough.
Fairness == /\ WF_consoleVars(HandlerStep)
            /\ SF_consoleVars(Shell \/ Editor)
            /\ WF_consoleVars(TimerInterrupt)
            /\ SF_consoleVars(KeyboardInterrupt)

FairConsoleSpec == ConsoleSpec /\ Fairness
-----------------------------------------------------------------------------
(* Properties.                                                             *)

\* Types of the console's own variables.
ConsoleTypeOK ==
  /\ TypeOK
  /\ IF_flag \in BOOLEAN
  /\ pc \in ShellPc \cup EditorPc \cup {"off"}
  /\ kbd_pending \in 0 .. MAX_PENDING
  /\ protected \in BOOLEAN

\* The main loop never sleeps on a character that is already in the ring, from
\* a cli of its own on until it enters the editor: kernel.c:258-260 looks at the
\* ring with interrupts off and turns them on together with the hlt.
NoOversleep ==
  /\ ConsoleTypeOK
  /\ protected /\ pc = "hlt" => key_head = key_tail

\* Every character that entered the ring is read, or the machine goes down: in
\* the shell and in the editor, even where the editor's check-then-sleep
\* (snake.c:162-163) missed its interrupt, since the timer ends that sleep.
EveryCharacterRead ==
  \A i \in Index : (key_tail = i /\ key_head # i) ~> (key_tail # i \/ pc = "off")

\* A raised keyboard interrupt is eventually accepted: no path through the loop
\* and the editor leaves interrupts off for good (kernel.c:258-263).
KeyInterruptServed ==
  (kbd_pending > 0) ~> (in_handler \/ pc = "off")
=============================================================================
