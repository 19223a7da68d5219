------------------------------ MODULE KeyBuffer ------------------------------
(***************************************************************************)
(* The keyboard's character ring (drivers/keyboard/keyboard.c): a single   *)
(* producer, the IRQ1 handler, and a single consumer, whoever calls        *)
(* keyboard_has_char / keyboard_get_char (the shell's loop in kernel.c or  *)
(* the editor's kbd_read_event).  There is no lock: the handler may        *)
(* interrupt the consumer between any two of its accesses to the ring,     *)
(* while the consumer never runs inside the handler (one processor).       *)
(*                                                                         *)
(* A key event is abstracted to what it makes the handler put into the     *)
(* ring: nothing (a release, a modifier), one character, or an escape      *)
(* sequence of three or four characters.                                   *)
(***************************************************************************)
EXTENDS Integers, Sequences

CONSTANTS
  KB_BUFFER_SIZE,   \* number of slots; one of them always stays empty
  Char,             \* the characters
  NUL,              \* '\0': the ring's initial content, and "no character"
  KeyOutput         \* the sequences of characters one key event may emit

ASSUME KeyBufferAssumption ==
  /\ KB_BUFFER_SIZE \in Nat /\ KB_BUFFER_SIZE >= 2
  /\ NUL \notin Char
  /\ KeyOutput \subseteq Seq(Char)

VARIABLES
  key_buffer, key_head, key_tail, buffer_overflow,
  in_handler,       \* the processor is inside keyboard_handler
  out,              \* what the handler has still to put
  reading,          \* the consumer is inside buffer_get, past its read of the slot
  slot,             \* the local c of buffer_get
  ret               \* the value the last keyboard_get_char returned

ringVars    == <<key_buffer, key_head, key_tail, buffer_overflow>>
handlerVars == <<in_handler, out>>
readerVars  == <<reading, slot, ret>>
vars        == <<ringVars, handlerVars, readerVars>>

Index == 0 .. KB_BUFFER_SIZE - 1

\* The next index, going round.
Succ(i) == (i + 1) % KB_BUFFER_SIZE

\* Faulty: one slot more is kept free.
FullOneEarly == Succ(Succ(key_head)) = key_tail

buffer_is_full == Succ(key_head) = key_tail

keyboard_has_char == key_head # key_tail

Init ==
  /\ key_buffer = [i \in Index |-> NUL]
  /\ key_head = 0 /\ key_tail = 0
  /\ buffer_overflow = FALSE
  /\ in_handler = FALSE /\ out = <<>>
  /\ reading = FALSE /\ slot = NUL /\ ret = NUL
-----------------------------------------------------------------------------
(* The handler.  It runs with interrupts off from entry to return.         *)

\* IRQ1 is delivered and the handler decodes the scancode into s.
keyboard_handler(s) ==
  /\ ~in_handler
  /\ in_handler' = TRUE
  /\ out' = s
  /\ UNCHANGED <<ringVars, readerVars>>

\* Faulty: the slot is written after key_head has moved on.
PutBehindHead ==
  /\ in_handler /\ out # <<>>
  /\ ~buffer_is_full
  /\ key_buffer' = [key_buffer EXCEPT ![Succ(key_head)] = Head(out)]
  /\ key_head' = Succ(key_head)
  /\ out' = Tail(out)
  /\ UNCHANGED <<key_tail, buffer_overflow, in_handler, readerVars>>

\* buffer_put of the next character when there is room.
buffer_put ==
  /\ in_handler /\ out # <<>>
  /\ ~buffer_is_full
  /\ key_buffer' = [key_buffer EXCEPT ![key_head] = Head(out)]
  /\ key_head' = Succ(key_head)
  /\ out' = Tail(out)
  /\ UNCHANGED <<key_tail, buffer_overflow, in_handler, readerVars>>

\* Faulty: a full ring loses its oldest character.
FullDropsOldest ==
  /\ in_handler /\ out # <<>>
  /\ buffer_is_full
  /\ buffer_overflow' = TRUE
  /\ key_tail' = Succ(key_tail)
  /\ UNCHANGED <<key_buffer, key_head, out, in_handler, readerVars>>


\* buffer_put when there is none: the rest of the sequence is dropped.
buffer_put_full ==
  /\ in_handler /\ out # <<>>
  /\ buffer_is_full
  /\ buffer_overflow' = TRUE
  /\ out' = <<>>
  /\ UNCHANGED <<key_buffer, key_head, key_tail, in_handler, readerVars>>

\* The cleanup label, and the return from the interrupt.
handler_cleanup ==
  /\ in_handler /\ out = <<>>
  /\ buffer_overflow' = (buffer_overflow /\ buffer_is_full)
  /\ in_handler' = FALSE
  /\ UNCHANGED <<key_buffer, key_head, key_tail, out, readerVars>>
-----------------------------------------------------------------------------
(* The consumer, one access to the shared ring per step.                   *)

\* keyboard_get_char on an empty ring.
get_char_empty ==
  /\ ~in_handler /\ ~reading
  /\ key_head = key_tail
  /\ ret' = NUL
  /\ UNCHANGED <<ringVars, handlerVars, reading, slot>>

\* keyboard_get_char on a non-empty ring: buffer_get reads the slot ...
get_char_read ==
  /\ ~in_handler /\ ~reading
  /\ key_head # key_tail
  /\ slot' = key_buffer[key_tail]
  /\ reading' = TRUE
  /\ UNCHANGED <<ringVars, handlerVars, ret>>

\* ... then releases it and returns the character.
get_char_advance ==
  /\ ~in_handler /\ reading
  /\ key_tail' = Succ(key_tail)
  /\ ret' = slot
  /\ reading' = FALSE
  /\ UNCHANGED <<key_buffer, key_head, buffer_overflow, handlerVars, slot>>

Handler == \/ \E s \in KeyOutput : keyboard_handler(s)
           \/ buffer_put \/ buffer_put_full \/ handler_cleanup

Reader == get_char_empty \/ get_char_read \/ get_char_advance

Next == Handler \/ Reader

Spec == Init /\ [][Next]_vars
-----------------------------------------------------------------------------
(* Properties.                                                             *)

\* Types of the variables.
TypeOK ==
  /\ key_buffer \in [Index -> Char \cup {NUL}]
  /\ key_head \in Index /\ key_tail \in Index
  /\ buffer_overflow \in BOOLEAN
  /\ in_handler \in BOOLEAN /\ out \in Seq(Char)
  /\ reading \in BOOLEAN
  /\ slot \in Char \cup {NUL} /\ ret \in Char \cup {NUL}

\* The number of characters waiting, and the slot of the n-th of them
\* (n counted from 0).
Count   == (key_head + KB_BUFFER_SIZE - key_tail) % KB_BUFFER_SIZE
Slot(n) == (key_tail + n) % KB_BUFFER_SIZE

\* The slots of the waiting characters.
Occupied == {Slot(n) : n \in 0 .. Count - 1}

\* Every waiting slot holds a character, never the '\0' of an unwritten slot
\* (keyboard.c:107-123: the slot is written before key_head publishes it).
WaitingSlotsWritten == \A i \in Occupied : key_buffer[i] \in Char

\* What buffer_get read is what its slot holds until it releases it, whatever
\* the handler puts in between (keyboard.c:119-123 runs with interrupts on
\* under the editor).
ReaderSlotStable ==
  reading => /\ key_head # key_tail
             /\ slot = key_buffer[key_tail]

\* Both together: a slot is neither exposed before it is written nor written
\* again before it is released (keyboard.c:107-123).
SlotsKept == WaitingSlotsWritten /\ ReaderSlotStable

\* The handler drops a character only when every slot but one holds an unread
\* character: the index test of buffer_is_full means a full ring
\* (keyboard.c:103-112).
DropsOnlyAtCapacity ==
  [][Len(out') < Len(out) /\ key_head' = key_head => Count = KB_BUFFER_SIZE - 1]_vars

\* The ring implements the bounded FIFO: a character that is accepted is
\* returned exactly once and in order (keyboard.c:103-132).
Queue == INSTANCE CharQueue WITH
           queue <- [n \in 1 .. Count |-> key_buffer[Slot(n - 1)]],
           Capacity <- KB_BUFFER_SIZE - 1

ImplementsQueue == Queue!QSpec
=============================================================================
