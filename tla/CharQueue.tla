------------------------------ MODULE CharQueue ------------------------------
(***************************************************************************)
(* What the keyboard buffer promises its two users: a bounded FIFO of      *)
(* characters.  The interrupt handler appends (a character that does not   *)
(* fit is lost), the reader takes the oldest character, or NUL when there  *)
(* is none.  KeyBuffer implements it with two indices over an array.       *)
(***************************************************************************)
EXTENDS Naturals, Sequences

CONSTANTS
  Char,      \* the characters keys produce
  NUL,       \* what a read of the empty queue returns
  Capacity   \* how many characters the queue holds

VARIABLES
  queue,     \* the characters accepted and not yet read, oldest first
  ret        \* what the last read returned

qvars == <<queue, ret>>

QInit == queue = <<>> /\ ret = NUL

\* A character arrives and is kept.
Put(c) == /\ Len(queue) < Capacity
          /\ queue' = Append(queue, c)
          /\ UNCHANGED ret

\* The reader takes the oldest character.
Get == /\ queue # <<>>
       /\ ret' = Head(queue)
       /\ queue' = Tail(queue)

\* The reader finds nothing.
GetNothing == /\ queue = <<>>
              /\ ret' = NUL
              /\ UNCHANGED queue

QNext == (\E c \in Char : Put(c)) \/ Get \/ GetNothing

QSpec == QInit /\ [][QNext]_qvars
=============================================================================
