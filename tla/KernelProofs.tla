----------------------------- MODULE KernelProofs -----------------------------
(***************************************************************************)
(* Proofs about the character ring, for every ring size, alphabet and set  *)
(* of key outputs: the type invariant, the inductive invariant, and that   *)
(* the ring implements the bounded FIFO of CharQueue.  Then about the      *)
(* console on top of it: whatever loops empty the ring and whenever        *)
(* interrupts are taken, the console's steps are steps of the ring, and    *)
(* the main loop never sleeps on a character.  The first part uses nothing *)
(* of Console.                                                             *)
(*                                                                         *)
(* And about the tasks the kernel switches between, for any number of      *)
(* places, tasks and pids: what the queue links is what is allocated, only *)
(* the current task runs, and no task is overtaken twice by the same one.  *)
(***************************************************************************)
EXTENDS Console, Tasks, FoldLemmas, SequenceTheorems, FiniteSetTheorems

\* The index arithmetic without the modulus.
LEMMA SuccValue ==
  ASSUME NEW i \in Index
  PROVE  /\ Succ(i) = (IF i + 1 = KB_BUFFER_SIZE THEN 0 ELSE i + 1)
         /\ Succ(i) \in Index
  BY KeyBufferAssumption DEF Index, Succ

\* How many slots lie between two indices going round.
LEMMA DistanceValue ==
  ASSUME NEW h \in Index, NEW t \in Index
  PROVE  /\ (h + KB_BUFFER_SIZE - t) % KB_BUFFER_SIZE
              = (IF t <= h THEN h - t ELSE h + KB_BUFFER_SIZE - t)
         /\ (h + KB_BUFFER_SIZE - t) % KB_BUFFER_SIZE \in 0 .. KB_BUFFER_SIZE - 1
  BY KeyBufferAssumption DEF Index

\* The n-th slot from an index going round.
LEMMA OffsetValue ==
  ASSUME NEW t \in Index, NEW n \in Index
  PROVE  /\ (t + n) % KB_BUFFER_SIZE
              = (IF t + n < KB_BUFFER_SIZE THEN t + n ELSE t + n - KB_BUFFER_SIZE)
         /\ (t + n) % KB_BUFFER_SIZE \in Index
  BY KeyBufferAssumption DEF Index

-----------------------------------------------------------------------------
\* The types hold at first (keyboard.c:37-40).
LEMMA TypeInit == Init => TypeOK
  BY KeyBufferAssumption DEF Init, TypeOK, Index

\* Every step of the handler and of the reader keeps the types
\* (keyboard.c:107-132).
LEMMA TypeNext == TypeOK /\ [Next]_vars => TypeOK'
<1> SUFFICES ASSUME TypeOK, [Next]_vars PROVE TypeOK'
  OBVIOUS
<1> USE DEF TypeOK
<1>1. ASSUME NEW s \in KeyOutput, keyboard_handler(s) PROVE TypeOK'
  BY <1>1, KeyBufferAssumption DEF keyboard_handler, ringVars, readerVars
<1>2. CASE buffer_put
  <2>1. Head(out) \in Char /\ Tail(out) \in Seq(Char)
    BY <1>2 DEF buffer_put
  <2>2. key_head' \in Index
    BY <1>2, SuccValue DEF buffer_put
  <2> QED
    BY <1>2, <2>1, <2>2 DEF buffer_put, readerVars
<1>3. CASE buffer_put_full
  BY <1>3 DEF buffer_put_full, readerVars
<1>4. CASE handler_cleanup
  BY <1>4 DEF handler_cleanup, readerVars
<1>5. CASE get_char_empty
  BY <1>5 DEF get_char_empty, ringVars, handlerVars
<1>6. CASE get_char_read
  BY <1>6 DEF get_char_read, ringVars, handlerVars
<1>7. CASE get_char_advance
  BY <1>7, SuccValue DEF get_char_advance, handlerVars
<1>8. CASE UNCHANGED vars
  BY <1>8 DEF vars, ringVars, handlerVars, readerVars
<1> QED
  BY <1>1, <1>2, <1>3, <1>4, <1>5, <1>6, <1>7, <1>8 DEF Next, Handler, Reader

\* The types are an invariant of the ring (keyboard.c:37-40 and 103-132).
THEOREM TypeCorrect == Spec => []TypeOK
  BY TypeInit, TypeNext, PTL DEF Spec

-----------------------------------------------------------------------------
\* What the count and the slots are worth in a well-typed state.
LEMMA CountFacts ==
  ASSUME TypeOK
  PROVE  /\ Count = (IF key_tail <= key_head THEN key_head - key_tail
                     ELSE key_head + KB_BUFFER_SIZE - key_tail)
         /\ Count \in 0 .. KB_BUFFER_SIZE - 1
         /\ (Count = 0) <=> (key_head = key_tail)
         /\ (Count = KB_BUFFER_SIZE - 1) <=> buffer_is_full
         /\ Slot(Count) = key_head
         /\ Slot(0) = key_tail
<1> USE KeyBufferAssumption DEF TypeOK
<1>1. /\ Count = (IF key_tail <= key_head THEN key_head - key_tail
                  ELSE key_head + KB_BUFFER_SIZE - key_tail)
      /\ Count \in Index
  BY DistanceValue DEF Count, Index
<1>2. Slot(Count) = key_head
  <2>1. Slot(Count) = (IF key_tail + Count < KB_BUFFER_SIZE THEN key_tail + Count
                       ELSE key_tail + Count - KB_BUFFER_SIZE)
    BY <1>1, OffsetValue DEF Slot
  <2> QED
    BY <1>1, <2>1 DEF Index
<1>3. Slot(0) = key_tail
  <2>1. 0 \in Index
    BY DEF Index
  <2>2. Slot(0) = (IF key_tail + 0 < KB_BUFFER_SIZE THEN key_tail + 0
                   ELSE key_tail + 0 - KB_BUFFER_SIZE)
    BY <2>1, OffsetValue DEF Slot
  <2> QED
    BY <2>2 DEF Index
<1>4. (Count = KB_BUFFER_SIZE - 1) <=> buffer_is_full
  <2>1. Succ(key_head) = (IF key_head + 1 = KB_BUFFER_SIZE THEN 0 ELSE key_head + 1)
    BY SuccValue
  <2> QED
    BY <1>1, <2>1 DEF buffer_is_full, Index
<1>5. (Count = 0) <=> (key_head = key_tail)
  BY <1>1 DEF Index
<1>6. Count \in 0 .. KB_BUFFER_SIZE - 1
  BY <1>1 DEF Index
<1> QED
  BY <1>1, <1>2, <1>3, <1>4, <1>5, <1>6

\* The facts the next state is compared with.
LEMMA CountFactsNext ==
  ASSUME TypeOK'
  PROVE  /\ (Count' = 0) <=> (key_head' = key_tail')
         /\ Count' \in 0 .. KB_BUFFER_SIZE - 1
         /\ Slot(0)' = key_tail'
<1> USE KeyBufferAssumption DEF TypeOK
<1>1. /\ Count' = (IF key_tail' <= key_head' THEN key_head' - key_tail'
                   ELSE key_head' + KB_BUFFER_SIZE - key_tail')
      /\ Count' \in 0 .. KB_BUFFER_SIZE - 1
  BY DistanceValue DEF Count
<1>2. Slot(0)' = key_tail'
  <2>1. 0 \in Index
    BY DEF Index
  <2>2. key_tail' \in Index
    OBVIOUS
  <2>3. (key_tail' + 0) % KB_BUFFER_SIZE
          = (IF key_tail' + 0 < KB_BUFFER_SIZE THEN key_tail' + 0
             ELSE key_tail' + 0 - KB_BUFFER_SIZE)
    BY <2>1, <2>2, OffsetValue
  <2> QED
    BY <2>2, <2>3 DEF Index, Slot
<1> QED
  BY <1>1, <1>2 DEF Index

\* A slot before the head's is not the head's.
LEMMA SlotBelowHead ==
  ASSUME TypeOK, NEW n \in 0 .. Count - 1
  PROVE  n \in Index /\ Slot(n) \in Index /\ Slot(n) # key_head
<1> USE KeyBufferAssumption DEF TypeOK
<1>1. n \in Index
  BY CountFacts DEF Index
<1>2. /\ Slot(n) = (IF key_tail + n < KB_BUFFER_SIZE THEN key_tail + n
                    ELSE key_tail + n - KB_BUFFER_SIZE)
      /\ Slot(n) \in Index
  BY <1>1, OffsetValue DEF Slot
<1> QED
  BY <1>1, <1>2, CountFacts DEF Index

\* What buffer_put does to the count and to the waiting slots.
LEMMA PutEffect ==
  ASSUME TypeOK, TypeOK', buffer_put
  PROVE  /\ Count' = Count + 1
         /\ Count < KB_BUFFER_SIZE - 1
         /\ \A n : Slot(n)' = Slot(n)
         /\ \A n \in 0 .. Count - 1 : key_buffer'[Slot(n)] = key_buffer[Slot(n)]
         /\ key_buffer'[Slot(Count)] = Head(out)
<1> USE KeyBufferAssumption DEF TypeOK
<1>1. key_head' = Succ(key_head) /\ key_tail' = key_tail /\ ~buffer_is_full
  BY DEF buffer_put
<1>2. key_buffer' = [key_buffer EXCEPT ![key_head] = Head(out)]
  BY DEF buffer_put
<1>3. Count' = (IF key_tail' <= key_head' THEN key_head' - key_tail'
                ELSE key_head' + KB_BUFFER_SIZE - key_tail')
  BY DistanceValue DEF Count
<1>4. Count' = Count + 1 /\ Count < KB_BUFFER_SIZE - 1
  <2>1. Succ(key_head) = (IF key_head + 1 = KB_BUFFER_SIZE THEN 0 ELSE key_head + 1)
    BY SuccValue
  <2> QED
    BY <1>1, <1>3, <2>1, CountFacts DEF Index, buffer_is_full
<1>5. \A n : Slot(n)' = Slot(n)
  BY <1>1 DEF Slot
<1> QED
  BY <1>2, <1>4, <1>5, SlotBelowHead, CountFacts

\* What the reader's release does to the count and to the waiting slots.
LEMMA AdvanceEffect ==
  ASSUME TypeOK, TypeOK', get_char_advance, key_head # key_tail
  PROVE  /\ Count' = Count - 1
         /\ key_buffer' = key_buffer
         /\ \A n \in 0 .. Count - 2 : Slot(n)' = Slot(n + 1)
<1> USE KeyBufferAssumption DEF TypeOK
<1>1. key_tail' = Succ(key_tail) /\ key_head' = key_head /\ key_buffer' = key_buffer
  BY DEF get_char_advance
<1>2. Count' = (IF key_tail' <= key_head' THEN key_head' - key_tail'
                ELSE key_head' + KB_BUFFER_SIZE - key_tail')
  BY DistanceValue DEF Count
<1>s. Succ(key_tail) = (IF key_tail + 1 = KB_BUFFER_SIZE THEN 0 ELSE key_tail + 1)
  BY SuccValue
<1>3. Count' = Count - 1
  BY <1>1, <1>2, <1>s, CountFacts, SMTT(30) DEF Index
<1>4. ASSUME NEW n \in 0 .. Count - 2 PROVE Slot(n)' = Slot(n + 1)
  <2>1. n \in Index /\ n + 1 \in Index
    BY CountFacts DEF Index
  <2>2. Slot(n)' = (IF key_tail' + n < KB_BUFFER_SIZE THEN key_tail' + n
                    ELSE key_tail' + n - KB_BUFFER_SIZE)
    BY <2>1, OffsetValue DEF Slot
  <2>3. Slot(n + 1) = (IF key_tail + (n + 1) < KB_BUFFER_SIZE THEN key_tail + (n + 1)
                       ELSE key_tail + (n + 1) - KB_BUFFER_SIZE)
    BY <2>1, OffsetValue DEF Slot
  <2> QED
    BY <1>1, <1>s, <2>1, <2>2, <2>3 DEF Index
<1> QED
  BY <1>1, <1>3, <1>4
-----------------------------------------------------------------------------
\* The inductive invariant: types, written waiting slots, a stable slot under
\* the reader, and nothing left to put once the handler has returned.
RingInv == /\ TypeOK
           /\ WaitingSlotsWritten
           /\ ReaderSlotStable
           /\ ~in_handler => out = <<>>

\* The empty ring satisfies the invariant (keyboard.c:37-40).
LEMMA RingInvInit == Init => RingInv
<1> SUFFICES ASSUME Init PROVE RingInv
  OBVIOUS
<1>1. TypeOK
  BY TypeInit
<1>2. Count = 0
  BY <1>1, CountFacts DEF Init
<1>3. Occupied = {}
  BY <1>2 DEF Occupied
<1> QED
  BY <1>1, <1>3 DEF RingInv, WaitingSlotsWritten, ReaderSlotStable, Init

\* Every step keeps the invariant: a put writes the slot before the count takes
\* it in, a release gives up the first slot only (keyboard.c:107-132).
LEMMA RingInvNext == RingInv /\ [Next]_vars => RingInv'
<1> SUFFICES ASSUME RingInv, [Next]_vars PROVE RingInv'
  OBVIOUS
<1>1. TypeOK /\ TypeOK'
  BY TypeNext DEF RingInv
<1>2. \A n \in 0 .. Count - 1 : key_buffer[Slot(n)] \in Char
  BY DEF RingInv, WaitingSlotsWritten, Occupied
<1>3. reading => Count > 0 /\ slot = key_buffer[Slot(0)]
  BY <1>1, CountFacts DEF RingInv, ReaderSlotStable
<1>h. ~in_handler' => out' = <<>>
  BY DEF RingInv, Next, Handler, Reader, vars, handlerVars, keyboard_handler, buffer_put,
     buffer_put_full, handler_cleanup, get_char_empty, get_char_read, get_char_advance
<1>4. SUFFICES /\ \A n \in 0 .. Count' - 1 : key_buffer'[Slot(n)'] \in Char
               /\ reading' => Count' > 0 /\ slot' = key_buffer'[Slot(0)']
  <2>1. WaitingSlotsWritten' <=> \A n \in 0 .. Count' - 1 : key_buffer'[Slot(n)'] \in Char
    BY DEF WaitingSlotsWritten, Occupied
  <2>2. ReaderSlotStable' <=> (reading' => Count' > 0 /\ slot' = key_buffer'[Slot(0)'])
    BY <1>1, CountFactsNext DEF ReaderSlotStable
  <2> QED
    BY <1>1, <1>h, <2>1, <2>2 DEF RingInv
<1>5. CASE buffer_put
  <2>1. Head(out) \in Char
    BY <1>1, <1>5 DEF buffer_put, TypeOK
  <2>2. ASSUME NEW n \in 0 .. Count' - 1 PROVE key_buffer'[Slot(n)'] \in Char
    <3>1. n \in 0 .. Count - 1 \/ n = Count
      BY <1>1, <1>5, PutEffect, CountFacts
    <3> QED
      BY <1>1, <1>2, <1>5, <2>1, <3>1, PutEffect
  <2>3. reading' = reading /\ slot' = slot
    BY <1>5 DEF buffer_put, readerVars
  <2>4. Count > 0 => key_buffer'[Slot(0)'] = key_buffer[Slot(0)]
    BY <1>1, <1>5, PutEffect, CountFacts
  <2> QED
    BY <1>1, <1>3, <1>5, <2>2, <2>3, <2>4, PutEffect, CountFacts
<1>6. CASE get_char_advance
  <2>1. reading /\ ~reading'
    BY <1>6 DEF get_char_advance
  <2>2. key_head # key_tail
    BY <1>1, <1>3, <2>1, CountFacts
  <2>3. ASSUME NEW n \in 0 .. Count' - 1 PROVE key_buffer'[Slot(n)'] \in Char
    <3>1. n \in 0 .. Count - 2 /\ n + 1 \in 0 .. Count - 1
      BY <1>1, <1>6, <2>2, AdvanceEffect, CountFacts
    <3> QED
      BY <1>1, <1>2, <1>6, <2>2, <3>1, AdvanceEffect
  <2> QED
    BY <2>1, <2>3
<1>7. CASE get_char_read
  BY <1>1, <1>2, <1>3, <1>7, CountFacts DEF get_char_read, ringVars, Count, Slot
<1>8. CASE UNCHANGED <<key_buffer, key_head, key_tail, reading, slot>>
  BY <1>2, <1>3, <1>8 DEF Count, Slot
<1> QED
  BY <1>5, <1>6, <1>7, <1>8 DEF Next, Handler, Reader, vars, ringVars, handlerVars,
     readerVars, keyboard_handler, buffer_put_full, handler_cleanup, get_char_empty

\* Waiting slots are always written and the reader's slot never changes under
\* it (keyboard.c:107-123), for every ring size.
THEOREM RingCorrect == Spec => []SlotsKept
<1>1. RingInv => SlotsKept
  BY DEF RingInv, SlotsKept
<1> QED
  BY RingInvInit, RingInvNext, <1>1, PTL DEF Spec

\* buffer_is_full drops a character only when all slots but one are taken
\* (keyboard.c:103-112).
THEOREM DropsCorrect == Spec => DropsOnlyAtCapacity
<1>1. RingInv /\ [Next]_vars =>
        [Len(out') < Len(out) /\ key_head' = key_head => Count = KB_BUFFER_SIZE - 1]_vars
  <2> SUFFICES ASSUME RingInv, Next, Len(out') < Len(out), key_head' = key_head
               PROVE  Count = KB_BUFFER_SIZE - 1
    BY DEF vars
  <2>1. CASE buffer_put
    <3>1. Succ(key_head) # key_head
      BY SuccValue, KeyBufferAssumption DEF RingInv, TypeOK, Index
    <3> QED
      BY <2>1, <3>1 DEF buffer_put
  <2>2. CASE buffer_put_full
    BY <2>2, CountFacts DEF buffer_put_full, RingInv
  <2>3. CASE \E s \in KeyOutput : keyboard_handler(s)
    <3> PICK s \in KeyOutput : keyboard_handler(s)
      BY <2>3
    <3>1. s \in Seq(Char) /\ out = <<>> /\ out' = s
      BY KeyBufferAssumption DEF keyboard_handler, RingInv
    <3> QED
      BY <3>1
  <2>4. CASE out' = out
    BY <2>4 DEF RingInv, TypeOK
  <2> QED
    BY <2>1, <2>2, <2>3, <2>4 DEF Next, Handler, Reader, handler_cleanup,
       get_char_empty, get_char_read, get_char_advance, handlerVars
<1> QED
  BY RingInvInit, RingInvNext, <1>1, PTL DEF Spec, DropsOnlyAtCapacity
-----------------------------------------------------------------------------
(* The ring implements the queue.                                          *)

WaitingQueue == [n \in 1 .. Count |-> key_buffer[Slot(n - 1)]]

\* The mapped queue is a sequence of the length the indices say.
LEMMA QueueLength ==
  ASSUME RingInv
  PROVE  WaitingQueue \in Seq(Char) /\ Len(WaitingQueue) = Count
<1>1. Count \in Nat
  BY CountFacts, KeyBufferAssumption DEF RingInv
<1>2. \A n \in 1 .. Count : key_buffer[Slot(n - 1)] \in Char
  BY <1>1 DEF RingInv, WaitingSlotsWritten, Occupied
<1> QED
  BY <1>1, <1>2 DEF WaitingQueue

\* Append and Tail as functions on an interval.
LEMMA AppendValue ==
  ASSUME NEW s \in Seq(Char), NEW e \in Char
  PROVE  Append(s, e) = [n \in 1 .. Len(s) + 1 |-> IF n = Len(s) + 1 THEN e ELSE s[n]]
<1>1. /\ Append(s, e) \in Seq(Char)
      /\ Len(Append(s, e)) = Len(s) + 1
      /\ \A n \in 1 .. Len(s) : Append(s, e)[n] = s[n]
      /\ Append(s, e)[Len(s) + 1] = e
  BY AppendProperties
<1>2. Append(s, e) \in [1 .. Len(s) + 1 -> Char]
  BY <1>1, LenProperties
<1>3. Len(s) \in Nat
  BY LenProperties
<1>4. ASSUME NEW n \in 1 .. Len(s) + 1
      PROVE  Append(s, e)[n] = (IF n = Len(s) + 1 THEN e ELSE s[n])
  <2>1. n \in 1 .. Len(s) \/ n = Len(s) + 1
    BY <1>3
  <2> QED
    BY <1>1, <1>3, <2>1
<1> QED
  BY <1>2, <1>4, Zenon

\* The same for Tail.
LEMMA TailValue ==
  ASSUME NEW s \in Seq(Char), s # <<>>
  PROVE  Tail(s) = [n \in 1 .. Len(s) - 1 |-> s[n + 1]]
<1>1. /\ Tail(s) \in Seq(Char)
      /\ Len(Tail(s)) = Len(s) - 1
      /\ \A n \in 1 .. Len(Tail(s)) : Tail(s)[n] = s[n + 1]
  BY HeadTailProperties
<1>2. Tail(s) \in [1 .. Len(s) - 1 -> Char]
  BY <1>1, LenProperties
<1> QED
  BY <1>1, <1>2

\* A put appends to the mapped queue.
LEMMA PutAppends ==
  ASSUME RingInv, RingInv', buffer_put
  PROVE  /\ Len(WaitingQueue) < KB_BUFFER_SIZE - 1
         /\ WaitingQueue' = Append(WaitingQueue, Head(out))
         /\ Head(out) \in Char
<1>1. TypeOK /\ TypeOK'
  BY DEF RingInv
<1>2. Count \in Nat
  BY <1>1, CountFacts, KeyBufferAssumption
<1>3. WaitingQueue' = [n \in 1 .. Count' |-> key_buffer'[Slot(n - 1)']]
  BY DEF WaitingQueue
<1>4. ASSUME NEW n \in 1 .. Count + 1
      PROVE  key_buffer'[Slot(n - 1)'] =
               (IF n = Count + 1 THEN Head(out) ELSE WaitingQueue[n])
  <2>1. n - 1 \in 0 .. Count - 1 \/ n - 1 = Count
    BY <1>2
  <2> QED
    BY <1>1, <1>2, <2>1, PutEffect DEF WaitingQueue
<1>6. Head(out) \in Char
  BY <1>1 DEF TypeOK, buffer_put
<1>5. Append(WaitingQueue, Head(out)) =
        [n \in 1 .. Count + 1 |-> IF n = Count + 1 THEN Head(out) ELSE WaitingQueue[n]]
  BY <1>2, <1>6, QueueLength, AppendValue
<1> QED
  BY <1>1, <1>2, <1>3, <1>4, <1>5, <1>6, PutEffect, QueueLength

\* A release takes the head of the mapped queue, which is the slot just read.
LEMMA AdvanceTakesHead ==
  ASSUME RingInv, RingInv', get_char_advance
  PROVE  /\ WaitingQueue # <<>>
         /\ ret' = Head(WaitingQueue)
         /\ WaitingQueue' = Tail(WaitingQueue)
<1>1. TypeOK /\ TypeOK'
  BY DEF RingInv
<1>2. key_head # key_tail /\ ret' = key_buffer[key_tail]
  BY DEF RingInv, ReaderSlotStable, get_char_advance
<1>3. Count \in Nat /\ Count > 0 /\ Slot(0) = key_tail
  BY <1>1, <1>2, CountFacts, KeyBufferAssumption
<1>4. WaitingQueue \in Seq(Char) /\ Len(WaitingQueue) = Count
  BY QueueLength
<1>5. WaitingQueue # <<>> /\ Head(WaitingQueue) = WaitingQueue[1]
  BY <1>3, <1>4
<1>6. WaitingQueue[1] = key_buffer[Slot(0)]
  BY <1>3 DEF WaitingQueue
<1>7. WaitingQueue' = [n \in 1 .. Count' |-> key_buffer'[Slot(n - 1)']]
  BY DEF WaitingQueue
<1>8. ASSUME NEW n \in 1 .. Count - 1
      PROVE  key_buffer'[Slot(n - 1)'] = WaitingQueue[n + 1]
  <2>1. n - 1 \in 0 .. Count - 2 /\ n + 1 \in 1 .. Count /\ (n + 1) - 1 = (n - 1) + 1
    BY <1>3
  <2>2. Slot(n - 1)' = Slot((n - 1) + 1) /\ key_buffer' = key_buffer
    BY <1>1, <1>2, <2>1, AdvanceEffect
  <2> QED
    BY <2>1, <2>2 DEF WaitingQueue
<1>9. Count' = Count - 1
  BY <1>1, <1>2, AdvanceEffect
<1> QED
  BY <1>2, <1>3, <1>4, <1>5, <1>6, <1>7, <1>8, <1>9, TailValue

\* The steps that touch neither the ring nor the returned value leave the
\* mapped queue alone.
LEMMA QueueUnchanged ==
  ASSUME UNCHANGED <<key_buffer, key_head, key_tail>>
  PROVE  WaitingQueue' = WaitingQueue
  BY DEF WaitingQueue, Count, Slot

\* Every accepted character is returned exactly once and in order, and none is
\* refused while there is room (keyboard.c:103-132): the ring, interrupted
\* anywhere, implements the bounded FIFO.
THEOREM RingImplementsQueue == Spec => ImplementsQueue
<1>1. Init => Queue!QInit
  <2> SUFFICES ASSUME Init PROVE Queue!QInit
    OBVIOUS
  <2>1. RingInv /\ ret = NUL
    BY RingInvInit DEF Init
  <2>2. Count = 0
    BY <2>1, CountFacts DEF Init, RingInv
  <2>3. WaitingQueue = <<>>
    BY <2>1, <2>2, QueueLength
  <2> QED
    BY <2>1, <2>3 DEF Queue!QInit, WaitingQueue
<1>2. RingInv /\ RingInv' /\ [Next]_vars => [Queue!QNext]_(Queue!qvars)
  <2> SUFFICES ASSUME RingInv, RingInv', [Next]_vars
               PROVE  [Queue!QNext]_(Queue!qvars)
    OBVIOUS
  <2>1. CASE buffer_put
    <3>1. ret' = ret
      BY <2>1 DEF buffer_put, readerVars
    <3> QED
      BY <2>1, <3>1, PutAppends DEF Queue!QNext, Queue!Put, WaitingQueue
  <2>2. CASE get_char_advance
    BY <2>2, AdvanceTakesHead DEF Queue!QNext, Queue!Get, WaitingQueue
  <2>3. CASE get_char_empty
    <3>1. Count = 0
      BY <2>3, CountFacts DEF get_char_empty, RingInv
    <3>2. WaitingQueue = <<>>
      BY <3>1, QueueLength
    <3> QED
      BY <2>3, <3>2, QueueUnchanged
      DEF get_char_empty, ringVars, Queue!QNext, Queue!GetNothing, WaitingQueue
  <2>4. CASE UNCHANGED <<key_buffer, key_head, key_tail, ret>>
    BY <2>4, QueueUnchanged DEF Queue!qvars, WaitingQueue
  <2> QED
    BY <2>1, <2>2, <2>3, <2>4 DEF Next, Handler, Reader, keyboard_handler, buffer_put_full,
       handler_cleanup, get_char_read, vars, ringVars, handlerVars, readerVars
<1> QED
  BY RingInvInit, RingInvNext, <1>1, <1>2, PTL DEF Spec, ImplementsQueue, Queue!QSpec
-----------------------------------------------------------------------------
(* The console.                                                            *)

\* Every step of the console is a step of the ring or leaves it alone.
LEMMA ConsoleStepIsRingStep == [ConsoleNext]_consoleVars => [Next]_vars
<1> SUFFICES ASSUME [ConsoleNext]_consoleVars PROVE [Next]_vars
  OBVIOUS
<1>1. CASE KeyboardInterrupt
  BY <1>1 DEF KeyboardInterrupt, Next, Handler
<1>2. CASE HandlerStep
  BY <1>2 DEF HandlerStep, Next, Handler
<1>3. CASE ShellGet \/ EditorGet
  BY <1>3 DEF ShellGet, EditorGet, Next, Reader
<1>4. CASE UNCHANGED vars
  BY <1>4
<1>5. CASE KeyEvent \/ TimerInterrupt \/ ShutdownInterrupt
  BY <1>5 DEF KeyEvent, TimerInterrupt, ShutdownInterrupt
<1>6. CASE ShellSleep \/ ShellWake \/ ShellCheck \/ ShellFeed
  BY <1>6 DEF ShellSleep, ShellWake, ShellCheck, ShellFeed
<1>7. CASE EditorCheck \/ EditorSleep \/ EditorEvent
  BY <1>7 DEF EditorCheck, EditorSleep, EditorEvent
<1>8. CASE UNCHANGED consoleVars
  BY <1>8 DEF consoleVars
<1> QED
  BY <1>1, <1>2, <1>3, <1>5, <1>6, <1>7, <1>8 DEF ConsoleNext, Shell, Editor

\* The kernel's main loop, the shell and the editor use the ring as KeyBuffer
\* allows (kernel.c:256-264, snake.c:162-205, keyboard.c:103-132): everything
\* proved of the ring holds of the console.
THEOREM ConsoleIsRing == ConsoleSpec => Spec
<1>1. ConsoleInit => Init
  BY DEF ConsoleInit
<1> QED
  BY <1>1, ConsoleStepIsRingStep, PTL DEF ConsoleSpec, Spec

\* A slot is written before it is exposed and released before it is written
\* again, with the shell and the editor as readers (keyboard.c:107-123,
\* kernel.c:259, snake.c:162-205).
THEOREM ConsoleKeepsSlots == ConsoleSpec => []SlotsKept
  BY ConsoleIsRing, RingCorrect, PTL

\* The shell and the editor together read every accepted character once and in
\* order (keyboard.c:103-132, kernel.c:259-261, snake.c:162-205).
THEOREM ConsoleImplementsQueue == ConsoleSpec => ImplementsQueue
  BY ConsoleIsRing, RingImplementsQueue, PTL

\* A character is dropped only when all slots but one are taken, whichever loop
\* is reading (keyboard.c:103-112).
THEOREM ConsoleDropsAtCapacity == ConsoleSpec => DropsOnlyAtCapacity
  BY ConsoleIsRing, DropsCorrect, PTL
-----------------------------------------------------------------------------
\* A reader that has found the ring filled reads from a filled ring: only the
\* reader takes characters out.
ReaderFindsCharacter ==
  /\ pc \in {"get", "e_get"} => key_head # key_tail
  /\ reading => pc \in {"get", "e_get", "off"}

\* The handler runs with the foreground's IF set, and past its hlt.
HandlerFinds == in_handler => IF_flag /\ pc \notin {"hlt", "e_hlt", "off"}

\* From its cli on the main loop is in the shell's steps, with interrupts off
\* until the sti; hlt.
LoopProtected ==
  protected => /\ pc \in ShellPc \cup {"off"}
               /\ pc \notin {"hlt", "cli"} => ~IF_flag
               /\ pc \in {"sti", "hlt"} => key_head = key_tail

\* The inductive invariant of the console.
ConsoleInv == /\ ConsoleTypeOK
              /\ RingInv
              /\ HandlerFinds
              /\ ReaderFindsCharacter
              /\ LoopProtected

\* The loop is entered with an empty ring and interrupts on (kernel.c:250-256).
LEMMA ConsoleInvInit == ConsoleInit => ConsoleInv
<1> SUFFICES ASSUME ConsoleInit PROVE ConsoleInv
  OBVIOUS
<1>1. Init /\ RingInv /\ TypeOK
  BY RingInvInit DEF ConsoleInit, RingInv
<1>2. ConsoleTypeOK
  <2>1. IF_flag = TRUE /\ pc = "sti" /\ kbd_pending = 0 /\ protected = FALSE
    BY DEF ConsoleInit
  <2>2. 0 \in 0 .. MAX_PENDING
    BY ConsoleAssumption
  <2> QED
    BY <1>1, <2>1, <2>2, Zenon DEF ConsoleTypeOK, ShellPc
<1>3. pc = "sti" /\ protected = FALSE /\ in_handler = FALSE /\ reading = FALSE
  BY DEF ConsoleInit, Init
<1> QED
  BY <1>1, <1>2, <1>3 DEF ConsoleInv, HandlerFinds, ReaderFindsCharacter, LoopProtected

\* A put makes the ring non-empty; it never makes it empty.
LEMMA PutFills == ASSUME TypeOK, buffer_put PROVE key_head' # key_tail'
  BY DEF buffer_put, buffer_is_full

\* The interrupts keep the invariant: a keyboard interrupt needs IF, and moves
\* the foreground past its hlt.
LEMMA InterruptKeepsInv ==
  ASSUME ConsoleInv, RingInv',
         KeyEvent \/ KeyboardInterrupt \/ TimerInterrupt \/ ShutdownInterrupt
  PROVE  ConsoleInv'
<1> USE ConsoleAssumption
    DEF ConsoleInv, ConsoleTypeOK, HandlerFinds, ReaderFindsCharacter, LoopProtected,
        ShellPc, EditorPc
<1>t. TypeOK'
  BY DEF RingInv
<1>1. CASE KeyEvent
  BY <1>1, <1>t DEF KeyEvent, vars, ringVars, handlerVars, readerVars
<1>2. CASE KeyboardInterrupt
  <2>1. /\ in_handler' /\ UNCHANGED <<key_head, key_tail, reading, IF_flag, protected>>
        /\ ~in_handler /\ pc # "off" /\ IF_flag /\ kbd_pending > 0
        /\ kbd_pending' = kbd_pending - 1 /\ pc' = Resume
    BY <1>2 DEF KeyboardInterrupt, keyboard_handler, Foreground, ringVars, readerVars
  <2>2. pc' = (IF pc = "hlt" THEN "cli" ELSE IF pc = "e_hlt" THEN "e_check" ELSE pc)
    BY <2>1 DEF Resume
  <2> QED
    BY <1>t, <2>1, <2>2
<1>3. CASE TimerInterrupt
  <2>1. pc' = (IF pc = "hlt" THEN "cli" ELSE "e_check") /\ pc \in {"hlt", "e_hlt"}
    BY <1>3 DEF TimerInterrupt, Resume
  <2>2. /\ UNCHANGED <<vars, IF_flag, kbd_pending, protected>>
        /\ ~in_handler
    BY <1>3 DEF TimerInterrupt, Foreground
  <2> QED
    BY <1>t, <2>1, <2>2 DEF vars, ringVars, handlerVars, readerVars
<1>4. CASE ShutdownInterrupt
  BY <1>4, <1>t DEF ShutdownInterrupt, Foreground, vars, ringVars, handlerVars, readerVars
<1> QED
  BY <1>1, <1>2, <1>3, <1>4

\* The handler keeps the invariant: it fills the ring only under a foreground
\* that is past its hlt.
LEMMA HandlerKeepsInv == ASSUME ConsoleInv, RingInv', HandlerStep PROVE ConsoleInv'
<1> USE DEF ConsoleInv, ConsoleTypeOK, HandlerFinds, ReaderFindsCharacter, LoopProtected,
        ShellPc, EditorPc
<1>t. TypeOK'
  BY DEF RingInv
<1>1. UNCHANGED <<IF_flag, pc, kbd_pending, protected>>
  BY DEF HandlerStep
<1>2. CASE buffer_put
  <2>1. key_head' # key_tail' /\ in_handler /\ in_handler' /\ reading' = reading
    BY <1>2, PutFills DEF buffer_put, readerVars
  <2>2. ~(pc \in {"sti", "hlt"} /\ protected)
    BY <2>1
  <2> QED
    BY <1>1, <1>t, <2>1, <2>2
<1>3. CASE buffer_put_full \/ handler_cleanup
  <2>1. /\ UNCHANGED <<key_head, key_tail, reading>>
        /\ in_handler' => in_handler
    BY <1>3 DEF buffer_put_full, handler_cleanup, readerVars
  <2> QED
    BY <1>1, <1>t, <2>1
<1> QED
  BY <1>2, <1>3 DEF HandlerStep

\* The main loop and the shell keep the invariant: the sleep is entered only
\* from the empty ring, and only a cli makes the loop protected.
LEMMA ShellKeepsInv == ASSUME ConsoleInv, RingInv', Shell PROVE ConsoleInv'
<1> USE DEF ConsoleInv, ConsoleTypeOK, HandlerFinds, ReaderFindsCharacter, LoopProtected,
        ShellPc, EditorPc, Goto, Foreground
<1>t. TypeOK'
  BY DEF RingInv
<1>1. CASE ShellSleep
  BY <1>1, <1>t DEF ShellSleep, vars, ringVars, handlerVars, readerVars
<1>2. CASE ShellWake
  BY <1>2, <1>t DEF ShellWake, vars, ringVars, handlerVars, readerVars
<1>3. CASE ShellCheck
  BY <1>3, <1>t DEF ShellCheck, keyboard_has_char, vars, ringVars, handlerVars, readerVars
<1>4. CASE ShellGet
  BY <1>4, <1>t DEF ShellGet, get_char_read, get_char_advance, ringVars, handlerVars
<1>5. CASE ShellFeed
  <2>1. /\ pc = "feed" /\ ~in_handler
        /\ \/ pc' = "check" /\ protected' = protected
           \/ pc' = "e_check" /\ protected' = FALSE
        /\ UNCHANGED <<vars, IF_flag, kbd_pending>>
    BY <1>5 DEF ShellFeed
  <2>2. UNCHANGED <<in_handler, reading, key_head, key_tail, IF_flag, kbd_pending>> /\ ~reading
    BY <2>1 DEF vars, ringVars, handlerVars, readerVars
  <2>3. CASE pc' = "check" /\ protected' = protected
    BY <1>t, <2>1, <2>2, <2>3
  <2>4. CASE pc' = "e_check" /\ protected' = FALSE
    BY <1>t, <2>1, <2>2, <2>4
  <2> QED
    BY <2>1, <2>3, <2>4
<1> QED
  BY <1>1, <1>2, <1>3, <1>4, <1>5 DEF Shell

\* The editor keeps the invariant: it runs unprotected.
LEMMA EditorKeepsInv == ASSUME ConsoleInv, RingInv', Editor PROVE ConsoleInv'
<1> USE DEF ConsoleInv, ConsoleTypeOK, HandlerFinds, ReaderFindsCharacter, LoopProtected,
        ShellPc, EditorPc, Goto, Foreground
<1>t. TypeOK'
  BY DEF RingInv
<1>1. CASE EditorCheck
  BY <1>1, <1>t DEF EditorCheck, keyboard_has_char, vars, ringVars, handlerVars, readerVars
<1>2. CASE EditorSleep
  BY <1>2, <1>t DEF EditorSleep, vars, ringVars, handlerVars, readerVars
<1>3. CASE EditorGet
  BY <1>3, <1>t DEF EditorGet, get_char_read, get_char_advance, ringVars, handlerVars
<1>4. CASE EditorEvent
  <2>1. /\ pc = "e_more" /\ pc' \in {"e_check", "e_get", "check"}
        /\ pc' = "e_get" => key_head # key_tail
        /\ UNCHANGED <<vars, IF_flag, kbd_pending, protected>> /\ ~in_handler
    BY <1>4 DEF EditorEvent, keyboard_has_char
  <2> QED
    BY <1>t, <2>1 DEF vars, ringVars, handlerVars, readerVars
<1> QED
  BY <1>1, <1>2, <1>3, <1>4 DEF Editor

\* Every step of the console keeps the invariant.
LEMMA ConsoleInvNext == ConsoleInv /\ [ConsoleNext]_consoleVars => ConsoleInv'
<1> SUFFICES ASSUME ConsoleInv, [ConsoleNext]_consoleVars PROVE ConsoleInv'
  OBVIOUS
<1>1. RingInv'
  BY ConsoleStepIsRingStep, RingInvNext DEF ConsoleInv
<1>2. CASE UNCHANGED consoleVars
  <2>1. /\ UNCHANGED <<in_handler, key_head, key_tail, reading>>
        /\ UNCHANGED <<IF_flag, pc, kbd_pending, protected>>
    BY <1>2 DEF consoleVars, vars, ringVars, handlerVars, readerVars
  <2> QED
    BY <1>1, <2>1 DEF ConsoleInv, ConsoleTypeOK, HandlerFinds, ReaderFindsCharacter,
       LoopProtected, RingInv
<1> QED
  BY <1>1, <1>2, InterruptKeepsInv, HandlerKeepsInv, ShellKeepsInv, EditorKeepsInv
  DEF ConsoleNext

\* The main loop never sleeps on a character that is already in the ring, from a
\* cli of its own on until it enters the editor (kernel.c:258-260), for every
\* ring size and every bound on the waiting scancodes.
THEOREM LoopNeverOversleeps == ConsoleSpec => []NoOversleep
<1>1. ConsoleInv => NoOversleep
  BY DEF ConsoleInv, LoopProtected, NoOversleep
<1> QED
  BY ConsoleInvInit, ConsoleInvNext, <1>1, PTL DEF ConsoleSpec

\* keyboard_get_char is called, by the shell and by the editor, only where it
\* returns a character: between the look at the ring and the read no one else
\* takes a character out (kernel.c:259-260, snake.c:162-165).
THEOREM ReadersFindCharacters == ConsoleSpec => []ReaderFindsCharacter
<1>1. ConsoleInv => ReaderFindsCharacter
  BY DEF ConsoleInv
<1> QED
  BY ConsoleInvInit, ConsoleInvNext, <1>1, PTL DEF ConsoleSpec
-----------------------------------------------------------------------------
(* Tasks. *)

\* Least is what its name says.
LEMMA LeastFacts ==
  ASSUME NEW T \in SUBSET Nat, T # {}
  PROVE  Least(T) \in T /\ \A y \in T : Least(T) <= y
<1>1. \E x \in T : \A y \in T : x <= y
  BY LeastNatural
<1> QED
  BY <1>1 DEF Least
-----------------------------------------------------------------------------
(* Taking out no element, or one, keeps the rest in order.                 *)

\* The rank of a place when none is left out.
LEMMA RankOfAll ==
  ASSUME NEW N \in Nat, NEW i \in 1 .. N
  PROVE  Rank(1 .. N, i) = i
<1>1. {j \in 1 .. N : j <= i} = 1 .. i
  OBVIOUS
<1>2. Cardinality(1 .. i) = i
  BY FS_Interval
<1> QED
  BY <1>1, <1>2 DEF Rank

\* The rank of a place when place k is left out.
LEMMA RankBut ==
  ASSUME NEW N \in Nat, NEW k \in 1 .. N, NEW i \in (1 .. N) \ {k}
  PROVE  Rank((1 .. N) \ {k}, i) = (IF i < k THEN i ELSE i - 1)
<1>1. CASE i < k
  <2>1. {j \in (1 .. N) \ {k} : j <= i} = 1 .. i
    BY <1>1
  <2>2. Cardinality(1 .. i) = i
    BY FS_Interval
  <2> QED
    BY <1>1, <2>1, <2>2 DEF Rank
<1>2. CASE ~(i < k)
  <2>1. {j \in (1 .. N) \ {k} : j <= i} = (1 .. i) \ {k}
    BY <1>2
  <2>2. Cardinality(1 .. i) = i /\ IsFiniteSet(1 .. i) /\ k \in 1 .. i
    BY <1>2, FS_Interval
  <2>3. Cardinality((1 .. i) \ {k}) = i - 1
    BY <2>2, FS_RemoveElement
  <2> QED
    BY <1>2, <2>1, <2>3 DEF Rank
<1> QED
  BY <1>1, <1>2

\* Leaving nothing out leaves the sequence as it is.
LEMMA FilteredAll ==
  ASSUME NEW S, NEW q \in Seq(S)
  PROVE  Filtered(q, 1 .. Len(q)) = q
<1>0. Len(q) \in Nat
  OBVIOUS
<1> DEFINE K == 1 .. Len(q)
<1>1. Cardinality(K) = Len(q)
  <2>1. Cardinality(1 .. Len(q)) = Len(q) - 1 + 1
    BY <1>0, FS_Interval, SMTT(30)
  <2> QED
    BY <1>0, <2>1
<1>2. ASSUME NEW n \in 1 .. Len(q)
      PROVE  (CHOOSE i \in 1 .. Len(q) : Rank(1 .. Len(q), i) = n) = n
  <2>1. \A i \in 1 .. Len(q) : Rank(1 .. Len(q), i) = i
    BY <1>0, RankOfAll
  <2> QED
    BY <2>1
<1>3. Filtered(q, K) = [n \in 1 .. Len(q) |-> q[CHOOSE i \in K : Rank(K, i) = n]]
  BY <1>1, Zenon DEF Filtered
<1>4. \A n \in 1 .. Len(q) : q[CHOOSE i \in K : Rank(K, i) = n] = q[n]
  BY <1>2
<1>5. Filtered(q, K) = [n \in 1 .. Len(q) |-> q[n]]
  BY <1>3, <1>4, Zenon
<1> QED
  BY <1>5

\* Leaving out place k closes the gap.
LEMMA FilteredBut ==
  ASSUME NEW S, NEW q \in Seq(S), NEW k \in 1 .. Len(q)
  PROVE  Filtered(q, (1 .. Len(q)) \ {k})
           = [n \in 1 .. Len(q) - 1 |-> q[IF n < k THEN n ELSE n + 1]]
<1> DEFINE K == (1 .. Len(q)) \ {k}
<1>0. Len(q) \in Nat
  OBVIOUS
<1>1. Cardinality(K) = Len(q) - 1
  <2>1. Cardinality(1 .. Len(q)) = Len(q) /\ IsFiniteSet(1 .. Len(q))
    BY <1>0, FS_Interval
  <2> QED
    BY <1>0, <2>1, FS_RemoveElement
<1>2. ASSUME NEW n \in 1 .. Len(q) - 1
      PROVE  (CHOOSE i \in K : Rank(K, i) = n) = (IF n < k THEN n ELSE n + 1)
  <2>1. \A i \in K : Rank(K, i) = (IF i < k THEN i ELSE i - 1)
    BY <1>0, RankBut
  <2> DEFINE m == IF n < k THEN n ELSE n + 1
  <2>2. m \in K /\ Rank(K, m) = n
    <3>1. m \in K
      BY <1>0
    <3>2. Rank(K, m) = (IF m < k THEN m ELSE m - 1)
      BY <2>1, <3>1
    <3> QED
      BY <1>0, <3>1, <3>2
  <2>3. \A i \in K : Rank(K, i) = n => i = m
    BY <1>0, <2>1
  <2> HIDE DEF K, m
  <2>4. (CHOOSE i \in K : Rank(K, i) = n) = m
    BY <2>2, <2>3
  <2> QED
    BY <2>4 DEF m
<1>3. Filtered(q, K) = [n \in 1 .. Len(q) - 1 |-> q[CHOOSE i \in K : Rank(K, i) = n]]
  BY <1>1, Zenon DEF Filtered
<1>4. \A n \in 1 .. Len(q) - 1 :
        q[CHOOSE i \in K : Rank(K, i) = n] = q[IF n < k THEN n ELSE n + 1]
  BY <1>2, Zenon
<1> QED
  BY <1>3, <1>4, Zenon
-----------------------------------------------------------------------------
(* What task_reap_terminated does to the queue.                            *)

\* r is made of places of q, in the order of q; f says which.
InOrder(f, q, r) == /\ f \in [DOMAIN r -> DOMAIN q]
                    /\ \A i \in DOMAIN r : r[i] = q[f[i]]
                    /\ \A i, j \in DOMAIN r : i < j => f[i] < f[j]

\* The reaping takes out of the queue the tasks to be reaped, of which there is
\* at most one, and nothing else, and keeps its order (task.c:12-31).
LEMMA ReapKeepsOrder ==
  ASSUME QueueIsAllocated, NEW st, \A t, u \in Reapable(st) : t = u
  PROVE  /\ Reaped(st) \in Seq(Task)
         /\ \A i \in DOMAIN Reaped(st) : Reaped(st)[i] \notin Reapable(st)
         /\ \E f : /\ InOrder(f, task_queue, Reaped(st))
                  /\ \A m \in DOMAIN task_queue :
                       task_queue[m] \notin Reapable(st)
                         => \E i \in DOMAIN Reaped(st) : f[i] = m
<1> DEFINE q == task_queue
           r == Reaped(st)
<1>1. q \in Seq(Task) /\ Len(q) \in Nat /\ DOMAIN q = 1 .. Len(q)
  BY DEF QueueIsAllocated, TasksTypeOK
<1>2. \A i, j \in DOMAIN q : q[i] = q[j] => i = j
  BY DEF QueueIsAllocated
<1>3. CASE Reapable(st) = {}
  <2>1. KeptPlaces(st) = 1 .. Len(q)
    BY <1>1, <1>3 DEF KeptPlaces
  <2>2. r = q
    BY <1>1, <2>1, FilteredAll DEF Reaped
  <2> DEFINE f == [i \in 1 .. Len(q) |-> i]
  <2>3. /\ InOrder(f, q, r)
        /\ \A m \in DOMAIN q : \E i \in DOMAIN r : f[i] = m
    BY <1>1, <2>2 DEF InOrder
  <2> HIDE DEF f
  <2> QED
    BY <1>1, <1>3, <2>2, <2>3
<1>4. CASE Reapable(st) # {}
  <2>1. PICK z : z \in Reapable(st)
    BY <1>4
  <2>2. Reapable(st) = {z} /\ z \in allocated
    BY <2>1 DEF Reapable
  <2>3. PICK k \in DOMAIN q : q[k] = z
    BY <2>2 DEF QueueIsAllocated, TasksTypeOK
  <2>4. KeptPlaces(st) = (1 .. Len(q)) \ {k}
    BY <1>1, <1>2, <2>2, <2>3 DEF KeptPlaces
  <2>5. r = [n \in 1 .. Len(q) - 1 |-> q[IF n < k THEN n ELSE n + 1]]
    BY <1>1, <2>3, <2>4, FilteredBut DEF Reaped
  <2> DEFINE f == [n \in 1 .. Len(q) - 1 |-> IF n < k THEN n ELSE n + 1]
             len == Len(q) - 1
  <2>6. r \in Seq(Task) /\ DOMAIN r = 1 .. len /\ len \in Nat
    BY <1>1, <2>3, <2>5
  <2>7. InOrder(f, q, r)
    <3>1. f \in [DOMAIN r -> DOMAIN q]
      BY <1>1, <2>3, <2>6
    <3>2. \A i \in DOMAIN r : r[i] = q[f[i]]
      BY <2>5, <2>6
    <3>3. \A i, j \in DOMAIN r : i < j => f[i] < f[j]
      BY <1>1, <2>3, <2>6
    <3> QED
      BY <3>1, <3>2, <3>3 DEF InOrder
  <2>8. ASSUME NEW m \in DOMAIN q, q[m] # z
        PROVE  \E i \in DOMAIN r : f[i] = m
    <3>1. m # k
      BY <2>3, <2>8
    <3>2. CASE m < k
      BY <1>1, <2>3, <2>6, <3>2
    <3>3. CASE m > k
      <4>1. m - 1 \in DOMAIN r /\ f[m - 1] = m
        BY <1>1, <2>3, <2>6, <3>3
      <4> QED
        BY <4>1
    <3> QED
      BY <1>1, <2>3, <3>1, <3>2, <3>3, SMTT(30)
  <2>9. ASSUME NEW i \in DOMAIN r PROVE r[i] # z
    <3>1. f[i] \in DOMAIN q /\ f[i] # k /\ r[i] = q[f[i]]
      BY <1>1, <2>3, <2>5, <2>6, <2>9
    <3> QED
      BY <1>2, <2>3, <3>1
  <2> HIDE DEF f, r
  <2> QED
    BY <2>2, <2>6, <2>7, <2>8, <2>9 DEF r
<1> QED
  BY <1>3, <1>4

\* m is the place the search from place c on meets no later than place i, going
\* round.
MetFirst(m, c, i) == IF c < m THEN i <= c \/ m <= i ELSE m <= i /\ i <= c

\* The search of schedule finds the ready task that comes first behind the
\* current one (task.c:103-109).
LEMMA NextReadyIsFirst ==
  ASSUME NEW q \in Seq(Task), NEW st, ReadyPlaces(q, st) # {},
         NEW c \in DOMAIN q, q[c] = current_task,
         \A i, j \in DOMAIN q : q[i] = q[j] => i = j
  PROVE  \E m \in DOMAIN q :
            /\ NextReady(q, st) = q[m] /\ st[q[m]] = "READY"
            /\ \A i \in DOMAIN q : st[q[i]] = "READY" => MetFirst(m, c, i)
<1> DEFINE R == ReadyPlaces(q, st)
           B == {i \in R : c < i}
           m == Least(IF B # {} THEN B ELSE R)
<1>1. DOMAIN q \in SUBSET Nat /\ R \subseteq DOMAIN q
  BY DEF ReadyPlaces
<1>2. (CHOOSE i \in DOMAIN q : q[i] = current_task) = c
  OBVIOUS
<1>3. NextReady(q, st) = q[m]
  BY <1>2, Zenon DEF NextReady
<1>4. CASE B # {}
  <2>1. m \in B /\ \A i \in B : m <= i
    BY <1>1, <1>4, LeastFacts
  <2> HIDE DEF m
  <2>2. \A i \in R : MetFirst(m, c, i)
    BY <1>1, <2>1 DEF MetFirst
  <2> QED
    BY <1>3, <2>1, <2>2 DEF ReadyPlaces
<1>5. CASE B = {}
  <2>1. m \in R /\ \A i \in R : m <= i
    BY <1>1, <1>5, LeastFacts
  <2> HIDE DEF m
  <2>2. \A i \in R : MetFirst(m, c, i)
    BY <1>1, <1>5, <2>1 DEF MetFirst
  <2> QED
    BY <1>3, <2>1, <2>2 DEF ReadyPlaces
<1> QED
  BY <1>4, <1>5
-----------------------------------------------------------------------------
(* The inductive invariant.                                                *)

\* Going round from place i, place j is met no later than place c.
Passed(i, j, c) == IF i < c THEN i < j /\ j <= c ELSE i < j \/ j <= c

\* Who has been switched to since task t became ready stands, going round,
\* behind t and not behind the current task.
OvertakersPassed ==
  \A i, j, c \in DOMAIN task_queue :
    /\ state[task_queue[i]] = "READY" /\ task_queue[c] = current_task
    /\ task_queue[j] \in overtook[task_queue[i]]
    => Passed(i, j, c)

\* Before tasking_init nothing is linked; behind it pid 1 is taken.
InitialTaskFirst ==
  IF current_task = NoTask THEN allocated = {} /\ task_queue = <<>> /\ stack = {} /\ next_pid = 1
                           ELSE next_pid > 1

TasksInv == /\ QueueIsAllocated
            /\ OnlyCurrentRuns
            /\ OvertakersPassed
            /\ InitialTaskFirst

\* Nothing is linked at first (task.c:6-8).
LEMMA TasksInvInit == TasksInit => TasksInv
<1> SUFFICES ASSUME TasksInit PROVE TasksInv
  OBVIOUS
<1> USE TasksAssumption DEF TasksInit
<1>1. TasksTypeOK
  <2>1. task_queue \in Seq(Task)
    OBVIOUS
  <2> QED
    BY <2>1 DEF TasksTypeOK, State
<1>2. allocated = {} /\ stack = {} /\ DOMAIN task_queue = {} /\ Reapable(state) = {}
  BY DEF Reapable
<1>3. QueueIsAllocated
  BY <1>1, <1>2 DEF QueueIsAllocated
<1> QED
  BY <1>2, <1>3 DEF TasksInv, OnlyCurrentRuns, OvertakersPassed, InitialTaskFirst

\* tasking_init keeps the invariant (task.c:33-52).
LEMMA InitTaskKeepsInv ==
  ASSUME TasksInv, NEW t \in Task, tasking_init(t) PROVE TasksInv'
<1> USE TasksAssumption
<1>1. /\ allocated = {} /\ stack = {} /\ next_pid = 1 /\ TasksTypeOK
      /\ allocated' = {t} /\ stack' = {} /\ next_pid' = 2
      /\ task_queue' = <<t>> /\ current_task' = t /\ overtook' = overtook
      /\ state' = [state EXCEPT ![t] = "RUNNING"] /\ pid' = [pid EXCEPT ![t] = 1]
  BY DEF TasksInv, QueueIsAllocated, InitialTaskFirst, tasking_init
<1>2. /\ task_queue' \in Seq(Task) /\ DOMAIN task_queue' = {1} /\ task_queue'[1] = t
      /\ state'[t] = "RUNNING" /\ pid'[t] = 1
  BY <1>1 DEF TasksTypeOK
<1>3. TasksTypeOK'
  BY <1>1, <1>2 DEF TasksTypeOK, State
<1>4. QueueIsAllocated'
  BY <1>1, <1>2, <1>3 DEF QueueIsAllocated, Reapable
<1>5. OnlyCurrentRuns' /\ OvertakersPassed'
  BY <1>1, <1>2 DEF OnlyCurrentRuns, OvertakersPassed
<1> QED
  BY <1>1, <1>4, <1>5 DEF TasksInv, InitialTaskFirst

\* task_create keeps the invariant: the new task is linked last, behind the
\* places of everyone else (task.c:54-97).
LEMMA CreateKeepsInv ==
  ASSUME TasksInv, NEW t \in Task, task_create(t) PROVE TasksInv'
<1> USE TasksAssumption
<1> DEFINE q == task_queue
           len == Len(task_queue)
<1>1. /\ TasksTypeOK /\ current_task \in allocated /\ t \notin allocated
      /\ next_pid > 1 /\ next_pid <= MAX_PID
      /\ allocated' = allocated \cup {t} /\ stack' = stack \cup {t}
      /\ next_pid' = next_pid + 1 /\ current_task' = current_task
      /\ state[current_task] = "RUNNING"
  BY DEF TasksInv, QueueIsAllocated, InitialTaskFirst, task_create, Runs
<1>2. /\ state' = [state EXCEPT ![t] = "READY"] /\ pid' = [pid EXCEPT ![t] = next_pid]
      /\ overtook' = [u \in Task |-> IF u = t THEN {} ELSE overtook[u] \ {t}]
      /\ task_queue' = Append(q, t)
  BY DEF task_create
<1>3. /\ q \in Seq(Task) /\ len \in Nat /\ DOMAIN q = 1 .. len
      /\ \A u \in Task : u \in allocated <=> \E i \in DOMAIN q : q[i] = u
      /\ \A i, j \in DOMAIN q : q[i] = q[j] => i = j
  BY DEF TasksInv, QueueIsAllocated, TasksTypeOK
<1>4. /\ task_queue' \in Seq(Task) /\ DOMAIN task_queue' = 1 .. len + 1
      /\ task_queue'[len + 1] = t /\ \A i \in 1 .. len : task_queue'[i] = q[i]
  BY <1>2, <1>3
<1>5. TasksTypeOK'
  BY <1>1, <1>2, <1>4 DEF TasksTypeOK, State
<1>6. \A i \in 1 .. len : q[i] \in allocated /\ q[i] \in Task /\ q[i] # t
  BY <1>1, <1>3
<1>7. \A u \in Task : u \in allocated' <=> \E i \in DOMAIN task_queue' : task_queue'[i] = u
  <2>1. ASSUME NEW u \in Task, u \in allocated
        PROVE  \E i \in 1 .. len + 1 : task_queue'[i] = u
    BY <1>3, <1>4, <2>1
  <2>2. \A i \in 1 .. len + 1 : i = len + 1 \/ i \in 1 .. len
    BY <1>3
  <2>3. ASSUME NEW u \in Task, NEW i \in 1 .. len + 1, task_queue'[i] = u
        PROVE  u \in allocated \cup {t}
    BY <1>4, <1>6, <2>2, <2>3
  <2>4. len + 1 \in 1 .. len + 1
    BY <1>3
  <2> QED
    BY <1>1, <1>4, <2>1, <2>3, <2>4
<1>8. \A i, j \in DOMAIN task_queue' : task_queue'[i] = task_queue'[j] => i = j
  <2>1. \A i \in 1 .. len + 1 : i = len + 1 \/ i \in 1 .. len
    BY <1>3
  <2> QED
    BY <1>3, <1>4, <1>6, <2>1
<1>9. QueueIsAllocated'
  <2>1. \A u \in allocated' : u \in stack' <=> pid'[u] # 1
    BY <1>1, <1>2 DEF TasksInv, QueueIsAllocated, TasksTypeOK
  <2>2. Reapable(state)' = Reapable(state)
    BY <1>1, <1>2 DEF Reapable, TasksTypeOK
  <2>3. \A u, v \in Reapable(state)' : u = v
    BY <2>2 DEF TasksInv, QueueIsAllocated
  <2>4. current_task' # NoTask => current_task' \in allocated'
    BY <1>1
  <2>5. stack' \subseteq allocated'
    BY <1>1 DEF TasksInv, QueueIsAllocated
  <2> QED
    BY <1>5, <1>7, <1>8, <2>1, <2>3, <2>4, <2>5 DEF QueueIsAllocated
<1>10. OnlyCurrentRuns'
  BY <1>1, <1>2 DEF TasksInv, OnlyCurrentRuns, TasksTypeOK
<1>11. OvertakersPassed'
  <2>1. SUFFICES ASSUME NEW i \in 1 .. len + 1, NEW j \in 1 .. len + 1, NEW c \in 1 .. len + 1,
                        state'[task_queue'[i]] = "READY", task_queue'[c] = current_task,
                        task_queue'[j] \in overtook'[task_queue'[i]]
                 PROVE  Passed(i, j, c)
    BY <1>1, <1>4 DEF OvertakersPassed
  <2>2. i # len + 1 /\ j # len + 1 /\ c # len + 1
    BY <1>1, <1>2, <1>4, <1>6, <2>1, SMTT(30) DEF TasksTypeOK
  <2>3. i \in 1 .. len /\ j \in 1 .. len /\ c \in 1 .. len
    BY <1>3, <2>2
  <2>4. /\ state[q[i]] = "READY" /\ q[c] = current_task
        /\ q[j] \in overtook[q[i]]
    BY <1>1, <1>2, <1>4, <1>6, <2>1, <2>3 DEF TasksTypeOK
  <2> QED
    BY <1>3, <2>3, <2>4 DEF TasksInv, OvertakersPassed
<1>12. current_task' # NoTask /\ next_pid' > 1
  BY <1>1 DEF TasksTypeOK
<1> QED
  BY <1>9, <1>10, <1>11, <1>12 DEF TasksInv, InitialTaskFirst
-----------------------------------------------------------------------------
(* schedule, called with the tasks in the states st.                       *)

\* What a call of schedule() starts from: a task that runs, and has marked
\* itself ended when the call is the one of task_exit.
CalledWith(st) ==
  /\ TasksInv /\ Runs
  /\ st \in {state, [state EXCEPT ![current_task] = "TERMINATED"]}

\* The state of each task in st.
LEMMA CalledWithStates ==
  ASSUME NEW st, CalledWith(st)
  PROVE  /\ TasksTypeOK /\ st \in [Task -> State]
         /\ current_task \in allocated /\ current_task \in Task /\ allocated \subseteq Task
         /\ st[current_task] \in {"RUNNING", "TERMINATED"}
         /\ \A t \in Task \ {current_task} : st[t] = state[t]
         /\ Reapable(st) = Reapable(state)
         /\ \A t, u \in Reapable(st) : t = u
         /\ current_task \notin Reapable(st) /\ Reapable(st) \subseteq allocated
<1>1. /\ TasksTypeOK /\ current_task \in allocated /\ current_task \in Task
      /\ state[current_task] = "RUNNING" /\ allocated \subseteq Task
      /\ \A t, u \in Reapable(state) : t = u
  BY DEF CalledWith, TasksInv, QueueIsAllocated, TasksTypeOK, Runs
<1>2. /\ st \in [Task -> State] /\ st[current_task] \in {"RUNNING", "TERMINATED"}
      /\ \A t \in Task \ {current_task} : st[t] = state[t]
  BY <1>1 DEF CalledWith, TasksTypeOK, State
<1>3. Reapable(st) = Reapable(state)
  BY <1>1, <1>2 DEF Reapable
<1> QED
  BY <1>1, <1>2, <1>3 DEF Reapable

\* After the reaping everyone but the current task is ready, and the queue links
\* what is left (task.c:99-103).
LEMMA ReapingLeavesReady ==
  ASSUME NEW st, CalledWith(st), task_queue' = Reaped(st),
         allocated' = allocated \ Reapable(st), stack' = stack \ Reapable(st)
  PROVE  /\ task_queue' \in Seq(Task)
         /\ \A t \in Task : t \in allocated' <=> \E i \in DOMAIN task_queue' : task_queue'[i] = t
         /\ \A i, j \in DOMAIN task_queue' : task_queue'[i] = task_queue'[j] => i = j
         /\ current_task \in allocated' /\ stack' \subseteq allocated'
         /\ \A t \in allocated' \ {current_task} : st[t] = "READY"
<1> DEFINE q == task_queue
           r == task_queue'
<1>1. /\ TasksTypeOK /\ st \in [Task -> State]
      /\ current_task \in allocated /\ current_task \in Task /\ allocated \subseteq Task
      /\ \A t \in Task \ {current_task} : st[t] = state[t]
      /\ \A t, u \in Reapable(st) : t = u
      /\ current_task \notin Reapable(st)
  BY CalledWithStates
<1>2. /\ QueueIsAllocated /\ OnlyCurrentRuns
      /\ \A t \in Task : t \in allocated <=> \E i \in DOMAIN q : q[i] = t
      /\ \A i, j \in DOMAIN q : q[i] = q[j] => i = j
      /\ stack \subseteq allocated
      /\ q \in Seq(Task)
  BY DEF CalledWith, TasksInv, QueueIsAllocated, TasksTypeOK
<1>3. /\ r \in Seq(Task)
      /\ \A i \in DOMAIN r : r[i] \notin Reapable(st)
  BY <1>1, <1>2, ReapKeepsOrder
<1>4. PICK f : /\ InOrder(f, q, r)
               /\ \A m \in DOMAIN q :
                    q[m] \notin Reapable(st) => \E i \in DOMAIN r : f[i] = m
  BY <1>1, <1>2, ReapKeepsOrder
<1>5. /\ \A i \in DOMAIN r : f[i] \in DOMAIN q /\ r[i] = q[f[i]]
      /\ \A i, j \in DOMAIN r : i < j => f[i] < f[j]
  BY <1>4 DEF InOrder
<1>6. \A i, j \in DOMAIN r : r[i] = r[j] => i = j
  <2>1. SUFFICES ASSUME NEW i \in DOMAIN r, NEW j \in DOMAIN r, r[i] = r[j] PROVE i = j
    OBVIOUS
  <2>2. f[i] = f[j] /\ f[i] \in Nat
    BY <1>2, <1>5, <2>1
  <2>3. ~(i < j) /\ ~(j < i)
    BY <1>5, <2>2
  <2>4. i \in Nat /\ j \in Nat
    BY <1>3
  <2> QED
    BY <2>3, <2>4
<1>7. ASSUME NEW t \in Task
      PROVE  t \in allocated' <=> \E i \in DOMAIN r : r[i] = t
  <2>1. ASSUME t \in allocated' PROVE \E i \in DOMAIN r : r[i] = t
    <3>1. PICK m \in DOMAIN q : q[m] = t
      BY <1>2, <2>1
    <3>2. PICK i \in DOMAIN r : f[i] = m
      BY <1>4, <2>1, <3>1
    <3> QED
      BY <1>5, <3>1, <3>2
  <2>2. ASSUME NEW i \in DOMAIN r, r[i] = t PROVE t \in allocated'
    BY <1>2, <1>3, <1>5, <2>2
  <2> QED
    BY <2>1, <2>2
<1>8. ASSUME NEW t \in allocated' \ {current_task} PROVE st[t] = "READY"
  <2>1. t \in allocated /\ t \in Task /\ st[t] = state[t] /\ t \notin Reapable(st)
    BY <1>1
  <2>2. state[t] # "RUNNING" /\ st[t] # "TERMINATED"
    BY <1>2, <2>1 DEF OnlyCurrentRuns, Reapable
  <2> QED
    BY <1>1, <2>1, <2>2 DEF State
<1> QED
  BY <1>1, <1>2, <1>3, <1>6, <1>7, <1>8

\* The order of the queue carries the overtakers' order over the reaping.
LEMMA ReapingKeepsPassed ==
  ASSUME NEW st, CalledWith(st), task_queue' = Reaped(st),
         NEW i \in DOMAIN task_queue', NEW j \in DOMAIN task_queue',
         NEW c \in DOMAIN task_queue',
         state[task_queue'[i]] = "READY", task_queue'[c] = current_task,
         task_queue'[j] \in overtook[task_queue'[i]]
  PROVE  Passed(i, j, c)
<1> DEFINE q == task_queue
           r == task_queue'
<1>1. /\ QueueIsAllocated /\ OvertakersPassed /\ q \in Seq(Task)
      /\ \A t, u \in Reapable(st) : t = u
  BY CalledWithStates DEF CalledWith, TasksInv, TasksTypeOK
<1>2. PICK f : InOrder(f, q, r)
  BY <1>1, ReapKeepsOrder
<1>3. r \in Seq(Task)
  BY <1>1, ReapKeepsOrder
<1>4. /\ \A k \in DOMAIN r : f[k] \in DOMAIN q /\ r[k] = q[f[k]]
      /\ \A k, l \in DOMAIN r : k < l => f[k] < f[l]
  BY <1>2 DEF InOrder
<1>5. Passed(f[i], f[j], f[c])
  BY <1>1, <1>4 DEF OvertakersPassed
<1>6. DOMAIN q \subseteq Nat /\ DOMAIN r \subseteq Nat
  BY <1>1, <1>3
<1>7. /\ i < c <=> f[i] < f[c]
      /\ i < j <=> f[i] < f[j]
      /\ j <= c <=> f[j] <= f[c]
  BY <1>4, <1>6
<1> QED
  BY <1>5, <1>7 DEF Passed

\* A call that finds nobody ready: only the current task is left.
LEMMA StayKeepsInv ==
  ASSUME NEW st, CalledWith(st), task_queue' = Reaped(st),
         allocated' = allocated \ Reapable(st), stack' = stack \ Reapable(st),
         UNCHANGED <<pid, next_pid, current_task, overtook>>,
         ReadyPlaces(task_queue', st) = {}, state' = st
  PROVE  TasksInv'
<1> USE TasksAssumption
<1>1. /\ TasksTypeOK /\ st \in [Task -> State] /\ current_task \in Task
      /\ st[current_task] \in {"RUNNING", "TERMINATED"}
      /\ allocated \subseteq Task
  BY CalledWithStates
<1>2. /\ task_queue' \in Seq(Task)
      /\ \A t \in Task : t \in allocated' <=> \E i \in DOMAIN task_queue' : task_queue'[i] = t
      /\ \A i, j \in DOMAIN task_queue' : task_queue'[i] = task_queue'[j] => i = j
      /\ current_task \in allocated' /\ stack' \subseteq allocated'
      /\ \A t \in allocated' \ {current_task} : st[t] = "READY"
  BY ReapingLeavesReady
<1>3. \A t \in allocated' : st[t] # "READY"
  BY <1>1, <1>2 DEF ReadyPlaces
<1>4. allocated' = {current_task}
  BY <1>2, <1>3
<1>5. TasksTypeOK'
  BY <1>1, <1>2 DEF TasksTypeOK
<1>6. Reapable(state)' = {}
  BY <1>4 DEF Reapable
<1>7. \A t \in allocated' : t \in stack' <=> pid'[t] # 1
  BY <1>2, <1>4 DEF CalledWith, TasksInv, QueueIsAllocated
<1>8. QueueIsAllocated'
  BY <1>2, <1>5, <1>6, <1>7 DEF QueueIsAllocated
<1>9. OnlyCurrentRuns'
  BY <1>1, <1>4 DEF OnlyCurrentRuns
<1>10. OvertakersPassed'
  BY <1>2, <1>3 DEF OvertakersPassed
<1>11. InitialTaskFirst'
  BY <1>1 DEF CalledWith, TasksInv, InitialTaskFirst
<1> QED
  BY <1>8, <1>9, <1>10, <1>11 DEF TasksInv

\* A call that switches: to a task n at place m of the new queue, the first ready
\* one behind the place c of the task that called.
Switched(st, m, c) ==
  /\ m \in DOMAIN task_queue' /\ c \in DOMAIN task_queue'
  /\ task_queue'[c] = current_task /\ st[task_queue'[m]] = "READY"
  /\ \A i \in DOMAIN task_queue' : st[task_queue'[i]] = "READY" => MetFirst(m, c, i)
  /\ current_task' = task_queue'[m]
  /\ state' = [t \in Task |->
       IF t = task_queue'[m] THEN "RUNNING"
       ELSE IF t = current_task /\ st[t] = "RUNNING" THEN "READY" ELSE st[t]]
  /\ overtook' = [t \in Task |-> IF t \in {task_queue'[m], current_task} THEN {}
                                 ELSE overtook[t] \cup {task_queue'[m]}]

\* A call of schedule either finds nobody ready or switches (task.c:99-125).
LEMMA ScheduleCases ==
  ASSUME NEW st, CalledWith(st), schedule(st)
  PROVE  /\ task_queue' = Reaped(st) /\ allocated' = allocated \ Reapable(st)
         /\ stack' = stack \ Reapable(st) /\ UNCHANGED <<pid, next_pid>>
         /\ \/ /\ ReadyPlaces(task_queue', st) = {} /\ state' = st
               /\ UNCHANGED <<current_task, overtook>>
            \/ \E m, c \in DOMAIN task_queue' : Switched(st, m, c)
<1>1. /\ task_queue' = Reaped(st) /\ allocated' = allocated \ Reapable(st)
      /\ stack' = stack \ Reapable(st) /\ UNCHANGED <<pid, next_pid>>
  BY DEF schedule
<1>2. CASE ReadyPlaces(task_queue', st) = {}
  BY <1>1, <1>2 DEF schedule
<1>3. CASE ReadyPlaces(task_queue', st) # {}
  <2> DEFINE r == task_queue'
             n == NextReady(r, st)
  <2>1. /\ current_task' = n
        /\ state' = [st EXCEPT ![n] = "RUNNING",
                       ![current_task] = IF @ = "RUNNING" THEN "READY" ELSE @]
        /\ overtook' = [t \in Task |-> IF t \in {n, current_task} THEN {}
                                       ELSE overtook[t] \cup {n}]
    BY <1>1, <1>3, Zenon DEF schedule
  <2>2. /\ r \in Seq(Task) /\ current_task \in allocated' /\ allocated' \subseteq Task
        /\ \A t \in Task : t \in allocated' <=> \E i \in DOMAIN r : r[i] = t
        /\ \A i, j \in DOMAIN r : r[i] = r[j] => i = j
        /\ st \in [Task -> State] /\ st[current_task] # "READY"
    BY <1>1, ReapingLeavesReady, CalledWithStates
  <2>3. PICK c \in DOMAIN r : r[c] = current_task
    BY <2>2
  <2>4. PICK m \in DOMAIN r :
               /\ n = r[m] /\ st[r[m]] = "READY"
               /\ \A i \in DOMAIN r : st[r[i]] = "READY" => MetFirst(m, c, i)
    BY <1>3, <2>2, <2>3, NextReadyIsFirst
  <2> HIDE DEF n
  <2>5. n \in Task /\ n # current_task /\ current_task \in Task
    BY <2>2, <2>4
  <2>6. state' = [t \in Task |-> IF t = n THEN "RUNNING"
                     ELSE IF t = current_task /\ st[t] = "RUNNING" THEN "READY" ELSE st[t]]
    BY <2>1, <2>2, <2>5
  <2>7. Switched(st, m, c)
    BY <2>1, <2>3, <2>4, <2>6 DEF Switched
  <2> QED
    BY <1>1, <2>7
<1> QED
  BY <1>2, <1>3

\* The task switched to has not yet passed anyone who stays ready: it stands, going
\* round, behind the current task and not behind them.
LEMMA SwitchedIsNew ==
  ASSUME NEW st, CalledWith(st), task_queue' = Reaped(st),
         allocated' = allocated \ Reapable(st), stack' = stack \ Reapable(st),
         NEW m, NEW c, Switched(st, m, c),
         NEW i \in DOMAIN task_queue', st[task_queue'[i]] = "READY", i # m
  PROVE  /\ task_queue'[m] \notin overtook[task_queue'[i]]
         /\ \A j \in DOMAIN task_queue' :
              task_queue'[j] \in overtook[task_queue'[i]] => Passed(i, j, m)
         /\ Passed(i, m, m)
<1> DEFINE r == task_queue'
<1>1. /\ m \in DOMAIN r /\ c \in DOMAIN r /\ r[c] = current_task /\ MetFirst(m, c, i)
      /\ MetFirst(m, c, m)
  BY DEF Switched
<1>2. /\ r \in Seq(Task) /\ DOMAIN r \subseteq Nat
  BY ReapingLeavesReady
<1>3. /\ state[r[i]] = "READY" /\ r[i] # current_task /\ i # c
  BY <1>1, <1>2, CalledWithStates
<1>4. \A j \in DOMAIN r : r[j] \in overtook[r[i]] => Passed(i, j, c)
  BY <1>1, <1>3, ReapingKeepsPassed
<1>5. ~Passed(i, m, c)
  BY <1>1, <1>2, <1>3 DEF Passed, MetFirst
<1>6. \A j \in DOMAIN r : Passed(i, j, c) => Passed(i, j, m)
  BY <1>1, <1>2, <1>3 DEF Passed, MetFirst
<1>7. Passed(i, m, m)
  BY <1>1, <1>2 DEF Passed
<1> QED
  BY <1>1, <1>4, <1>5, <1>6, <1>7

\* A call that switches keeps the invariant.
LEMMA SwitchKeepsInv ==
  ASSUME NEW st, CalledWith(st), task_queue' = Reaped(st),
         allocated' = allocated \ Reapable(st), stack' = stack \ Reapable(st),
         UNCHANGED <<pid, next_pid>>,
         NEW m, NEW c, Switched(st, m, c)
  PROVE  TasksInv'
<1> USE TasksAssumption
<1> DEFINE r == task_queue'
           n == task_queue'[m]
<1>1. /\ TasksTypeOK /\ st \in [Task -> State] /\ current_task \in Task
      /\ st[current_task] \in {"RUNNING", "TERMINATED"}
      /\ allocated \subseteq Task
  BY CalledWithStates
<1>2. /\ r \in Seq(Task)
      /\ \A t \in Task : t \in allocated' <=> \E i \in DOMAIN r : r[i] = t
      /\ \A i, j \in DOMAIN r : r[i] = r[j] => i = j
      /\ current_task \in allocated' /\ stack' \subseteq allocated'
      /\ \A t \in allocated' \ {current_task} : st[t] = "READY"
  BY ReapingLeavesReady
<1>3. /\ m \in DOMAIN r /\ st[n] = "READY" /\ current_task' = n
      /\ state' = [t \in Task |->
            IF t = n THEN "RUNNING"
            ELSE IF t = current_task /\ st[t] = "RUNNING" THEN "READY" ELSE st[t]]
      /\ overtook' = [t \in Task |-> IF t \in {n, current_task} THEN {}
                                     ELSE overtook[t] \cup {n}]
  BY Zenon DEF Switched
<1>4. n \in Task /\ n \in allocated' /\ n # current_task
  BY <1>1, <1>2, <1>3
<1>5. allocated' \subseteq Task
  BY <1>1
<1>6. TasksTypeOK'
  <2>1. state' \in [Task -> State]
    BY <1>1, <1>3 DEF State
  <2>2. overtook' \in [Task -> SUBSET Task]
    BY <1>1, <1>3, <1>4 DEF TasksTypeOK
  <2> QED
    BY <1>1, <1>2, <1>3, <1>4, <1>5, <2>1, <2>2 DEF TasksTypeOK
<1>7. \A t \in Task : /\ state'[t] = "RUNNING" => t = n \/ (t # current_task /\ st[t] = "RUNNING")
                      /\ state'[t] = "TERMINATED" => st[t] = "TERMINATED"
  BY <1>1, <1>3
<1>8. \A t, u \in Reapable(state)' : t = u
  BY <1>2, <1>5, <1>7 DEF Reapable
<1>9. \A t \in allocated' : t \in stack' <=> pid'[t] # 1
  <2>1. \A t \in allocated : t \in stack <=> pid[t] # 1
    BY DEF CalledWith, TasksInv, QueueIsAllocated
  <2> QED
    BY <2>1
<1>10. QueueIsAllocated'
  BY <1>2, <1>3, <1>4, <1>6, <1>8, <1>9 DEF QueueIsAllocated
<1>11. OnlyCurrentRuns'
  BY <1>2, <1>3, <1>4, <1>5, <1>7 DEF OnlyCurrentRuns
<1>12. OvertakersPassed'
  <2>1. SUFFICES ASSUME NEW i \in DOMAIN r, NEW j \in DOMAIN r, NEW k \in DOMAIN r,
                        state'[r[i]] = "READY", r[k] = n, r[j] \in overtook'[r[i]]
                 PROVE  Passed(i, j, k)
    BY <1>3 DEF OvertakersPassed
  <2>2. k = m
    BY <1>2, <1>3, <2>1
  <2>3. r[i] \in Task /\ r[i] # n /\ r[i] # current_task
    BY <1>2, <1>3, <2>1
  <2>4. st[r[i]] = "READY" /\ i # m
    BY <1>3, <2>1, <2>3
  <2>5. r[j] \in overtook[r[i]] \/ r[j] = n
    BY <1>3, <2>1, <2>3
  <2>6. CASE r[j] = n
    <3>1. j = m
      BY <1>2, <1>3, <2>6
    <3> QED
      BY <2>2, <2>4, <3>1, SwitchedIsNew
  <2>7. CASE r[j] \in overtook[r[i]]
    BY <2>2, <2>4, <2>7, SwitchedIsNew
  <2> QED
    BY <2>5, <2>6, <2>7
<1>13. InitialTaskFirst'
  BY <1>1, <1>3, <1>4 DEF CalledWith, TasksInv, InitialTaskFirst
<1> QED
  BY <1>10, <1>11, <1>12, <1>13 DEF TasksInv

\* Yield and task_exit keep the invariant.
LEMMA ScheduleKeepsInv == ASSUME NEW st, CalledWith(st), schedule(st) PROVE TasksInv'
  BY ScheduleCases, StayKeepsInv, SwitchKeepsInv

\* The calls of schedule are the two that CalledWith describes (task.c:99-137).
LEMMA YieldAndExit ==
  ASSUME TasksInv
  PROVE  /\ Yield => \E st : CalledWith(st) /\ schedule(st)
         /\ task_exit => \E st : CalledWith(st) /\ schedule(st)
  BY DEF Yield, task_exit, CalledWith

\* Every step keeps the invariant.
LEMMA TasksInvNext == TasksInv /\ [TasksNext]_taskVars => TasksInv'
<1> SUFFICES ASSUME TasksInv, [TasksNext]_taskVars PROVE TasksInv'
  OBVIOUS
<1>1. ASSUME NEW t \in Task, tasking_init(t) PROVE TasksInv'
  BY <1>1, InitTaskKeepsInv
<1>2. ASSUME NEW t \in Task, task_create(t) PROVE TasksInv'
  BY <1>2, CreateKeepsInv
<1>3. CASE Yield \/ task_exit
  BY <1>3, YieldAndExit, ScheduleKeepsInv
<1>4. CASE UNCHANGED taskVars
  BY <1>4 DEF taskVars, TasksInv, QueueIsAllocated, TasksTypeOK, OnlyCurrentRuns, Reapable,
     OvertakersPassed, InitialTaskFirst
<1> QED
  BY <1>1, <1>2, <1>3, <1>4 DEF TasksNext, task_create_fails

\* The queue links exactly what is allocated, the current task included, each
\* once, and at most one ended task waits to be reaped (task.c:12-31, 87-94 and
\* 127-133), for any number of tasks.
THEOREM QueueLinksAllocated == TasksSpec => []QueueIsAllocated
<1>1. TasksInv => QueueIsAllocated
  BY DEF TasksInv
<1> QED
  BY TasksInvInit, TasksInvNext, <1>1, PTL DEF TasksSpec

\* Only the current task is marked running, and it halts for good only when no
\* task was ready (task.c:105-120 and 131-137).
THEOREM OnlyTheCurrentRuns == TasksSpec => []OnlyCurrentRuns
<1>1. TasksInv => OnlyCurrentRuns
  BY DEF TasksInv
<1> QED
  BY TasksInvInit, TasksInvNext, <1>1, PTL DEF TasksSpec

\* No task is switched to twice while another one stays ready, whatever is
\* created, ends and is reaped in between (task.c:103-109).
THEOREM NobodyIsOvertakenTwice == TasksSpec => NobodyOvertakesTwice
<1>1. TasksInv /\ [TasksNext]_taskVars =>
        [\A t \in allocated :
           current_task' # current_task /\ state[t] = "READY" /\ state'[t] = "READY"
             => current_task' \notin overtook[t]]_taskVars
  <2> SUFFICES ASSUME TasksInv, TasksNext, current_task' # current_task,
                      NEW t \in allocated, state[t] = "READY", state'[t] = "READY"
               PROVE  current_task' \notin overtook[t]
    BY DEF taskVars
  <2>1. ASSUME NEW u \in Task, tasking_init(u) PROVE FALSE
    BY <2>1 DEF TasksInv, InitialTaskFirst, tasking_init
  <2>2. ASSUME NEW st, CalledWith(st), schedule(st) PROVE current_task' \notin overtook[t]
    <3>1. /\ task_queue' = Reaped(st) /\ allocated' = allocated \ Reapable(st)
          /\ stack' = stack \ Reapable(st)
      BY <2>2, ScheduleCases
    <3>2. PICK m, c \in DOMAIN task_queue' : Switched(st, m, c)
      BY <2>2, ScheduleCases
    <3>3. /\ t \in Task /\ t # current_task /\ st[t] = "READY"
          /\ t \in allocated'
      <4>1. t # current_task
        BY <2>2 DEF CalledWith, Runs
      <4>2. t \in Task /\ st[t] = "READY"
        BY <2>2, <4>1, CalledWithStates
      <4> QED
        BY <3>1, <4>1, <4>2 DEF Reapable
    <3>4. PICK i \in DOMAIN task_queue' : task_queue'[i] = t
      BY <2>2, <3>1, <3>3, ReapingLeavesReady
    <3>5. current_task' = task_queue'[m] /\ state'[task_queue'[m]] = "RUNNING"
      <4>1. task_queue' \in Seq(Task)
        BY <2>2, <3>1, ReapingLeavesReady
      <4> QED
        BY <3>2, <4>1 DEF Switched
    <3>6. i # m
      BY <3>4, <3>5
    <3> QED
      <4>1. st[task_queue'[i]] = "READY"
        BY <3>3, <3>4
      <4>2. task_queue'[m] \notin overtook[task_queue'[i]]
        BY <2>2, <3>1, <3>2, <3>6, <4>1, SwitchedIsNew
      <4> QED
        BY <3>4, <3>5, <4>2
  <2> QED
    BY <2>1, <2>2, YieldAndExit DEF TasksNext, task_create, task_create_fails, taskVars
<1> QED
  BY TasksInvInit, TasksInvNext, <1>1, PTL DEF TasksSpec, NobodyOvertakesTwice
=============================================================================
