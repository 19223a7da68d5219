----------------------------- MODULE MCBuddyHeap -----------------------------
(***************************************************************************)
(* BuddyHeap on a heap of eight smallest blocks (32 to 256 bytes) with a   *)
(* size_t of nine bits: a request for each of the four orders, two of      *)
(* which just fit their block, kmalloc_aligned, and requests that are      *)
(* refused: zero, one byte too many, and too many for the arithmetic of    *)
(* each of the two functions.  Callers free twice.                         *)
(***************************************************************************)
EXTENDS BuddyHeap

Plain(n)       == [size |-> n, alignment |-> 0]
Wanting(n, al) == [size |-> n, alignment |-> al]

Requests == {Plain(0), Plain(1), Plain(48), Plain(104), Plain(240), Plain(241),
             Plain(508), Wanting(8, 20), Wanting(450, 64)}

\* Payload bytes that look like a free block of the smallest order.
MCJunk == {[order |-> MIN_BLOCK_SHIFT, free |-> TRUE, self |-> HEAP_START]}
=============================================================================
