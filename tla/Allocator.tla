------------------------------ MODULE Allocator ------------------------------
(***************************************************************************)
(* What kmalloc and kfree promise their callers: the byte ranges handed    *)
(* out lie in the heap, are aligned and never overlap until they are given *)
(* back.  The buddy allocator of BuddyHeap implements it.                  *)
(***************************************************************************)
EXTENDS Integers, FiniteSets

CONSTANT HeapBytes   \* the addresses of the heap

VARIABLE owned       \* the ranges handed out: records [ptr, size, align]

Bytes(r) == r.ptr .. r.ptr + r.size - 1

AllocatorInit == owned = {}

\* A range that touches nothing handed out before.
Allocate(r) ==
  /\ r.size > 0
  /\ r.ptr % r.align = 0
  /\ Bytes(r) \subseteq HeapBytes
  /\ \A s \in owned : Bytes(r) \cap Bytes(s) = {}
  /\ owned' = owned \cup {r}

\* The owner gives a range back.
Release(r) == r \in owned /\ owned' = owned \ {r}

AllocatorNext ==
  \/ \E r \in owned' \ owned : Allocate(r)
  \/ \E r \in owned : Release(r)

AllocatorSpec == AllocatorInit /\ [][AllocatorNext]_owned
=============================================================================
