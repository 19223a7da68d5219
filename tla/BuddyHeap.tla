------------------------------ MODULE BuddyHeap ------------------------------
(***************************************************************************)
(* The kernel heap (kernel/heap.c): a binary buddy allocator over one      *)
(* block of 2^MAX_BLOCK_SHIFT bytes.  Every block starts with a header in  *)
(* the heap itself; a block's buddy is found by arithmetic on its address  *)
(* and what is read there is believed to be a header.  The headers are     *)
(* therefore modelled as memory: what a block once was stays there when it *)
(* is merged, and the payload of a block handed out holds whatever its     *)
(* owner writes (Junk).                                                    *)
(*                                                                         *)
(* One action is one iteration of a loop of the code: the split loop of    *)
(* buddy_alloc and the loop of coalesce.  The heap is used from the        *)
(* foreground only, so nothing interleaves with them.  A free list is the  *)
(* sequence of the addresses linked from its head.  Only the branch of     *)
(* kmalloc_init that the constants of heap.h select is modelled.           *)
(***************************************************************************)
EXTENDS Integers, Sequences, FiniteSets

CONSTANTS
  MIN_BLOCK_SHIFT, MAX_BLOCK_SHIFT,
  HEADER_SIZE,          \* sizeof(block_t)
  WORD,                 \* sizeof(uintptr_t) = sizeof(void *)
  SIZE_MAX,             \* (size_t)-1
  Request,              \* the calls made: records [size, alignment], alignment
                        \* 0 for kmalloc and more for kmalloc_aligned; one above
                        \* 2^(MAX_BLOCK_SHIFT + 1) is refused like that one
  Junk,                 \* what payload bytes may look like when read as a header
  MayDoubleFree         \* whether callers may free twice

ASSUME HeapAssumption ==
  /\ MIN_BLOCK_SHIFT \in Nat /\ MAX_BLOCK_SHIFT \in Nat
  /\ MIN_BLOCK_SHIFT <= MAX_BLOCK_SHIFT
  /\ HEADER_SIZE \in Nat \ {0} /\ HEADER_SIZE % 8 = 0 /\ HEADER_SIZE < 2^MIN_BLOCK_SHIFT
  /\ WORD \in Nat \ {0} /\ WORD <= HEADER_SIZE /\ MayDoubleFree \in BOOLEAN
  /\ SIZE_MAX \in Nat /\ SIZE_MAX >= 2^MAX_BLOCK_SHIFT
  /\ Request \subseteq [size : 0 .. SIZE_MAX, alignment : 0 .. 2^(MAX_BLOCK_SHIFT + 1)]
  /\ Junk \subseteq [order : Nat, free : BOOLEAN, self : Nat]

\* What is used of 1UL << k.
ASSUME PowersOfTwo ==
  2^0 = 1 /\ \A k \in 0 .. MAX_BLOCK_SHIFT : 2^k \in Nat \ {0} /\ 2^(k + 1) = 2 * 2^k

VARIABLES
  free_lists,    \* per order, the free blocks from the head on
  hdr,           \* per block address, the bytes there read as a header
  live,          \* the allocations handed out: records [ptr, size, align, block]
  freed,         \* those given back and not handed out again since
  pc,            \* "idle", "split", "coalesce" or "halted"
  req, order, o, \* buddy_alloc: the request, the order it needs, the loop's o
  block,         \* coalesce: its block
  misused        \* a caller has freed something twice

listVars == <<free_lists, hdr>>
userVars == <<live, freed, misused>>
locals   == <<req, order, o, block>>
heapVars == <<listVars, userVars, pc, locals>>

Order     == MIN_BLOCK_SHIFT .. MAX_BLOCK_SHIFT
HEAP_START == 2^MAX_BLOCK_SHIFT      \* any non-zero multiple of the block
HeapBytes == HEAP_START .. HEAP_START + 2^MAX_BLOCK_SHIFT - 1
BlockAddr == {c \in HeapBytes : c % 2^MIN_BLOCK_SHIFT = 0}

Header == [order : Nat, free : BOOLEAN, self : Nat]

\* addr ^ (1 << order)
buddy_of(b, k) == IF (b \div 2^k) % 2 = 0 THEN b + 2^k ELSE b - 2^k

\* insert_free_block and remove_free_block on one list: the first link to b goes.
insert_free_block(lists, b, k) == [lists EXCEPT ![k] = <<b>> \o @]
remove_free_block(lists, b, k) ==
  LET q == lists[k]
      n == CHOOSE i \in DOMAIN q : q[i] = b /\ \A j \in 1 .. i - 1 : q[j] # b
  IN  [lists EXCEPT ![k] = SubSeq(q, 1, n - 1) \o SubSeq(q, n + 1, Len(q))]

Linked(b, k) == \E i \in DOMAIN free_lists[k] : free_lists[k][i] = b

\* Size arithmetic of size_t.
Add(m, n) == (m + n) % (SIZE_MAX + 1)

\* alignment raised to a power of two not below the word.
Aligned(n) == CHOOSE a \in {2^k : k \in 0 .. MAX_BLOCK_SHIFT + 1} :
                /\ a >= n /\ a >= WORD
                /\ \A c \in {2^k : k \in 0 .. MAX_BLOCK_SHIFT + 1} :
                     c >= n /\ c >= WORD => a <= c

\* What kmalloc is asked for, and whether kmalloc_aligned refuses before.
RawSize(r) == IF r.alignment = 0 THEN r.size
              ELSE Add(Add(r.size, Aligned(r.alignment)), WORD)
\* Faulty: the sum of size, alignment and word is not guarded.
SizeUnguarded(r) == r.size = 0 \/ RawSize(r) > SIZE_MAX - 7

SizeRefused(r) ==
  \/ r.size = 0
  \/ r.alignment # 0 /\ r.size > SIZE_MAX - Aligned(r.alignment) - WORD
  \/ RawSize(r) > SIZE_MAX - 7

\* The bytes the block has to have: the size rounded up to 8, and the header.
Rounded(n) == (Add(n, 7) \div 8) * 8
Total(r)   == Add(Rounded(RawSize(r)), HEADER_SIZE)
TotalRefused(r) == \/ Rounded(RawSize(r)) > SIZE_MAX - HEADER_SIZE
                   \/ Total(r) > 2^MAX_BLOCK_SHIFT

\* The smallest order that has room.
OrderFor(r) == CHOOSE k \in Order : /\ 2^k >= Total(r)
                                    /\ \A j \in Order : 2^j >= Total(r) => k <= j

\* Faulty: HEADER_SIZE added to a block_t pointer, not to its address.
PayloadScaled(b) == b + HEADER_SIZE * HEADER_SIZE

\* The pointer returned for a block, and the word before it, which kfree reads.
Payload(b)    == b + HEADER_SIZE
Pointer(r, b) == IF r.alignment = 0 THEN Payload(b)
                 ELSE LET a == Aligned(r.alignment)
                      IN  ((Payload(b) + WORD + a - 1) \div a) * a
Promised(r)   == IF r.alignment = 0 THEN 8 ELSE Aligned(r.alignment)
BackWord(a)   == IF a.ptr = Payload(a.block) THEN hdr[a.block].self ELSE a.block

\* The locals of a call that has returned.
Returned == /\ pc' = "idle"
            /\ req' = [size |-> 0, alignment |-> 0]
            /\ order' = MAX_BLOCK_SHIFT /\ o' = MAX_BLOCK_SHIFT
            /\ block' = HEAP_START

HeapInit ==
  /\ free_lists = [k \in Order |-> IF k = MAX_BLOCK_SHIFT THEN <<HEAP_START>> ELSE <<>>]
  /\ \E j \in [BlockAddr -> Junk] :
       hdr = [b \in BlockAddr |->
                IF b = HEAP_START
                THEN [order |-> MAX_BLOCK_SHIFT, free |-> TRUE, self |-> 0]
                ELSE j[b]]
  /\ live = {} /\ freed = {} /\ misused = FALSE
  /\ pc = "idle"
  /\ req = [size |-> 0, alignment |-> 0]
  /\ order = MAX_BLOCK_SHIFT /\ o = MAX_BLOCK_SHIFT /\ block = HEAP_START
-----------------------------------------------------------------------------
(* kmalloc and kmalloc_aligned.                                            *)

Candidates(k) == {j \in Order : j >= k /\ free_lists[j] # <<>>}

CanServe(r) == /\ ~SizeRefused(r) /\ ~TotalRefused(r)
               /\ Candidates(OrderFor(r)) # {}

\* A request that is refused: nothing changes and NULL is returned.
AllocFails(r) ==
  /\ pc = "idle"
  /\ ~CanServe(r)
  /\ UNCHANGED heapVars

\* A request that can be met: the first order whose list is not empty.
AllocBegin(r) ==
  /\ pc = "idle"
  /\ CanServe(r)
  /\ req' = r
  /\ order' = OrderFor(r)
  /\ o' = CHOOSE j \in Candidates(OrderFor(r)) :
            \A i \in Candidates(OrderFor(r)) : j <= i
  /\ pc' = "split"
  /\ UNCHANGED <<listVars, userVars, block>>

\* One split_block(o).
Split ==
  /\ pc = "split" /\ o > order
  /\ LET b == Head(free_lists[o])
         c == buddy_of(b, o - 1)
         unlinked == remove_free_block(free_lists, b, o)
     IN  /\ hdr' = [hdr EXCEPT ![b].order = o - 1, ![b].free = TRUE,
                               ![c] = [order |-> o - 1, free |-> TRUE, self |-> 0]]
         /\ free_lists' = insert_free_block(insert_free_block(unlinked, b, o - 1), c, o - 1)
  /\ o' = o - 1
  /\ UNCHANGED <<userVars, pc, req, order, block>>

\* Faulty: the block stays marked free.
TakeStaysFree ==
  /\ pc = "split" /\ o = order
  /\ LET b == Head(free_lists[order])
     IN  /\ free_lists' = remove_free_block(free_lists, b, order)
         /\ hdr' = [hdr EXCEPT ![b].self = b]
         /\ live' = live \cup {[ptr |-> Pointer(req, b), size |-> req.size,
                             align |-> Promised(req), block |-> b]}
  /\ Returned
  /\ UNCHANGED <<freed, misused>>

\* The block is taken off its list and handed out; its owner may write
\* anything behind the header.  What was freed before counts as given back only
\* until its block, or the word kfree would read, is somebody else's.
Take ==
  /\ pc = "split" /\ o = order
  /\ LET b == Head(free_lists[order])
         payload == {c \in BlockAddr : b < c /\ c < b + 2^order}
     IN  /\ free_lists' = remove_free_block(free_lists, b, order)
         /\ \E j \in [payload -> Junk] :
              hdr' = [c \in BlockAddr |->
                        CASE c = b           -> [hdr[b] EXCEPT !.free = FALSE, !.self = b]
                          [] c \in payload   -> j[c]
                          [] OTHER           -> hdr[c]]
         /\ live' = live \cup {[ptr |-> Pointer(req, b), size |-> req.size,
                             align |-> Promised(req), block |-> b]}
         /\ freed' = {f \in freed : f.block # b /\ f.block \notin payload
                                    /\ f.ptr - WORD \notin b .. b + 2^order - 1}
  /\ Returned
  /\ UNCHANGED misused
-----------------------------------------------------------------------------
(* kfree.                                                                  *)

\* Faulty: the block may be free already.
FreeUnchecked(a) ==
  LET b == BackWord(a)
  IN  IF b = 0
      THEN pc' = "halted" /\ UNCHANGED <<hdr, block>>
      ELSE /\ hdr' = [hdr EXCEPT ![b].free = TRUE]
           /\ block' = b
           /\ pc' = "coalesce"

\* The checks of buddy_free on what the word before the pointer says.
FreeChecks(a) ==
  LET b == BackWord(a)
  IN  IF b = 0 \/ (b # 0 /\ hdr[b].free)
      THEN pc' = "halted" /\ UNCHANGED <<hdr, block>>
      ELSE /\ hdr' = [hdr EXCEPT ![b].free = TRUE]
           /\ block' = b
           /\ pc' = "coalesce"

\* The owner frees an allocation.
FreeBegin(a) ==
  /\ pc = "idle" /\ a \in live
  /\ FreeChecks(a)
  /\ live' = live \ {a}
  /\ freed' = IF MayDoubleFree THEN freed \cup {a} ELSE freed
  /\ UNCHANGED <<free_lists, misused, req, order, o>>

\* A caller frees again what it has already given back.
DoubleFree(a) ==
  /\ pc = "idle" /\ a \in freed
  /\ FreeChecks(a)
  /\ misused' = TRUE
  /\ UNCHANGED <<free_lists, live, freed, req, order, o>>

Buddy == buddy_of(block, hdr[block].order)

\* Faulty: the last merge, to the whole heap, is not made.
MergesButLast ==
  /\ hdr[block].order < MAX_BLOCK_SHIFT - 1
  /\ hdr[Buddy].free /\ hdr[Buddy].order = hdr[block].order

MergesWithBuddy ==
  /\ hdr[block].order < MAX_BLOCK_SHIFT
  /\ hdr[Buddy].free /\ hdr[Buddy].order = hdr[block].order

\* Faulty: the buddy stays linked; the upper of the two is kept.
CoalesceLeavesLinked ==
  /\ pc = "coalesce" /\ MergesWithBuddy
  /\ LET k == hdr[block].order
         b == IF block > Buddy THEN Buddy ELSE block
     IN  /\ block' = b
         /\ hdr' = [hdr EXCEPT ![b].order = k + 1, ![b].free = TRUE]
  /\ UNCHANGED <<free_lists, userVars, pc, req, order, o>>

CoalesceKeepsUpper ==
  /\ pc = "coalesce" /\ MergesWithBuddy
  /\ LET k == hdr[block].order
     IN  /\ free_lists' = remove_free_block(free_lists, Buddy, k)
         /\ hdr' = [hdr EXCEPT ![block].order = k + 1, ![block].free = TRUE]
  /\ UNCHANGED <<userVars, pc, req, order, o, block>>

\* The loop of coalesce: the buddy is unlinked and the lower of the two
\* becomes the block.  A buddy that is not on its list is a corrupted list.
Coalesce ==
  /\ pc = "coalesce" /\ MergesWithBuddy
  /\ LET k == hdr[block].order
         b == IF block > Buddy THEN Buddy ELSE block
     IN  IF Linked(Buddy, k)
         THEN /\ free_lists' = remove_free_block(free_lists, Buddy, k)
              /\ block' = b
              /\ hdr' = [hdr EXCEPT ![b].order = k + 1, ![b].free = TRUE]
              /\ UNCHANGED pc
         ELSE pc' = "halted" /\ UNCHANGED <<listVars, block>>
  /\ UNCHANGED <<userVars, req, order, o>>

\* Its end: the block goes to the head of its list.
Release ==
  /\ pc = "coalesce" /\ ~MergesWithBuddy
  /\ free_lists' = insert_free_block(free_lists, block, hdr[block].order)
  /\ Returned
  /\ UNCHANGED <<hdr, userVars>>

HeapNext ==
  \/ \E r \in Request : AllocFails(r) \/ AllocBegin(r)
  \/ Split \/ Take
  \/ \E a \in live : FreeBegin(a)
  \/ \E a \in freed : DoubleFree(a)
  \/ Coalesce \/ Release

HeapSpec == HeapInit /\ [][HeapNext]_heapVars
-----------------------------------------------------------------------------
(* Properties.                                                             *)

\* Types of the variables.
HeapTypeOK ==
  /\ free_lists \in [Order -> Seq(BlockAddr)]
  /\ hdr \in [BlockAddr -> Header]
  /\ \A a \in live \cup freed : a.block \in BlockAddr /\ a.ptr \in HeapBytes
  /\ pc \in {"idle", "split", "coalesce", "halted"}
  /\ order \in Order /\ o \in Order /\ block \in BlockAddr
  /\ misused \in BOOLEAN

\* The blocks there are: those linked, those handed out, and the one in the
\* hands of coalesce, each with its order.
FreeBlocks  == {x \in BlockAddr \X Order : Linked(x[1], x[2])}
TakenBlocks == {<<a.block, hdr[a.block].order>> : a \in live}
InHand      == IF pc = "coalesce" THEN {<<block, hdr[block].order>>} ELSE {}
Blocks      == FreeBlocks \cup TakenBlocks \cup InHand

Extent(b, k) == {c \in BlockAddr : b <= c /\ c < b + 2^k}

\* Every address is in exactly one block.
EveryAddressOnce ==
  /\ UNION {Extent(x[1], x[2]) : x \in Blocks} = BlockAddr
  /\ \A x, y \in Blocks : x # y => Extent(x[1], x[2]) \cap Extent(y[1], y[2]) = {}

\* No block is linked twice, linked while it is handed out or in hand, or handed
\* out twice.
EveryBlockOnce ==
  /\ \A k \in Order : \A i, j \in DOMAIN free_lists[k] :
       i # j => free_lists[k][i] # free_lists[k][j]
  /\ FreeBlocks \cap TakenBlocks = {} /\ InHand \cap (FreeBlocks \cup TakenBlocks) = {}
  /\ Cardinality(TakenBlocks) = Cardinality(live)

\* A block's header says what the lists and the owners say of it.
HeadersTellTruth ==
  /\ \A x \in FreeBlocks : hdr[x[1]].free /\ hdr[x[1]].order = x[2]
  /\ \A a \in live : ~hdr[a.block].free /\ BackWord(a) = a.block

\* The blocks tile the heap whatever sequence of calls split and merged them, and
\* their headers know it (heap.c:95-212).
BlocksTileHeap ==
  HeapTypeOK /\ EveryAddressOnce /\ EveryBlockOnce /\ HeadersTellTruth

\* When coalesce reads a header at the buddy's address it reads the header of a
\* block there is, never the remains of an old one or an owner's bytes
\* (heap.c:116-118): this is what makes the arithmetic of buddy_of safe.
CoalesceReadsHeader ==
  pc = "coalesce" /\ hdr[block].order < MAX_BLOCK_SHIFT =>
    \E x \in Blocks : x[1] = Buddy

\* kmalloc fails for want of room only when there is none: as long as some
\* aligned region of a block's size holds nothing that is handed out, a list
\* from that order on is not empty (heap.c:175-180).
FailsOnlyWithoutRoom ==
  pc = "idle" =>
    \A k \in Order :
      (\E b \in BlockAddr : /\ (b - HEAP_START) % 2^k = 0
                            /\ \A x \in TakenBlocks :
                                 Extent(b, k) \cap Extent(x[1], x[2]) = {})
        => Candidates(k) # {}

\* The allocator stops the machine only on a caller's double free, never in the
\* course of calls that keep to the rules (heap.c:153-156 and 203-207).
HaltsOnlyOnMisuse == pc = "halted" => misused

\* Freeing twice what has not been handed out since always stops the machine,
\* whatever was split and merged in between, and corrupts nothing
\* (heap.c:200-207).
DoubleFreeCaught ==
  [][misused' /\ ~misused => pc' = "halted" /\ UNCHANGED listVars]_heapVars

\* The buddy allocator implements the allocator its callers rely on: ranges
\* that lie in the heap, are aligned as asked and never overlap while owned.
Abstract == INSTANCE Allocator WITH
              owned <- {[ptr |-> a.ptr, size |-> a.size, align |-> a.align] : a \in live}

ImplementsAllocator == Abstract!AllocatorSpec
=============================================================================
