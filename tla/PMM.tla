--------------------------------- MODULE PMM ---------------------------------
(***************************************************************************)
(* The physical page allocator (kernel/pmm.c): a stack of free pages and a *)
(* bitmap of them, filled by the walk over the boot loader's memory map    *)
(* (kernel/multiboot.c) and used from the shell's alloc and pfree.         *)
(*                                                                         *)
(* Nothing checks an address, neither one a user types nor one of the map, *)
(* and the bitmap has bits for MAX_FRAMES pages only.  free_stack lies     *)
(* behind it, in the order of the declarations in pmm.c, which a build     *)
(* with -O0 (Makefile:9) keeps: the bit of a page far enough beyond        *)
(* MAX_FRAMES is a bit of an entry of free_stack.                          *)
(***************************************************************************)
EXTENDS Integers, Sequences, FiniteSets

CONSTANTS
  PAGE_SIZE, MAX_FRAMES,
  WORD_BITS,                 \* the bits of a word: 32
  STACK_WORD,                \* how many words behind the start of pmm_bitmap
                             \* free_stack begins, its alignment included: 1032
  KERNEL_START, KERNEL_END,  \* the kernel's bytes, its end not included
  MemoryMap,                 \* the maps a boot loader may give: sequences of
                             \* regions [base, length, available]
  UserAddr                   \* the addresses a user gives to pfree

Modulus == 2^WORD_BITS
Word    == 0 .. Modulus - 1
Addr    == 0 .. PAGE_SIZE * MAX_FRAMES - 1  \* the pages the bitmap is made for
Bit     == 0 .. WORD_BITS * STACK_WORD - 1  \* the bits before free_stack

\* Memory ends at least a page below the end of a word, and the bit of any page
\* is found before the end of free_stack.  Available regions start on page
\* boundaries and end below the end of a word; they may end inside a page,
\* overlap, and reach beyond MAX_FRAMES pages.
ASSUME PMMAssumption ==
  /\ PAGE_SIZE \in Nat \ {0} /\ MAX_FRAMES \in Nat \ {0} /\ WORD_BITS \in Nat \ {0}
  /\ \A b \in 0 .. WORD_BITS : 2^b \in Nat \ {0}
  /\ PAGE_SIZE * MAX_FRAMES + PAGE_SIZE <= Modulus
  /\ STACK_WORD \in Nat /\ MAX_FRAMES <= WORD_BITS * STACK_WORD
  /\ (Modulus - 1) \div PAGE_SIZE < WORD_BITS * (STACK_WORD + MAX_FRAMES)
  /\ KERNEL_START \in Addr /\ KERNEL_END \in Addr
  /\ KERNEL_START % PAGE_SIZE = 0
  /\ UserAddr \subseteq Word
  /\ \A m \in MemoryMap :
       /\ m \in Seq([base : Word, length : Word, available : BOOLEAN])
       /\ \A i \in DOMAIN m : m[i].available =>
            m[i].base % PAGE_SIZE = 0 /\ m[i].base + m[i].length < Modulus

VARIABLES
  pmm_bitmap,          \* per bit before free_stack, whether it is set
  free_stack, stack_top, free_page_count,
  map,                 \* the memory map of this boot
  entry, addr,         \* the walk: the entry it is at, the page within it
  held,                \* the frames alloc has returned and pfree not taken back
  said                 \* what the last command told the user

\* No variable of the code: whether pmm_free_page was ever given an address that
\* is not in Addr, by a user or by the walk.
VARIABLE beyond

stackVars == <<pmm_bitmap, free_stack, stack_top, free_page_count>>
walkVars  == <<map, entry, addr>>
pmmVars   == <<stackVars, walkVars, held, said, beyond>>

Frame == 0 .. MAX_FRAMES - 1

page_to_index(page) == page \div PAGE_SIZE

Walking == entry <= Len(map)
Region  == map[entry]
FirstOf(i) == IF i <= Len(map) THEN map[i].base ELSE 0

PMMInit ==
  /\ pmm_bitmap = [b \in Bit |-> FALSE]
  /\ free_stack = [i \in Frame |-> 0] /\ stack_top = 0
  /\ free_page_count = 0
  /\ map \in MemoryMap
  /\ entry = 1 /\ addr = FirstOf(1)
  /\ held = {} /\ said = "nothing" /\ beyond = FALSE
-----------------------------------------------------------------------------
(* The bits.                                                               *)

IsSet(word, b) == (word \div 2^b) % 2 = 1
Flip(word, b)  == (IF IsSet(word, b) THEN word - 2^b ELSE word + 2^b) % Modulus

\* The entry of free_stack that an index beyond the words before it falls on.
EntryOf(index) == index \div WORD_BITS - STACK_WORD

bitmap_test(index) ==
  IF index \in Bit THEN pmm_bitmap[index]
  ELSE IsSet(free_stack[EntryOf(index)], index % WORD_BITS)

\* bitmap_set and bitmap_clear, when free_stack is stack.
bitmap_put(index, value, stack) ==
  IF index \in Bit
  THEN /\ pmm_bitmap' = [pmm_bitmap EXCEPT ![index] = value]
       /\ free_stack' = stack
  ELSE /\ UNCHANGED pmm_bitmap
       /\ free_stack' = [stack EXCEPT ![EntryOf(index)] =
            IF IsSet(@, index % WORD_BITS) = value THEN @ ELSE Flip(@, index % WORD_BITS)]

\* Faulty: nothing is refused; only a full stack refuses.
RefusesNothing(page)  == FALSE
RefusesOnlyFull(page) == stack_top >= MAX_FRAMES

\* pmm_free_page: a page that is free already is refused, and so is one for
\* which the stack has no room.
Refused(page) == bitmap_test(page_to_index(page)) \/ stack_top >= MAX_FRAMES
pmm_free_page(page) ==
  /\ beyond' = (beyond \/ page \notin Addr)
  /\ IF Refused(page) THEN UNCHANGED <<stackVars, held>>
     ELSE /\ bitmap_put(page_to_index(page), TRUE, [free_stack EXCEPT ![stack_top] = page])
          /\ stack_top' = stack_top + 1
          /\ free_page_count' = free_page_count + 1
          /\ held' = held \ {page_to_index(page)}

(* The walk of parse_multiboot_info.                                       *)

IsKernel(a) == KERNEL_START <= a /\ a < KERNEL_END

\* Faulty: the kernel's pages become free as well.
WalkFreesKernel ==
  /\ Walking /\ Region.available /\ addr < Region.base + Region.length
  /\ pmm_free_page(addr)
  /\ addr' = (addr + PAGE_SIZE) % Modulus
  /\ UNCHANGED <<map, entry, said>>

\* A page of an available entry that is not the kernel's becomes free.
WalkPage ==
  /\ Walking /\ Region.available /\ addr < Region.base + Region.length
  /\ IF IsKernel(addr) THEN UNCHANGED <<stackVars, held, beyond>> ELSE pmm_free_page(addr)
  /\ addr' = (addr + PAGE_SIZE) % Modulus
  /\ UNCHANGED <<map, entry, said>>

WalkEntry ==
  /\ Walking /\ ~(Region.available /\ addr < Region.base + Region.length)
  /\ entry' = entry + 1
  /\ addr' = FirstOf(entry + 1)
  /\ UNCHANGED <<stackVars, map, held, said, beyond>>

(* The shell's commands.                                                   *)

\* alloc, on an empty stack
AllocEmpty ==
  /\ ~Walking /\ stack_top = 0
  /\ said' = "no free pages available"
  /\ UNCHANGED <<stackVars, walkVars, held, beyond>>

\* Faulty: the page's bit stays set.
AllocKeepsBit ==
  /\ ~Walking /\ stack_top > 0
  /\ LET page == free_stack[stack_top - 1]
     IN  IF page # 0
         THEN said' = "allocated" /\ held' = held \cup {page_to_index(page)}
         ELSE said' = "no free pages available" /\ UNCHANGED held
  /\ stack_top' = stack_top - 1
  /\ free_page_count' = IF free_page_count > 0 THEN free_page_count - 1 ELSE 0
  /\ UNCHANGED <<pmm_bitmap, free_stack, walkVars, beyond>>

\* alloc: the page on top is taken; page 0 looks like NULL.
AllocPage ==
  /\ ~Walking /\ stack_top > 0
  /\ LET page == free_stack[stack_top - 1]
     IN  /\ bitmap_put(page_to_index(page), FALSE, free_stack)
         /\ IF page # 0
            THEN said' = "allocated" /\ held' = held \cup {page_to_index(page)}
            ELSE said' = "no free pages available" /\ UNCHANGED held
  /\ stack_top' = stack_top - 1
  /\ free_page_count' = IF free_page_count > 0 THEN free_page_count - 1 ELSE 0
  /\ UNCHANGED <<walkVars, beyond>>

\* pfree: whatever word the user types is taken for the address of a page.
FreePage(page) ==
  /\ ~Walking
  /\ pmm_free_page(page)
  /\ said' = "freed"
  /\ UNCHANGED walkVars

PMMNext == \/ WalkPage \/ WalkEntry \/ AllocEmpty \/ AllocPage
           \/ \E page \in UserAddr : FreePage(page)

PMMSpec == PMMInit /\ [][PMMNext]_pmmVars
-----------------------------------------------------------------------------
(* Properties.                                                             *)

\* Types of the variables.  Until an address beyond MAX_FRAMES pages is freed, the
\* stack holds addresses whose bits the bitmap has, and alloc returns no other.
PMMTypeOK ==
  /\ pmm_bitmap \in [Bit -> BOOLEAN]
  /\ free_stack \in [Frame -> Word] /\ stack_top \in 0 .. MAX_FRAMES
  /\ free_page_count \in Nat
  /\ map \in MemoryMap
  /\ entry \in 1 .. Len(map) + 1 /\ addr \in Word
  /\ held \subseteq Nat
  /\ said \in {"nothing", "allocated", "freed", "no free pages available"}
  /\ beyond \in BOOLEAN
  /\ ~beyond => free_stack \in [Frame -> Addr] /\ held \subseteq Frame

Free       == {f \in Frame : pmm_bitmap[f]}
StackFrame == [i \in 0 .. stack_top - 1 |-> page_to_index(free_stack[i])]

\* The stack, the bitmap and the count tell the same story: the count is the
\* stack's depth, whatever is freed; and until an address beyond MAX_FRAMES pages
\* is freed the frames on the stack are the ones whose bit is set, each once,
\* whatever is freed twice or inside a page (pmm.c:48-83).
StackIsBitmap ==
  /\ free_page_count = stack_top
  /\ ~beyond =>
       /\ \A f \in Frame : pmm_bitmap[f] <=> \E i \in 0 .. stack_top - 1 : StackFrame[i] = f
       /\ \A i, j \in 0 .. stack_top - 1 : StackFrame[i] = StackFrame[j] => i = j

\* Until an address beyond MAX_FRAMES pages is freed, no page that alloc returned
\* is on the stack to be returned again before someone gave it back (pmm.c:52-55
\* and 66-80).
NoPageTwice == ~beyond => \A i \in 0 .. stack_top - 1 : StackFrame[i] \notin held

\* Frames that hold a byte of the kernel, and frames that hold a byte of an
\* available region.
Bytes(f)     == f * PAGE_SIZE .. (f + 1) * PAGE_SIZE - 1
KernelFrames == {f \in Frame : \E b \in Bytes(f) : IsKernel(b)}
Available    == {f \in Frame : \E i \in DOMAIN map : \E b \in Bytes(f) :
                   /\ map[i].available
                   /\ map[i].base <= b /\ b < map[i].base + map[i].length}

\* When the walk is over, every available frame that is not the kernel's is
\* free or handed out, and no other is, as long as users free only what they
\* may and no page is beyond MAX_FRAMES; frame 0 alone can get lost
\* (multiboot.c:40-53, pmm.c:48-83).
AccountedFor ==
  ~Walking /\ ~beyond /\ (\A a \in UserAddr \cap Addr :
                            page_to_index(a) \in Available \ KernelFrames)
    => /\ Free \cup held \subseteq Available \ KernelFrames
       /\ (Available \ KernelFrames) \ (Free \cup held) \subseteq {0}
=============================================================================
