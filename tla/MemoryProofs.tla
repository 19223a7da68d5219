----------------------------- MODULE MemoryProofs -----------------------------
(***************************************************************************)
(* The two allocators, for every value of their constants.                 *)
(*                                                                         *)
(* The page allocator: the types, the agreement of stack, bitmap and       *)
(* count, that no page is handed out twice and that every frame is         *)
(* accounted for.  Any word may be freed; once one at or beyond MAX_FRAMES *)
(* pages is, only the types and the count are claimed.  The inductive      *)
(* invariant is the conjunction of the three first: that a                 *)
(* page freed is not on the stack yet is known from its bit, and that the  *)
(* page popped is not on the stack a second time from the distinctness of  *)
(* its entries.                                                            *)
(*                                                                         *)
(* The heap: that its blocks tile it, that coalesce reads headers only,    *)
(* that it fails only without room and stops only, and always, on a double *)
(* free, and that it is an allocator.  The inductive invariant adds what   *)
(* the headers say of every block, where each owner's bytes are, and that  *)
(* no two buddies are free at once but for the pair a split has just made. *)
(* Addresses are reasoned about as multiples of powers of two, of which    *)
(* only PowersOfTwo is used: that the next is the double of one.           *)
(***************************************************************************)
EXTENDS PMM, BuddyHeap, FoldLemmas, SequenceTheorems, FiniteSetTheorems,
        FunctionTheorems, NaturalsInduction

\* A product grows with its second factor.
LEMMA ProductGrows ==
  ASSUME NEW n \in Nat, NEW x \in Nat, NEW y \in Nat, x <= y
  PROVE  n * x <= n * y
<1>1. n * y = n * x + n * (y - x)
  BY Z3
<1>2. n * (y - x) >= 0
  BY Z3
<1> QED
  BY <1>1, <1>2

\* The page of an address below the end of memory is a frame (pmm.c:19-21).
LEMMA IndexIsFrame ==
  ASSUME NEW a \in Addr
  PROVE  page_to_index(a) \in Frame
<1>1. PAGE_SIZE \in Nat \ {0} /\ MAX_FRAMES \in Nat \ {0}
  BY PMMAssumption
<1>2. a \in Nat /\ a < PAGE_SIZE * MAX_FRAMES
  BY <1>1 DEF Addr
<1>3. PICK q \in Nat : q = a \div PAGE_SIZE
  BY <1>1, <1>2
<1>4. PAGE_SIZE * q <= a
  BY <1>1, <1>2, <1>3
<1>5. q < MAX_FRAMES
  <2>1. SUFFICES ASSUME MAX_FRAMES <= q PROVE FALSE
    BY <1>1, <1>3
  <2>2. PAGE_SIZE * MAX_FRAMES <= PAGE_SIZE * q
    BY <2>1, <1>1, <1>3, ProductGrows
  <2>3. PICK x \in Int, y \in Int : x = PAGE_SIZE * MAX_FRAMES /\ y = PAGE_SIZE * q
    BY <1>1
  <2>4. x <= y /\ y <= a /\ a < x
    BY <2>2, <2>3, <1>2, <1>4
  <2> QED
    BY <2>4, <1>2, <2>3
<1> QED
  BY <1>1, <1>3, <1>5 DEF page_to_index, Frame

\* A factor of the index is bounded by a factor of the bound.
LEMMA QuotientBounded ==
  ASSUME NEW n \in Nat \ {0}, NEW x \in Nat, NEW lo \in Nat, NEW hi \in Nat,
         n * lo <= x, x < n * hi
  PROVE  x \div n \in lo .. hi - 1
<1>1. PICK q \in Nat : q = x \div n
  OBVIOUS
<1>2. n * q <= x /\ x < n * q + n
  BY <1>1
<1>3. q < hi
  <2>1. SUFFICES ASSUME hi <= q PROVE FALSE
    BY <1>1
  <2>2. n * hi <= n * q
    BY <2>1, <1>1, ProductGrows
  <2>3. PICK a \in Int, b \in Int : a = n * hi /\ b = n * q
    OBVIOUS
  <2> QED
    BY <1>2, <2>2, <2>3
<1>4. lo <= q
  <2>1. SUFFICES ASSUME q + 1 <= lo PROVE FALSE
    BY <1>1
  <2>2. n * (q + 1) <= n * lo
    BY <2>1, <1>1, ProductGrows
  <2>3. n * (q + 1) = n * q + n
    BY <1>1, Z3
  <2>4. PICK a \in Int, b \in Int : a = n * lo /\ b = n * q
    OBVIOUS
  <2> QED
    BY <1>2, <2>2, <2>3, <2>4
<1> QED
  BY <1>1, <1>3, <1>4

\* Words and the addresses among them are natural numbers.
LEMMA AddrIsNat ==
  /\ Modulus \in Nat \ {0} /\ Word \subseteq Nat /\ 0 \in Word
  /\ Addr \subseteq Word /\ Addr \subseteq Nat /\ 0 \in Addr
<1>1. PAGE_SIZE * MAX_FRAMES \in Nat /\ PAGE_SIZE * MAX_FRAMES > 0
  BY PMMAssumption, Z3
<1>2. Modulus \in Nat \ {0}
  BY PMMAssumption DEF Modulus
<1>3. PAGE_SIZE \in Nat /\ PAGE_SIZE * MAX_FRAMES + PAGE_SIZE <= Modulus
  BY PMMAssumption
<1>4. PICK n \in Nat : n = PAGE_SIZE * MAX_FRAMES /\ n > 0
  BY <1>1
<1>5. n + PAGE_SIZE <= Modulus /\ Addr = 0 .. n - 1
  BY <1>3, <1>4 DEF Addr
<1> QED
  BY <1>2, <1>3, <1>4, <1>5 DEF Word

\* A frame's page is in memory, whatever byte of it the address is (pmm.c:19-21).
LEMMA FrameIsInMemory ==
  ASSUME NEW a \in Nat, page_to_index(a) \in Frame
  PROVE  a \in Addr
<1>1. PAGE_SIZE \in Nat \ {0} /\ MAX_FRAMES \in Nat \ {0}
  BY PMMAssumption
<1>2. PICK q \in Nat : q = a \div PAGE_SIZE
  BY <1>1
<1>3. q + 1 <= MAX_FRAMES /\ a < PAGE_SIZE * q + PAGE_SIZE
  BY <1>1, <1>2 DEF page_to_index, Frame
<1>4. PAGE_SIZE * (q + 1) <= PAGE_SIZE * MAX_FRAMES
  BY <1>1, <1>2, <1>3, ProductGrows
<1>5. PAGE_SIZE * (q + 1) = PAGE_SIZE * q + PAGE_SIZE
  BY <1>1, <1>2, Z3
<1>6. PICK x \in Int, y \in Int : x = PAGE_SIZE * MAX_FRAMES /\ y = PAGE_SIZE * q
  BY <1>1
<1>7. a < x
  BY <1>1, <1>3, <1>4, <1>5, <1>6
<1> QED
  BY <1>6, <1>7 DEF Addr

\* Every frame has a bit before the stack (pmm.c:10).
LEMMA FrameIsBit == Frame \subseteq Bit
<1>1. PICK n \in Int : n = WORD_BITS * STACK_WORD
  BY PMMAssumption
<1>2. MAX_FRAMES \in Nat /\ MAX_FRAMES <= n
  BY <1>1, PMMAssumption
<1> QED
  BY <1>1, <1>2 DEF Frame, Bit

\* The bit of any page, wherever it is, is found in the words before free_stack or
\* in free_stack itself, never behind it (pmm.c:23-33).
LEMMA IndexInReach ==
  ASSUME NEW page \in Word
  PROVE  /\ page_to_index(page) \in Nat
         /\ page_to_index(page) \notin Bit => EntryOf(page_to_index(page)) \in Frame
<1> DEFINE k == page_to_index(page)
<1>1. /\ PAGE_SIZE \in Nat \ {0} /\ WORD_BITS \in Nat \ {0} /\ STACK_WORD \in Nat
      /\ MAX_FRAMES \in Nat \ {0} /\ Modulus \in Nat \ {0}
  BY PMMAssumption, AddrIsNat
<1>2. page \in Nat /\ page <= Modulus - 1 /\ Modulus - 1 \in Nat
  BY <1>1 DEF Word
<1>3. k \in Nat
  BY <1>1, <1>2 DEF page_to_index
<1>4. k <= (Modulus - 1) \div PAGE_SIZE
  <2>1. PICK q \in Nat : q = (Modulus - 1) \div PAGE_SIZE
    BY <1>1, <1>2
  <2>2. Modulus - 1 < PAGE_SIZE * (q + 1)
    <3>1. Modulus - 1 < PAGE_SIZE * q + PAGE_SIZE
      BY <1>1, <1>2, <2>1
    <3>2. PAGE_SIZE * (q + 1) = PAGE_SIZE * q + PAGE_SIZE
      BY <1>1, <2>1, Z3
    <3> QED
      BY <3>1, <3>2
  <2>3. PAGE_SIZE * (q + 1) \in Nat /\ PAGE_SIZE * 0 <= page
    BY <1>1, <1>2, <2>1
  <2>4. page < PAGE_SIZE * (q + 1)
    BY <1>1, <1>2, <2>2, <2>3
  <2>5. page \div PAGE_SIZE \in 0 .. (q + 1) - 1
    BY <1>1, <1>2, <2>1, <2>3, <2>4, QuotientBounded
  <2> QED
    BY <2>1, <2>5 DEF page_to_index
<1>5. k < WORD_BITS * (STACK_WORD + MAX_FRAMES)
  <2>1. (Modulus - 1) \div PAGE_SIZE < WORD_BITS * (STACK_WORD + MAX_FRAMES)
    BY PMMAssumption
  <2>2. PICK a \in Int, b \in Int : a = (Modulus - 1) \div PAGE_SIZE
                                    /\ b = WORD_BITS * (STACK_WORD + MAX_FRAMES)
    BY <1>1, <1>2
  <2> QED
    BY <1>3, <1>4, <2>1, <2>2
<1> HIDE DEF k
<1>6. ASSUME k \notin Bit PROVE EntryOf(k) \in Frame
  <2>1. WORD_BITS * STACK_WORD <= k
    <3>1. PICK n \in Int : n = WORD_BITS * STACK_WORD
      BY <1>1
    <3> QED
      BY <1>3, <1>6, <3>1 DEF Bit
  <2>2. k \div WORD_BITS \in STACK_WORD .. (STACK_WORD + MAX_FRAMES) - 1
    BY <1>1, <1>3, <1>5, <2>1, QuotientBounded
  <2> QED
    BY <1>1, <2>2 DEF EntryOf, Frame
<1> QED
  BY <1>3, <1>6 DEF k

\* Putting a bit changes one bit or one entry of the stack (pmm.c:23-29).
LEMMA PutTypes ==
  ASSUME pmm_bitmap \in [Bit -> BOOLEAN], NEW stack \in [Frame -> Word],
         NEW page \in Word, NEW value \in BOOLEAN,
         bitmap_put(page_to_index(page), value, stack)
  PROVE  pmm_bitmap' \in [Bit -> BOOLEAN] /\ free_stack' \in [Frame -> Word]
<1> DEFINE k == page_to_index(page)
           e == EntryOf(k)
           b == k % WORD_BITS
<1>1. CASE k \in Bit
  BY <1>1 DEF bitmap_put
<1>2. CASE k \notin Bit
  <2>1. k \in Nat /\ e \in Frame /\ WORD_BITS \in Nat \ {0}
    BY <1>2, IndexInReach, PMMAssumption
  <2>2. pmm_bitmap' = pmm_bitmap
    BY <1>2 DEF bitmap_put
  <2>3. free_stack' = [stack EXCEPT ![e] = IF IsSet(stack[e], b) = value THEN stack[e]
                                           ELSE Flip(stack[e], b)]
    BY <1>2, <2>1 DEF bitmap_put
  <2>4. Flip(stack[e], b) \in Word
    <3> HIDE DEF e, k
    <3>1. b \in 0 .. WORD_BITS
      BY <2>1
    <3>2. 2^b \in Nat
      BY <3>1, PMMAssumption
    <3>3. stack[e] \in Nat /\ Modulus \in Nat \ {0}
      BY <2>1, AddrIsNat
    <3> HIDE DEF b
    <3>4. PICK w \in Int : w = (IF IsSet(stack[e], b) THEN stack[e] - 2^b ELSE stack[e] + 2^b)
      BY <3>2, <3>3
    <3>5. w % Modulus \in 0 .. Modulus - 1
      BY <3>3, <3>4
    <3> QED
      BY <3>4, <3>5 DEF Flip, Word
  <2> HIDE DEF b, e, k
  <2> QED
    BY <2>1, <2>2, <2>3, <2>4
<1> QED
  BY <1>1, <1>2

\* Of a page in memory it is the bitmap's own bit that is tested and put.
LEMMA BitInMemory ==
  ASSUME NEW page \in Addr
  PROVE  /\ page_to_index(page) \in Bit
         /\ bitmap_test(page_to_index(page)) = pmm_bitmap[page_to_index(page)]
         /\ \A value, stack : bitmap_put(page_to_index(page), value, stack) =>
              /\ pmm_bitmap' = [pmm_bitmap EXCEPT ![page_to_index(page)] = value]
              /\ free_stack' = stack
<1>1. page_to_index(page) \in Bit
  BY IndexIsFrame, FrameIsBit
<1> QED
  BY <1>1 DEF bitmap_test, bitmap_put

\* The allocator's invariant.
PMMInv == PMMTypeOK /\ StackIsBitmap /\ NoPageTwice

\* An entry of a memory map (multiboot.c:32-41).
LEMMA EntryType ==
  ASSUME NEW m \in MemoryMap
  PROVE  /\ Len(m) \in Nat /\ DOMAIN m = 1 .. Len(m)
         /\ \A i \in 1 .. Len(m) : m[i].base \in Word /\ m[i].length \in Word
<1> DEFINE R == [base : Word, length : Word, available : BOOLEAN]
<1>1. m \in Seq(R)
  BY PMMAssumption
<1>2. Len(m) \in Nat /\ DOMAIN m = 1 .. Len(m)
  <2> HIDE DEF R
  <2> QED
    BY <1>1
<1>3. \A i \in 1 .. Len(m) : m[i] \in R
  <2> HIDE DEF R
  <2> QED
    BY <1>1, ElementOfSeq
<1>4. \A i \in 1 .. Len(m) : m[i].base \in Word /\ m[i].length \in Word
  BY <1>3
<1> QED
  BY <1>2, <1>4

\* Where the walk begins in an entry (multiboot.c:43).
LEMMA FirstOfType ==
  ASSUME map \in MemoryMap, NEW i \in Nat \ {0}
  PROVE  FirstOf(i) \in Word
<1>1. i <= Len(map) => map[i].base \in Word
  <2>1. Len(map) \in Nat
    BY EntryType
  <2>2. i <= Len(map) => i \in 1 .. Len(map)
    BY <2>1
  <2> QED
    BY <2>2, EntryType
<1> QED
  BY <1>1, AddrIsNat DEF FirstOf

\* The next page's address is a word, and behind a page of memory it does not wrap
\* (multiboot.c:45).
LEMMA NextPage ==
  ASSUME NEW a \in Word
  PROVE  /\ (a + PAGE_SIZE) % Modulus \in Word
         /\ a \in Addr => (a + PAGE_SIZE) % Modulus = a + PAGE_SIZE
<1>1. a \in Nat /\ PAGE_SIZE \in Nat /\ Modulus \in Nat \ {0} /\ a + PAGE_SIZE \in Nat
  BY AddrIsNat, PMMAssumption
<1>2. (a + PAGE_SIZE) % Modulus \in 0 .. Modulus - 1
  BY <1>1
<1>3. ASSUME a \in Addr PROVE a + PAGE_SIZE < Modulus
  <2>1. PICK n \in Int : n = PAGE_SIZE * MAX_FRAMES
    BY PMMAssumption
  <2>2. n + PAGE_SIZE <= Modulus /\ a < n
    BY <1>3, <2>1, PMMAssumption DEF Addr
  <2> QED
    BY <1>1, <2>1, <2>2
<1>4. a + PAGE_SIZE < Modulus => (a + PAGE_SIZE) % Modulus = a + PAGE_SIZE
  BY <1>1
<1> QED
  BY <1>2, <1>3, <1>4 DEF Word

\* The kernel's pages are in memory (multiboot.c:46).
LEMMA KernelInMemory ==
  ASSUME NEW a \in Nat, IsKernel(a)
  PROVE  a \in Addr
<1>1. PICK n \in Int : n = PAGE_SIZE * MAX_FRAMES
  BY PMMAssumption
<1>2. KERNEL_END \in 0 .. n - 1 /\ a < KERNEL_END
  BY <1>1, PMMAssumption DEF Addr, IsKernel
<1> QED
  BY <1>1, <1>2 DEF Addr

\* The initial state satisfies the invariant (pmm.c:35-46).
LEMMA PMMInvInit == PMMInit => PMMInv
<1> SUFFICES ASSUME PMMInit PROVE PMMInv
  OBVIOUS
<1>1. map \in MemoryMap /\ 0 \in Addr /\ 0 \in Word /\ MAX_FRAMES \in Nat
  BY AddrIsNat, PMMAssumption DEF PMMInit
<1>2. FirstOf(1) \in Word
  BY <1>1, FirstOfType
<1>3. 1 \in 1 .. Len(map) + 1
  BY <1>1, EntryType
<1>4. PMMTypeOK
  <2>1. pmm_bitmap \in [Bit -> BOOLEAN]
    BY DEF PMMInit
  <2>2. free_stack \in [Frame -> Word] /\ free_stack \in [Frame -> Addr]
    BY <1>1 DEF PMMInit
  <2>3. stack_top \in 0 .. MAX_FRAMES /\ free_page_count \in Nat
    BY <1>1 DEF PMMInit
  <2>4. entry \in 1 .. Len(map) + 1 /\ addr \in Word
    BY <1>2, <1>3 DEF PMMInit
  <2>5. held = {} /\ said = "nothing" /\ beyond \in BOOLEAN
    BY DEF PMMInit
  <2> QED
    BY <1>1, <2>1, <2>2, <2>3, <2>4, <2>5 DEF PMMTypeOK
<1>5. StackIsBitmap /\ NoPageTwice
  <2>1. \A i \in 0 .. stack_top - 1 : FALSE
    BY DEF PMMInit
  <2>2. \A f \in Frame : ~pmm_bitmap[f]
    BY FrameIsBit DEF PMMInit
  <2>3. free_page_count = stack_top
    BY DEF PMMInit
  <2> QED
    BY <2>1, <2>2, <2>3 DEF StackIsBitmap, NoPageTwice
<1> QED
  BY <1>4, <1>5 DEF PMMInv

\* pmm_free_page keeps the types, whatever address it is given, and the count
\* (pmm.c:63-83).
LEMMA FreeTypes ==
  ASSUME PMMInv, NEW page \in Word, pmm_free_page(page)
  PROVE  /\ pmm_bitmap' \in [Bit -> BOOLEAN]
         /\ free_stack' \in [Frame -> Word] /\ stack_top' \in 0 .. MAX_FRAMES
         /\ free_page_count' \in Nat /\ free_page_count' = stack_top'
         /\ held' \subseteq Nat /\ beyond' \in BOOLEAN
<1>1. /\ pmm_bitmap \in [Bit -> BOOLEAN] /\ free_stack \in [Frame -> Word]
      /\ stack_top \in 0 .. MAX_FRAMES /\ MAX_FRAMES \in Nat
      /\ free_page_count \in Nat /\ free_page_count = stack_top /\ held \subseteq Nat
  BY PMMAssumption DEF PMMInv, PMMTypeOK, StackIsBitmap
<1>2. beyond' \in BOOLEAN
  BY DEF pmm_free_page
<1>3. CASE Refused(page)
  BY <1>1, <1>2, <1>3 DEF pmm_free_page, stackVars
<1>4. CASE ~Refused(page)
  <2> DEFINE stack == [free_stack EXCEPT ![stack_top] = page]
  <2>1. /\ bitmap_put(page_to_index(page), TRUE, stack)
        /\ stack_top' = stack_top + 1 /\ free_page_count' = free_page_count + 1
        /\ held' = held \ {page_to_index(page)} /\ ~(stack_top >= MAX_FRAMES)
    BY <1>4 DEF pmm_free_page, Refused
  <2>2. stack \in [Frame -> Word]
    BY <1>1
  <2> HIDE DEF stack
  <2>3. pmm_bitmap' \in [Bit -> BOOLEAN] /\ free_stack' \in [Frame -> Word]
    BY <1>1, <2>1, <2>2, PutTypes
  <2>4. /\ stack_top' \in 0 .. MAX_FRAMES
        /\ free_page_count' \in Nat /\ free_page_count' = stack_top'
    BY <1>1, <2>1
  <2> QED
    BY <1>1, <1>2, <2>1, <2>3, <2>4
<1> QED
  BY <1>3, <1>4

\* pmm_free_page of a page in memory keeps the stack in memory, without a page
\* twice or one that is handed out, and the bitmap its record (pmm.c:63-83).
LEMMA FreeInMemory ==
  ASSUME PMMInv, ~beyond, NEW page \in Addr, pmm_free_page(page)
  PROVE  free_stack' \in [Frame -> Addr] /\ held' \subseteq Frame
         /\ StackIsBitmap' /\ NoPageTwice'
<1> DEFINE f == page_to_index(page)
<1>1. f \in Frame /\ f \in Bit
  BY IndexIsFrame, FrameIsBit
<1>2. CASE Refused(page)
  <2>1. /\ pmm_bitmap' = pmm_bitmap /\ free_stack' = free_stack /\ stack_top' = stack_top
        /\ free_page_count' = free_page_count /\ held' = held
    BY <1>2 DEF pmm_free_page, stackVars
  <2>2. StackFrame' = StackFrame
    BY <2>1 DEF StackFrame, page_to_index
  <2>3. StackIsBitmap' /\ NoPageTwice'
    BY <2>1, <2>2 DEF PMMInv, StackIsBitmap, NoPageTwice
  <2> QED
    BY <2>1, <2>3 DEF PMMInv, PMMTypeOK
<1>3. CASE ~Refused(page)
  <2>1. /\ free_stack' = [free_stack EXCEPT ![stack_top] = page]
        /\ stack_top' = stack_top + 1
        /\ pmm_bitmap' = [pmm_bitmap EXCEPT ![f] = TRUE]
        /\ free_page_count' = free_page_count + 1
        /\ held' = held \ {f}
    BY <1>3, BitInMemory DEF pmm_free_page
  <2>1a. ~pmm_bitmap[f] /\ ~(stack_top >= MAX_FRAMES)
    BY <1>3, BitInMemory DEF Refused
  <2>2. /\ pmm_bitmap \in [Bit -> BOOLEAN] /\ free_stack \in [Frame -> Addr]
        /\ stack_top \in 0 .. MAX_FRAMES /\ free_page_count \in Nat /\ held \subseteq Frame
        /\ MAX_FRAMES \in Nat \ {0}
    BY PMMAssumption DEF PMMInv, PMMTypeOK
  <2>3. free_stack' \in [Frame -> Addr] /\ held' \subseteq Frame
    BY <2>1, <2>2
  <2>4. stack_top \in Frame /\ stack_top < MAX_FRAMES
    BY <2>1a, <2>2 DEF Frame
  <2>5. \A i \in 0 .. stack_top - 1 :
          /\ StackFrame'[i] = StackFrame[i]
          /\ StackFrame[i] \in Frame /\ pmm_bitmap[StackFrame[i]] /\ StackFrame[i] # f
    <3> SUFFICES ASSUME NEW i \in 0 .. stack_top - 1
                 PROVE  /\ StackFrame'[i] = StackFrame[i]
                        /\ StackFrame[i] \in Frame /\ pmm_bitmap[StackFrame[i]]
                        /\ StackFrame[i] # f
      OBVIOUS
    <3>1. i \in 0 .. stack_top' - 1 /\ i # stack_top /\ i \in Frame
      BY <2>1, <2>2 DEF Frame
    <3>2. free_stack'[i] = free_stack[i] /\ free_stack[i] \in Addr
      BY <2>1, <2>2, <3>1
    <3>3. StackFrame[i] = page_to_index(free_stack[i])
          /\ StackFrame'[i] = page_to_index(free_stack'[i])
      BY <3>1 DEF StackFrame, page_to_index
    <3>4. StackFrame[i] \in Frame
      BY <3>2, <3>3, IndexIsFrame
    <3>5. pmm_bitmap[StackFrame[i]]
      BY <3>4 DEF PMMInv, StackIsBitmap
    <3> QED
      BY <3>2, <3>3, <3>4, <3>5, <2>1a
  <2>6. StackFrame'[stack_top] = f
    BY <2>1, <2>2, <2>4 DEF StackFrame, page_to_index
  <2>7. \A i \in 0 .. stack_top' - 1 : i \in 0 .. stack_top - 1 \/ i = stack_top
    BY <2>1, <2>2
  <2>8. stack_top \in 0 .. stack_top' - 1 /\ (0 .. stack_top - 1) \subseteq 0 .. stack_top' - 1
    BY <2>1, <2>2
  <2>9. StackIsBitmap'
    <3>1. \A g \in Frame : pmm_bitmap[g] <=> \E i \in 0 .. stack_top - 1 : StackFrame[i] = g
      BY DEF PMMInv, StackIsBitmap
    <3>2. \A i, j \in 0 .. stack_top - 1 : StackFrame[i] = StackFrame[j] => i = j
      BY DEF PMMInv, StackIsBitmap
    <3>3. \A g \in Frame : pmm_bitmap'[g] <=> (pmm_bitmap[g] \/ g = f)
      BY <2>1, <2>2, <1>1, FrameIsBit
    <3>4. \A g \in Frame : pmm_bitmap'[g] <=> \E i \in 0 .. stack_top' - 1 : StackFrame'[i] = g
      BY <3>1, <3>3, <2>5, <2>6, <2>7, <2>8
    <3>5. \A i, j \in 0 .. stack_top' - 1 : StackFrame'[i] = StackFrame'[j] => i = j
      BY <3>2, <2>5, <2>6, <2>7
    <3>6. free_page_count' = stack_top'
      BY <2>1 DEF PMMInv, StackIsBitmap
    <3> QED
      BY <3>4, <3>5, <3>6 DEF StackIsBitmap
  <2>10. NoPageTwice'
    <3>1. \A i \in 0 .. stack_top - 1 : StackFrame[i] \notin held
      BY DEF PMMInv, NoPageTwice
    <3>2. \A i \in 0 .. stack_top' - 1 : StackFrame'[i] \notin held'
      BY <3>1, <2>1, <2>5, <2>6, <2>7
    <3> QED
      BY <3>2 DEF NoPageTwice
  <2> QED
    BY <2>3, <2>9, <2>10
<1> QED
  BY <1>2, <1>3

\* pmm_free_page keeps the invariant's part on stack, bitmap, count and pages
\* handed out: an address beyond memory is the end of what it says (pmm.c:63-83).
LEMMA FreeKeeps ==
  ASSUME PMMInv, NEW page \in Word, pmm_free_page(page)
  PROVE  /\ ~beyond' => free_stack' \in [Frame -> Addr] /\ held' \subseteq Frame
         /\ StackIsBitmap' /\ NoPageTwice'
<1>1. CASE beyond'
  BY <1>1, FreeTypes DEF StackIsBitmap, NoPageTwice
<1>2. CASE ~beyond'
  <2>1. ~beyond /\ page \in Addr
    BY <1>2 DEF pmm_free_page
  <2> QED
    BY <2>1, FreeInMemory
<1> QED
  BY <1>1, <1>2

\* alloc keeps it: the page on top is on the stack once only, so with its bit
\* cleared no entry that is left is its own (pmm.c:48-61).
LEMMA AllocInMemory ==
  ASSUME PMMInv, ~beyond, AllocPage
  PROVE  free_stack' \in [Frame -> Addr] /\ held' \subseteq Frame
         /\ StackIsBitmap' /\ NoPageTwice'
<1> DEFINE t == stack_top - 1
           page == free_stack[t]
           f == page_to_index(page)
<1>1. /\ pmm_bitmap \in [Bit -> BOOLEAN] /\ free_stack \in [Frame -> Addr]
      /\ stack_top \in 1 .. MAX_FRAMES /\ held \subseteq Frame
      /\ free_page_count = stack_top /\ MAX_FRAMES \in Nat
  <2>1. MAX_FRAMES \in Nat
    BY PMMAssumption
  <2>2. stack_top \in 0 .. MAX_FRAMES /\ stack_top > 0
    BY DEF PMMInv, PMMTypeOK, AllocPage
  <2>3. stack_top \in 1 .. MAX_FRAMES
    BY <2>1, <2>2
  <2> QED
    BY <2>1, <2>3 DEF PMMInv, PMMTypeOK, StackIsBitmap
<1>2. page \in Addr /\ f \in Frame /\ f \in Bit /\ t \in Frame
  <2>1. t \in Frame
    BY <1>1 DEF Frame
  <2> QED
    BY <1>1, <2>1, IndexIsFrame, FrameIsBit
<1>2a. /\ pmm_bitmap' = [pmm_bitmap EXCEPT ![f] = FALSE]
       /\ stack_top' = t /\ free_stack' = free_stack
       /\ held' = held \/ held' = held \cup {f}
  BY <1>2, BitInMemory DEF AllocPage
<1>3. free_page_count' = t
  BY <1>1 DEF AllocPage
<1>4. t \in Frame /\ t \in 0 .. stack_top - 1 /\ t \in 0 .. MAX_FRAMES
      /\ (0 .. t - 1) \subseteq 0 .. stack_top - 1
  BY <1>1 DEF Frame
<1>5. t \in Nat /\ t < stack_top /\ stack_top' = t
  <2>1. MAX_FRAMES \in Nat /\ stack_top \in 1 .. MAX_FRAMES
    BY <1>1
  <2>2. t \in Nat /\ t < stack_top
    BY <2>1
  <2> QED
    BY <2>2, <1>2a
<1>7. \A i \in 0 .. t - 1 : StackFrame'[i] = StackFrame[i] /\ StackFrame[i] # f
  <2> SUFFICES ASSUME NEW i \in 0 .. t - 1
               PROVE  StackFrame'[i] = StackFrame[i] /\ StackFrame[i] # f
    OBVIOUS
  <2>1. i \in 0 .. stack_top - 1 /\ i \in 0 .. stack_top' - 1 /\ i # t
    BY <1>5, <1>4
  <2>2. StackFrame'[i] = StackFrame[i]
    BY <2>1, <1>2a DEF StackFrame, page_to_index
  <2>3. StackFrame[t] = f
    BY <1>4 DEF StackFrame
  <2>4. StackFrame[i] # StackFrame[t]
    BY <2>1, <1>4 DEF PMMInv, StackIsBitmap
  <2> QED
    BY <2>2, <2>3, <2>4
<1>8. \A g \in Frame : pmm_bitmap'[g] <=> \E i \in 0 .. t - 1 : StackFrame'[i] = g
  <2>1. \A g \in Frame : pmm_bitmap[g] <=> \E i \in 0 .. stack_top - 1 : StackFrame[i] = g
    BY DEF PMMInv, StackIsBitmap
  <2>2. StackFrame[t] = f
    BY <1>4 DEF StackFrame
  <2>3. \A i \in 0 .. stack_top - 1 : i \in 0 .. t - 1 \/ i = t
    BY <1>1
  <2>4. \A g \in Frame : pmm_bitmap'[g] <=> (pmm_bitmap[g] /\ g # f)
    BY <1>1, <1>2a, <1>2, FrameIsBit
  <2> QED
    BY <2>1, <2>2, <2>3, <2>4, <1>4, <1>7
<1>9. StackIsBitmap'
  <2>1. \A i, j \in 0 .. t - 1 : StackFrame'[i] = StackFrame'[j] => i = j
    BY <1>4, <1>7 DEF PMMInv, StackIsBitmap
  <2> QED
    BY <1>2a, <1>3, <1>8, <2>1 DEF StackIsBitmap
<1>10. NoPageTwice'
  <2>1. \A i \in 0 .. stack_top - 1 : StackFrame[i] \notin held
    BY DEF PMMInv, NoPageTwice
  <2>2. \A i \in 0 .. t - 1 : StackFrame'[i] \notin held'
    BY <2>1, <1>2a, <1>4, <1>7
  <2> QED
    BY <2>2, <1>2a DEF NoPageTwice
<1> QED
  BY <1>1, <1>2, <1>2a, <1>9, <1>10

\* alloc keeps the types and the count, whatever the address it takes, and the
\* rest as long as that is in memory (pmm.c:48-61).
LEMMA AllocKeeps ==
  ASSUME PMMInv, AllocPage
  PROVE  PMMInv'
<1> DEFINE t == stack_top - 1
           page == free_stack[t]
           k == page_to_index(page)
<1>1. /\ pmm_bitmap \in [Bit -> BOOLEAN] /\ free_stack \in [Frame -> Word]
      /\ stack_top \in 1 .. MAX_FRAMES /\ held \subseteq Nat
      /\ free_page_count = stack_top /\ MAX_FRAMES \in Nat
  <2>1. MAX_FRAMES \in Nat
    BY PMMAssumption
  <2>2. stack_top \in 0 .. MAX_FRAMES /\ stack_top > 0
    BY DEF PMMInv, PMMTypeOK, AllocPage
  <2>3. stack_top \in 1 .. MAX_FRAMES
    BY <2>1, <2>2
  <2> QED
    BY <2>1, <2>3 DEF PMMInv, PMMTypeOK, StackIsBitmap
<1>2. page \in Word /\ k \in Nat
  <2>1. t \in Frame
    BY <1>1 DEF Frame
  <2>2. page \in Word
    BY <1>1, <2>1
  <2> QED
    BY <2>2, IndexInReach
<1>3. /\ bitmap_put(k, FALSE, free_stack)
      /\ held' = held \/ held' = held \cup {k}
      /\ said' \in {"allocated", "no free pages available"}
      /\ UNCHANGED <<map, entry, addr, beyond>>
  BY DEF AllocPage, walkVars
<1>4. pmm_bitmap' \in [Bit -> BOOLEAN] /\ free_stack' \in [Frame -> Word]
  BY <1>1, <1>2, <1>3, PutTypes
<1>5. stack_top' \in 0 .. MAX_FRAMES /\ free_page_count' \in Nat
      /\ free_page_count' = stack_top'
  <2>1. stack_top' = stack_top - 1 /\ free_page_count' = free_page_count - 1
    BY <1>1 DEF AllocPage
  <2> QED
    BY <1>1, <2>1
<1>6. held' \subseteq Nat
  BY <1>1, <1>2, <1>3
<1>7. /\ ~beyond' => free_stack' \in [Frame -> Addr] /\ held' \subseteq Frame
      /\ StackIsBitmap' /\ NoPageTwice'
  <2>1. CASE beyond
    BY <1>3, <1>5, <2>1 DEF StackIsBitmap, NoPageTwice
  <2>2. CASE ~beyond
    BY <2>2, AllocInMemory
  <2> QED
    BY <2>1, <2>2
<1> QED
  BY <1>3, <1>4, <1>5, <1>6, <1>7 DEF PMMInv, PMMTypeOK

\* What the invariant says of the stack depends on these variables only.
LEMMA StackUnchanged ==
  ASSUME StackIsBitmap, NoPageTwice, UNCHANGED <<stackVars, held, beyond>>
  PROVE  StackIsBitmap' /\ NoPageTwice'
<1>1. /\ pmm_bitmap' = pmm_bitmap /\ free_stack' = free_stack /\ stack_top' = stack_top
      /\ free_page_count' = free_page_count /\ held' = held /\ beyond' = beyond
  BY DEF stackVars
<1>2. StackFrame' = StackFrame
  BY <1>1 DEF StackFrame, page_to_index
<1> QED
  BY <1>1, <1>2 DEF StackIsBitmap, NoPageTwice

\* Every step of the walk and of the commands keeps the invariant (pmm.c:48-83,
\* multiboot.c:40-53).
LEMMA PMMInvNext == PMMInv /\ [PMMNext]_pmmVars => PMMInv'
<1> SUFFICES ASSUME PMMInv, [PMMNext]_pmmVars PROVE PMMInv'
  OBVIOUS
<1>1. CASE WalkPage
  <2>1. addr \in Word
    BY DEF PMMInv, PMMTypeOK
  <2>2. /\ pmm_bitmap' \in [Bit -> BOOLEAN]
        /\ free_stack' \in [Frame -> Word] /\ stack_top' \in 0 .. MAX_FRAMES
        /\ free_page_count' \in Nat /\ held' \subseteq Nat /\ beyond' \in BOOLEAN
        /\ ~beyond' => free_stack' \in [Frame -> Addr] /\ held' \subseteq Frame
        /\ StackIsBitmap' /\ NoPageTwice'
    <3>1. CASE pmm_free_page(addr)
      BY <3>1, <2>1, FreeTypes, FreeKeeps
    <3>2. CASE UNCHANGED <<stackVars, held, beyond>>
      BY <3>2, StackUnchanged DEF PMMInv, PMMTypeOK, stackVars
    <3> QED
      BY <1>1, <3>1, <3>2 DEF WalkPage
  <2>3. addr' \in Word /\ UNCHANGED <<map, entry, said>>
    BY <1>1, <2>1, NextPage DEF WalkPage
  <2> QED
    BY <2>2, <2>3 DEF PMMInv, PMMTypeOK
<1>2. CASE WalkEntry
  <2>1. /\ map \in MemoryMap /\ entry \in 1 .. Len(map) + 1 /\ entry <= Len(map)
        /\ Len(map) \in Nat /\ UNCHANGED <<stackVars, map, held, said, beyond>>
        /\ entry' = entry + 1 /\ addr' = FirstOf(entry + 1)
    BY <1>2, EntryType DEF WalkEntry, Walking, PMMInv, PMMTypeOK
  <2>2. entry' \in 1 .. Len(map') + 1 /\ addr' \in Word
    BY <2>1, FirstOfType
  <2>3. StackIsBitmap' /\ NoPageTwice'
    BY <2>1, StackUnchanged DEF PMMInv
  <2> QED
    BY <2>1, <2>2, <2>3 DEF PMMInv, PMMTypeOK, stackVars
<1>3. CASE AllocEmpty
  <2>1. StackIsBitmap' /\ NoPageTwice'
    BY <1>3, StackUnchanged DEF PMMInv, AllocEmpty
  <2> QED
    BY <1>3, <2>1 DEF PMMInv, PMMTypeOK, AllocEmpty, stackVars, walkVars
<1>4. CASE AllocPage
  BY <1>4, AllocKeeps
<1>5. CASE \E page \in UserAddr : FreePage(page)
  <2>1. PICK page \in UserAddr : FreePage(page)
    BY <1>5
  <2>2. page \in Word /\ pmm_free_page(page)
    BY <2>1, PMMAssumption DEF FreePage
  <2>3. said' = "freed" /\ UNCHANGED <<map, entry, addr>>
    BY <2>1 DEF FreePage, walkVars
  <2> QED
    BY <2>2, <2>3, FreeTypes, FreeKeeps DEF PMMInv, PMMTypeOK
<1>6. CASE UNCHANGED pmmVars
  <2>1. StackIsBitmap' /\ NoPageTwice'
    BY <1>6, StackUnchanged DEF PMMInv, pmmVars
  <2> QED
    BY <1>6, <2>1 DEF PMMInv, PMMTypeOK, pmmVars, stackVars, walkVars
<1> QED
  BY <1>1, <1>2, <1>3, <1>4, <1>5, <1>6 DEF PMMNext

\* The allocator's variables keep their types, for every memory map and all words
\* given to pfree.  stack_top stays within the stack, whatever is freed; but the
\* addresses on the stack have bits in the bitmap, and alloc hands out no others,
\* only until an address at or beyond MAX_FRAMES pages is freed (pmm.c:12-33).
THEOREM PagesTypeCorrect == PMMSpec => []PMMTypeOK
<1>1. PMMInv => PMMTypeOK
  BY DEF PMMInv
<1> QED
  BY <1>1, PMMInvInit, PMMInvNext, PTL DEF PMMSpec

\* For every memory map and every sequence of alloc and pfree, of any words, the
\* count is the stack's depth; stack and bitmap agree until an address at or beyond
\* MAX_FRAMES pages is freed, by a user or by the walk (pmm.c:48-83).
THEOREM StackAndBitmapAgree == PMMSpec => []StackIsBitmap
<1>1. PMMInv => StackIsBitmap
  BY DEF PMMInv
<1> QED
  BY <1>1, PMMInvInit, PMMInvNext, PTL DEF PMMSpec

\* For every memory map and any words given to pfree: until one of them, or a page
\* of the map, is at or beyond MAX_FRAMES pages, a page that is handed out is not
\* handed out again before it is given back (pmm.c:48-83).
THEOREM NoPageHandedOutTwice == PMMSpec => []NoPageTwice
<1>1. PMMInv => NoPageTwice
  BY DEF PMMInv
<1> QED
  BY <1>1, PMMInvInit, PMMInvNext, PTL DEF PMMSpec
-----------------------------------------------------------------------------
(* Every available page is accounted for.                                  *)

\* A frame's addresses, when the page's size divides them.
LEMMA FrameBounds ==
  ASSUME NEW a \in Nat
  PROVE  /\ page_to_index(a) \in Nat
         /\ page_to_index(a) * PAGE_SIZE <= a
         /\ a < page_to_index(a) * PAGE_SIZE + PAGE_SIZE
         /\ a % PAGE_SIZE = 0 => a = page_to_index(a) * PAGE_SIZE
  BY PMMAssumption DEF page_to_index

\* Frames follow each other at a page's distance.
LEMMA NextFrame ==
  ASSUME NEW f \in Nat, NEW g \in Nat
  PROVE  /\ f * PAGE_SIZE \in Nat /\ (f + 1) * PAGE_SIZE = f * PAGE_SIZE + PAGE_SIZE
         /\ f < g => f * PAGE_SIZE + PAGE_SIZE <= g * PAGE_SIZE
         /\ f = 0 => f * PAGE_SIZE = 0
<1>1. PAGE_SIZE \in Nat \ {0}
  BY PMMAssumption
<1>2. f * PAGE_SIZE \in Nat /\ (f + 1) * PAGE_SIZE = f * PAGE_SIZE + PAGE_SIZE
  BY <1>1, Z3
<1>3. ASSUME f < g PROVE f * PAGE_SIZE + PAGE_SIZE <= g * PAGE_SIZE
  <2>1. PAGE_SIZE * (f + 1) <= PAGE_SIZE * g
    BY <1>1, <1>3, ProductGrows
  <2>2. PAGE_SIZE * (f + 1) = f * PAGE_SIZE + PAGE_SIZE /\ PAGE_SIZE * g = g * PAGE_SIZE
    BY <1>1, Z3
  <2> QED
    BY <2>1, <2>2
<1>4. f = 0 => f * PAGE_SIZE = 0
  BY <1>1
<1> QED
  BY <1>2, <1>3, <1>4

\* An aligned address lies at the start of one frame only.
LEMMA SameFrame ==
  ASSUME NEW f \in Nat, NEW a \in Nat, a % PAGE_SIZE = 0,
         a <= f * PAGE_SIZE, f * PAGE_SIZE < a + PAGE_SIZE
  PROVE  f = page_to_index(a) /\ f * PAGE_SIZE = a
<1> DEFINE k == page_to_index(a)
<1>1. k \in Nat /\ a = k * PAGE_SIZE
  BY FrameBounds
<1> HIDE DEF k
<1>2. PAGE_SIZE \in Nat \ {0}
  BY PMMAssumption
<1>3. ~(k < f)
  <2>1. k < f => k * PAGE_SIZE + PAGE_SIZE <= f * PAGE_SIZE
    BY <1>1, NextFrame
  <2>2. f * PAGE_SIZE \in Nat /\ k * PAGE_SIZE \in Nat
    BY <1>1, NextFrame
  <2> QED
    BY <1>1, <1>2, <2>1, <2>2
<1>4. ~(f < k)
  <2>1. f < k => f * PAGE_SIZE + PAGE_SIZE <= k * PAGE_SIZE
    BY <1>1, NextFrame
  <2>2. f * PAGE_SIZE \in Nat /\ k * PAGE_SIZE \in Nat
    BY <1>1, NextFrame
  <2> QED
    BY <1>1, <1>2, <2>1, <2>2
<1>5. f = k
  BY <1>1, <1>3, <1>4
<1> QED
  BY <1>1, <1>5 DEF k

\* A frame has a byte of an area that begins on a page boundary exactly when its
\* first byte is in the area, wherever the area ends.
LEMMA FirstByteDecides ==
  ASSUME NEW f \in Nat, NEW lo \in Nat, NEW hi \in Nat, lo % PAGE_SIZE = 0
  PROVE  (\E b \in Bytes(f) : lo <= b /\ b < hi) <=> (lo <= f * PAGE_SIZE /\ f * PAGE_SIZE < hi)
<1>1. /\ PAGE_SIZE \in Nat \ {0} /\ f * PAGE_SIZE \in Nat
      /\ (f + 1) * PAGE_SIZE = f * PAGE_SIZE + PAGE_SIZE
  BY PMMAssumption, NextFrame
<1>2. f * PAGE_SIZE \in Bytes(f)
  BY <1>1 DEF Bytes
<1>3. ASSUME NEW b \in Bytes(f), lo <= b, b < hi
      PROVE  lo <= f * PAGE_SIZE /\ f * PAGE_SIZE < hi
  <2>1. b \in Int /\ f * PAGE_SIZE <= b /\ b < f * PAGE_SIZE + PAGE_SIZE
    BY <1>1 DEF Bytes
  <2>2. PICK k \in Nat : lo = k * PAGE_SIZE
    BY FrameBounds
  <2>3. f < k => f * PAGE_SIZE + PAGE_SIZE <= k * PAGE_SIZE
    BY <2>2, NextFrame
  <2>4. k < f => k * PAGE_SIZE + PAGE_SIZE <= f * PAGE_SIZE
    BY <2>2, NextFrame
  <2>5. k * PAGE_SIZE \in Nat
    BY <2>2
  <2>6. ~(f < k)
    BY <1>1, <1>3, <2>1, <2>2, <2>3, <2>5
  <2>7. k * PAGE_SIZE <= f * PAGE_SIZE
    <3>1. k = f \/ k < f
      BY <2>2, <2>6
    <3> QED
      BY <1>1, <2>4, <2>5, <3>1
  <2> QED
    BY <1>1, <1>3, <2>1, <2>2, <2>7
<1> QED
  BY <1>2, <1>3

\* The first byte of a frame is in an available region, and in no part of the kernel.
InRegion(f, i) == /\ map[i].available
                  /\ map[i].base <= f * PAGE_SIZE
                  /\ f * PAGE_SIZE < map[i].base + map[i].length
Usable(f) == /\ \E i \in DOMAIN map : InRegion(f, i)
             /\ ~IsKernel(f * PAGE_SIZE)

\* What the walk tests of a page's address is what holds of the page
\* (multiboot.c:43-47).
LEMMA UsableMeans ==
  ASSUME map \in MemoryMap, NEW f \in Frame
  PROVE  f \in Available \ KernelFrames <=> Usable(f)
<1>1. f \in Nat /\ KERNEL_START \in Nat /\ KERNEL_END \in Nat /\ KERNEL_START % PAGE_SIZE = 0
  BY AddrIsNat, PMMAssumption DEF Frame
<1>2. f \in KernelFrames <=> IsKernel(f * PAGE_SIZE)
  BY <1>1, FirstByteDecides DEF KernelFrames, IsKernel
<1>3. ASSUME NEW i \in DOMAIN map, map[i].available
      PROVE  (\E b \in Bytes(f) : map[i].base <= b /\ b < map[i].base + map[i].length)
               <=> InRegion(f, i)
  <2>1. map[i].base \in Nat /\ map[i].length \in Nat
    BY EntryType, AddrIsNat
  <2>2. map[i].base % PAGE_SIZE = 0
    BY <1>3, PMMAssumption
  <2>3. map[i].base + map[i].length \in Nat
    BY <2>1
  <2> QED
    BY <1>1, <1>3, <2>1, <2>2, <2>3, FirstByteDecides DEF InRegion
<1>4. f \in Available <=> \E i \in DOMAIN map : InRegion(f, i)
  <2>1. f \in Available <=>
          \E i \in DOMAIN map : \E b \in Bytes(f) :
             /\ map[i].available
             /\ map[i].base <= b /\ b < map[i].base + map[i].length
    BY DEF Available
  <2> QED
    BY <1>3, <2>1 DEF InRegion
<1> QED
  BY <1>2, <1>4 DEF Usable

\* The pages of region i the walk has passed.
Walked(f, i) == /\ InRegion(f, i)
                /\ i < entry \/ (i = entry /\ f * PAGE_SIZE < addr)

\* A frame that is free or handed out.
Kept(f) == pmm_bitmap[f] \/ f \in held

UsersFreeUsable == \A a \in UserAddr \cap Addr : Usable(page_to_index(a))

\* Until an address beyond memory is freed, the walk stands on a page boundary of
\* its region; what it has passed is kept, but for frame 0; and only usable frames
\* are kept.
WalkedOrKept ==
  /\ Walking /\ Region.available => addr % PAGE_SIZE = 0 /\ Region.base <= addr
  /\ \A f \in Frame \ {0} : \A i \in DOMAIN map :
       Walked(f, i) /\ ~IsKernel(f * PAGE_SIZE) => Kept(f)
  /\ UsersFreeUsable => \A f \in Frame : Kept(f) => Usable(f)

\* The inductive invariant.
WalkInv == PMMInv /\ (~beyond => WalkedOrKept)

\* On a full stack every frame is free: the entries are as many as the frames,
\* and no two are the same (pmm.c:70-74).
LEMMA FullStackHoldsAll ==
  ASSUME PMMInv, ~beyond, stack_top >= MAX_FRAMES, NEW f \in Frame
  PROVE  pmm_bitmap[f]
<1>1. /\ MAX_FRAMES \in Nat \ {0} /\ stack_top \in 0 .. MAX_FRAMES
      /\ free_stack \in [Frame -> Addr]
  BY PMMAssumption DEF PMMInv, PMMTypeOK
<1>2. 0 .. stack_top - 1 = Frame
  BY <1>1 DEF Frame
<1>3. StackFrame \in [Frame -> Frame]
  BY <1>1, <1>2, IndexIsFrame DEF StackFrame
<1>4. \A i, j \in Frame : StackFrame[i] = StackFrame[j] => i = j
  BY <1>2 DEF PMMInv, StackIsBitmap
<1>5. StackFrame \in Injection(Frame, Frame)
  BY <1>3, <1>4, Fun_IsInj
<1>6. IsFiniteSet(Frame)
  BY <1>1, FS_Interval DEF Frame
<1>7. StackFrame \in Surjection(Frame, Frame)
  BY <1>5, <1>6, FS_Injection
<1>8. \E i \in Frame : StackFrame[i] = f
  BY <1>7, Fun_SurjectionProperties
<1> QED
  BY <1>2, <1>8 DEF PMMInv, StackIsBitmap

\* pmm_free_page keeps its page, refused or not, and loses no other (pmm.c:63-83).
LEMMA FreeAccounts ==
  ASSUME PMMInv, ~beyond, NEW page \in Addr, pmm_free_page(page), NEW g \in Frame
  PROVE  Kept(g)' <=> Kept(g) \/ g = page_to_index(page)
<1> DEFINE f == page_to_index(page)
<1>1. f \in Frame /\ pmm_bitmap \in [Bit -> BOOLEAN] /\ Frame \subseteq Bit
  BY IndexIsFrame, FrameIsBit DEF PMMInv, PMMTypeOK
<1>2. CASE Refused(page)
  <2>1. pmm_bitmap[f]
    BY <1>1, <1>2, FullStackHoldsAll, BitInMemory DEF Refused
  <2>2. pmm_bitmap' = pmm_bitmap /\ held' = held
    BY <1>2 DEF pmm_free_page, stackVars
  <2> QED
    BY <2>1, <2>2 DEF Kept
<1>3. CASE ~Refused(page)
  <2>1. pmm_bitmap' = [pmm_bitmap EXCEPT ![f] = TRUE] /\ held' = held \ {f}
    BY <1>3, BitInMemory DEF pmm_free_page
  <2> HIDE DEF f
  <2>2. pmm_bitmap'[g] <=> pmm_bitmap[g] \/ g = f
    BY <1>1, <2>1
  <2>3. Kept(g)' <=> Kept(g) \/ g = f
    BY <2>1, <2>2 DEF Kept
  <2> QED
    BY <2>3 DEF f
<1> QED
  BY <1>2, <1>3

\* alloc loses no page but frame 0, whose address looks like NULL (pmm.c:48-61,
\* shell.c's alloc).
LEMMA AllocAccounts ==
  ASSUME PMMInv, ~beyond, AllocPage, NEW g \in Frame
  PROVE  /\ Kept(g)' => Kept(g)
         /\ Kept(g) => Kept(g)' \/ g = 0
<1> DEFINE t == stack_top - 1
           page == free_stack[t]
           f == page_to_index(page)
<1>1. stack_top \in 1 .. MAX_FRAMES /\ MAX_FRAMES \in Nat
  <2>1. MAX_FRAMES \in Nat
    BY PMMAssumption
  <2>2. stack_top \in 0 .. MAX_FRAMES /\ stack_top > 0
    BY DEF PMMInv, PMMTypeOK, AllocPage
  <2> QED
    BY <2>1, <2>2
<1>2. t \in Frame /\ t \in 0 .. stack_top - 1
  BY <1>1 DEF Frame
<1>3. page \in Addr /\ f \in Frame
  BY <1>2, IndexIsFrame DEF PMMInv, PMMTypeOK
<1>4. pmm_bitmap[f]
  <2>1. StackFrame[t] = f
    BY <1>2 DEF StackFrame
  <2> QED
    BY <1>2, <1>3, <2>1 DEF PMMInv, StackIsBitmap
<1>5. /\ pmm_bitmap' = [pmm_bitmap EXCEPT ![f] = FALSE]
      /\ IF page # 0 THEN held' = held \cup {f} ELSE held' = held
  BY <1>3, BitInMemory DEF AllocPage
<1>6. page = 0 => f = 0
  BY PMMAssumption DEF page_to_index
<1>7. pmm_bitmap \in [Bit -> BOOLEAN] /\ Frame \subseteq Bit
  BY FrameIsBit DEF PMMInv, PMMTypeOK
<1> HIDE DEF f, page
<1>8. pmm_bitmap'[g] <=> pmm_bitmap[g] /\ g # f
  BY <1>3, <1>5, <1>7
<1> QED
  BY <1>4, <1>5, <1>6, <1>8 DEF Kept

\* The regions do not change, nor does what the walk has passed, unless it walks.
LEMMA RegionsStay ==
  ASSUME map' = map
  PROVE  /\ \A f, i : InRegion(f, i)' <=> InRegion(f, i)
         /\ \A f : Usable(f)' <=> Usable(f)
         /\ UsersFreeUsable' <=> UsersFreeUsable
         /\ UNCHANGED <<entry, addr>> =>
              /\ \A f, i : Walked(f, i)' <=> Walked(f, i)
              /\ Walking' <=> Walking
              /\ Region' = Region
<1>1. \A f, i : InRegion(f, i)' <=> InRegion(f, i)
  BY DEF InRegion
<1>2. \A f : Usable(f)' <=> Usable(f)
  BY DEF Usable, InRegion, IsKernel
<1>3. UsersFreeUsable' <=> UsersFreeUsable
  BY DEF UsersFreeUsable, Usable, InRegion, IsKernel, page_to_index
<1>4. ASSUME UNCHANGED <<entry, addr>>
      PROVE  /\ \A f, i : Walked(f, i)' <=> Walked(f, i)
             /\ Walking' <=> Walking
             /\ Region' = Region
  BY <1>4 DEF Walked, InRegion, Walking, Region
<1> QED
  BY <1>1, <1>2, <1>3, <1>4

\* Nothing is passed yet, and nothing kept.
LEMMA WalkInvInit == PMMInit => WalkInv
<1> SUFFICES ASSUME PMMInit PROVE WalkInv
  OBVIOUS
<1>1. PMMInv
  BY PMMInvInit
<1>2. map \in MemoryMap /\ Len(map) \in Nat /\ DOMAIN map = 1 .. Len(map)
  BY EntryType DEF PMMInit
<1>3. Walking => 1 \in DOMAIN map /\ Region = map[1] /\ addr = map[1].base
  BY <1>2 DEF PMMInit, Walking, Region, FirstOf
<1>4. Walking /\ Region.available => addr % PAGE_SIZE = 0 /\ Region.base <= addr
  <2>1. Walking => map[1].base \in Nat
    BY <1>2, <1>3, EntryType, AddrIsNat
  <2>2. Walking /\ map[1].available => map[1].base % PAGE_SIZE = 0
    BY <1>2, <1>3, PMMAssumption
  <2> QED
    BY <1>3, <2>1, <2>2
<1>5. ASSUME NEW f \in Frame, NEW i \in DOMAIN map PROVE ~Walked(f, i)
  <2>1. entry = 1 /\ i \in Nat /\ 1 <= i /\ 1 <= Len(map)
    BY <1>2 DEF PMMInit
  <2>2. Walking
    BY <1>2, <2>1 DEF Walking
  <2>3. addr = map[1].base /\ addr \in Nat
    BY <1>2, <1>3, <2>2, EntryType, AddrIsNat
  <2>4. f \in Nat /\ f * PAGE_SIZE \in Nat
    BY NextFrame DEF Frame
  <2> QED
    BY <2>1, <2>3, <2>4 DEF Walked, InRegion
<1>6. \A f \in Frame : ~Kept(f)
  BY FrameIsBit DEF PMMInit, Kept
<1> QED
  BY <1>1, <1>4, <1>5, <1>6 DEF WalkInv, WalkedOrKept

\* The next page boundary.
LEMMA NextIsAligned ==
  ASSUME NEW a \in Nat, a % PAGE_SIZE = 0
  PROVE  (a + PAGE_SIZE) % PAGE_SIZE = 0
<1> DEFINE b == a + PAGE_SIZE
           k == page_to_index(a)
           q == page_to_index(b)
           r == b % PAGE_SIZE
<1>1. PAGE_SIZE \in Nat \ {0} /\ b \in Nat
  BY PMMAssumption
<1>2. k \in Nat /\ a = k * PAGE_SIZE
  BY FrameBounds
<1>3. q \in Nat /\ q * PAGE_SIZE <= b /\ b < q * PAGE_SIZE + PAGE_SIZE
  BY <1>1, FrameBounds
<1>4. b = q * PAGE_SIZE + r
  BY <1>1 DEF page_to_index
<1>5. b = (k + 1) * PAGE_SIZE
  BY <1>2, NextFrame
<1>6. r \in Nat
  BY <1>1
<1> HIDE DEF b, k, q, r
<1>7. ~(q < k + 1) /\ ~(k + 1 < q)
  <2>1. k + 1 \in Nat /\ q * PAGE_SIZE \in Nat
    BY <1>2, <1>3, NextFrame
  <2>2. q < k + 1 => q * PAGE_SIZE + PAGE_SIZE <= (k + 1) * PAGE_SIZE
    BY <1>3, <2>1, NextFrame
  <2>3. k + 1 < q => (k + 1) * PAGE_SIZE + PAGE_SIZE <= q * PAGE_SIZE
    BY <1>3, <2>1, NextFrame
  <2> QED
    BY <1>1, <1>3, <1>5, <2>1, <2>2, <2>3
<1>8. q = k + 1
  BY <1>2, <1>3, <1>7
<1>9. r = 0
  <2>1. (k + 1) * PAGE_SIZE \in Nat
    BY <1>1, <1>5
  <2> QED
    BY <1>4, <1>5, <1>6, <1>8, <2>1
<1> QED
  BY <1>9 DEF r, b

\* While the walk goes on it is at an entry of the map.
LEMMA EntryIsThere ==
  ASSUME PMMTypeOK, Walking
  PROVE  Len(map) \in Nat /\ DOMAIN map = 1 .. Len(map) /\ entry \in 1 .. Len(map)
<1>1. Len(map) \in Nat /\ DOMAIN map = 1 .. Len(map)
  BY EntryType DEF PMMTypeOK
<1>2. entry \in 1 .. Len(map) + 1 /\ entry <= Len(map)
  BY DEF PMMTypeOK, Walking
<1> QED
  BY <1>1, <1>2

\* A page passed is kept, or is the kernel's (multiboot.c:43-48).
LEMMA WalkPageKeeps ==
  ASSUME WalkInv, WalkPage
  PROVE  WalkInv'
<1> DEFINE k == page_to_index(addr)
<1>1. PMMInv /\ PMMInv' /\ PMMTypeOK /\ map \in MemoryMap /\ map' = map
  BY PMMInvNext DEF WalkInv, PMMInv, PMMTypeOK, WalkPage, PMMNext
<1> SUFFICES ASSUME ~beyond' PROVE WalkedOrKept'
  BY <1>1 DEF WalkInv
<1>1a. ~beyond /\ addr \in Addr
  <2>1. CASE IsKernel(addr)
    BY <1>1, <2>1, KernelInMemory, AddrIsNat DEF WalkPage, PMMTypeOK
  <2>2. CASE ~IsKernel(addr)
    BY <2>2 DEF WalkPage, pmm_free_page
  <2> QED
    BY <2>1, <2>2
<1>1b. WalkedOrKept
  BY <1>1a DEF WalkInv
<1>2. /\ Walking /\ Region.available /\ addr < Region.base + Region.length
      /\ entry' = entry /\ addr' = addr + PAGE_SIZE
  BY <1>1a, NextPage, AddrIsNat DEF WalkPage
<1>3. addr \in Addr /\ addr \in Nat /\ k \in Frame
  BY <1>1a, AddrIsNat, IndexIsFrame
<1>4. addr % PAGE_SIZE = 0 /\ Region.base <= addr /\ PAGE_SIZE \in Nat \ {0}
  BY <1>1b, <1>2, PMMAssumption DEF WalkedOrKept
<1>5. k * PAGE_SIZE = addr
  BY <1>3, <1>4, FrameBounds
<1>6. Len(map) \in Nat /\ DOMAIN map = 1 .. Len(map) /\ entry \in 1 .. Len(map)
  BY <1>1, <1>2, EntryIsThere
<1>7. map[entry].base \in Nat /\ Region = map[entry]
  BY <1>1, <1>6, EntryType, AddrIsNat DEF Region
<1> HIDE DEF k
<1>8. \A g \in Frame : Kept(g)' <=> Kept(g) \/ (g = k /\ ~IsKernel(addr))
  <2>1. CASE IsKernel(addr)
    BY <2>1 DEF WalkPage, Kept, stackVars
  <2>2. CASE ~IsKernel(addr)
    BY <1>1, <1>1a, <1>3, <2>2, FreeAccounts DEF WalkPage, k
  <2> QED
    BY <2>1, <2>2
<1>9. Walking' /\ Region' = Region
  BY <1>1, <1>2 DEF Walking, Region
<1>10. addr' % PAGE_SIZE = 0 /\ Region.base <= addr'
  <2>1. (addr + PAGE_SIZE) % PAGE_SIZE = 0
    BY <1>3, <1>4, NextIsAligned
  <2>2. Region.base <= addr + PAGE_SIZE
    BY <1>3, <1>4, <1>7
  <2> QED
    BY <1>2, <2>1, <2>2
<1>11. ASSUME NEW f \in Frame \ {0}, NEW i \in DOMAIN map, Walked(f, i)',
              ~IsKernel(f * PAGE_SIZE)
       PROVE  Kept(f)'
  <2>1. InRegion(f, i) /\ (i < entry \/ (i = entry /\ f * PAGE_SIZE < addr + PAGE_SIZE))
    BY <1>1, <1>2, <1>11, RegionsStay DEF Walked
  <2>2. CASE Walked(f, i)
    BY <1>1b, <1>8, <1>11, <2>2 DEF WalkedOrKept
  <2>3. CASE ~Walked(f, i)
    <3>1. ~(f * PAGE_SIZE < addr) /\ f * PAGE_SIZE < addr + PAGE_SIZE
      BY <2>1, <2>3 DEF Walked
    <3>2. f \in Nat /\ f * PAGE_SIZE \in Nat
      BY NextFrame DEF Frame
    <3>3. addr <= f * PAGE_SIZE
      BY <1>3, <3>1, <3>2
    <3>4. f = k /\ f * PAGE_SIZE = addr
      BY <1>3, <1>4, <3>1, <3>2, <3>3, SameFrame DEF k
    <3> QED
      BY <1>8, <1>11, <3>4
  <2> QED
    BY <2>2, <2>3
<1>12. ~IsKernel(addr) => Usable(k)
  <2>1. InRegion(k, entry)
    BY <1>2, <1>4, <1>5, <1>7 DEF InRegion
  <2> QED
    BY <1>5, <1>6, <2>1 DEF Usable
<1>13. UsersFreeUsable' => \A f \in Frame : Kept(f)' => Usable(f)'
  BY <1>1, <1>1b, <1>8, <1>12, RegionsStay DEF WalkedOrKept
<1>14. \A f : IsKernel(f * PAGE_SIZE)' <=> IsKernel(f * PAGE_SIZE)
  BY DEF IsKernel
<1> QED
  BY <1>1, <1>9, <1>10, <1>11, <1>13, <1>14 DEF WalkedOrKept

\* A region is left when all of its pages are passed, or none is available
\* (multiboot.c:41-45).
LEMMA WalkEntryKeeps ==
  ASSUME WalkInv, WalkEntry
  PROVE  WalkInv'
<1>1. PMMInv /\ PMMInv' /\ PMMTypeOK /\ map \in MemoryMap /\ map' = map
  BY PMMInvNext DEF WalkInv, PMMInv, PMMTypeOK, WalkEntry, PMMNext
<1> SUFFICES ASSUME ~beyond' PROVE WalkedOrKept'
  BY <1>1 DEF WalkInv
<1>1a. WalkedOrKept
  BY DEF WalkInv, WalkEntry
<1>2. /\ Walking /\ ~(Region.available /\ addr < Region.base + Region.length)
      /\ entry' = entry + 1 /\ addr' = FirstOf(entry + 1)
      /\ UNCHANGED <<pmm_bitmap, held>>
  BY DEF WalkEntry, stackVars
<1>3. Len(map) \in Nat /\ DOMAIN map = 1 .. Len(map) /\ entry \in 1 .. Len(map) /\ addr \in Nat
  BY <1>1, <1>2, EntryIsThere, AddrIsNat DEF PMMTypeOK
<1>4. Walking' => /\ entry' \in DOMAIN map /\ Region' = map[entry']
                  /\ addr' = map[entry'].base
  BY <1>1, <1>2, <1>3 DEF Walking, Region, FirstOf
<1>5. \A i \in DOMAIN map : map[i].base \in Nat /\ map[i].length \in Nat
  BY <1>1, <1>3, EntryType, AddrIsNat
<1>6. Walking' /\ Region'.available => addr' % PAGE_SIZE = 0 /\ Region'.base <= addr'
  <2>1. Walking' /\ Region'.available => map[entry'].base % PAGE_SIZE = 0
    BY <1>1, <1>4, PMMAssumption
  <2> QED
    BY <1>4, <1>5, <2>1
<1>7. \A f : Kept(f)' <=> Kept(f)
  BY <1>2 DEF Kept
<1>8. ASSUME NEW f \in Frame, NEW i \in DOMAIN map, Walked(f, i)'
      PROVE  Walked(f, i)
  <2>1. InRegion(f, i) /\ (i < entry + 1 \/ (i = entry' /\ f * PAGE_SIZE < addr'))
    BY <1>1, <1>2, <1>8, RegionsStay DEF Walked
  <2>2. f * PAGE_SIZE \in Nat
    BY NextFrame DEF Frame
  <2>3. ~(i = entry' /\ f * PAGE_SIZE < addr')
    <3> SUFFICES ASSUME i = entry', f * PAGE_SIZE < addr' PROVE FALSE
      OBVIOUS
    <3>1. addr' = map[i].base
      BY <1>1, <1>2, <1>3 DEF FirstOf
    <3> QED
      BY <1>5, <2>1, <2>2, <3>1 DEF InRegion
  <2>4. i < entry \/ i = entry
    BY <1>3, <2>1, <2>3
  <2>5. i = entry => f * PAGE_SIZE < addr
    BY <1>2, <1>3, <1>5, <2>1, <2>2 DEF InRegion, Region
  <2> QED
    BY <2>1, <2>4, <2>5 DEF Walked
<1>9. \A f : IsKernel(f * PAGE_SIZE)' <=> IsKernel(f * PAGE_SIZE)
  BY DEF IsKernel
<1>10. UsersFreeUsable' => \A f \in Frame : Kept(f)' => Usable(f)'
  BY <1>1, <1>1a, <1>7, RegionsStay DEF WalkedOrKept
<1>11. \A f \in Frame \ {0} : \A i \in DOMAIN map :
         Walked(f, i)' /\ ~IsKernel(f * PAGE_SIZE) => Kept(f)'
  BY <1>1a, <1>7, <1>8 DEF WalkedOrKept
<1> QED
  BY <1>1, <1>6, <1>9, <1>10, <1>11 DEF WalkedOrKept

\* The commands and the steps that change nothing.
LEMMA CommandKeeps ==
  ASSUME WalkInv,
         \/ AllocEmpty \/ AllocPage
         \/ \E page \in UserAddr : FreePage(page)
         \/ UNCHANGED pmmVars
  PROVE  WalkInv'
<1>1. PMMInv /\ PMMInv'
  BY PMMInvNext DEF WalkInv, PMMNext
<1> SUFFICES ASSUME ~beyond' PROVE WalkedOrKept'
  BY <1>1 DEF WalkInv
<1>1a. ~beyond
  <2>1. CASE \E page \in UserAddr : FreePage(page)
    BY <2>1 DEF FreePage, pmm_free_page
  <2>2. CASE AllocEmpty \/ AllocPage \/ UNCHANGED pmmVars
    BY <2>2 DEF AllocEmpty, AllocPage, pmmVars
  <2> QED
    BY <2>1, <2>2
<1>1c. WalkedOrKept
  BY <1>1a DEF WalkInv
<1>1b. \A page \in UserAddr : FreePage(page) => page \in Addr /\ pmm_free_page(page)
  BY DEF FreePage, pmm_free_page
<1>2. UNCHANGED <<map, entry, addr>>
  BY DEF AllocEmpty, AllocPage, FreePage, pmmVars, walkVars
<1>3. \A f \in Frame : Kept(f) => Kept(f)' \/ f = 0
  <2>1. CASE AllocPage
    BY <1>1, <1>1a, <2>1, AllocAccounts
  <2>2. CASE \E page \in UserAddr : FreePage(page)
    BY <1>1, <1>1a, <1>1b, <2>2, FreeAccounts
  <2>3. CASE AllocEmpty \/ UNCHANGED pmmVars
    BY <2>3 DEF AllocEmpty, pmmVars, stackVars, Kept
  <2> QED
    BY <2>1, <2>2, <2>3
<1>4. ASSUME UsersFreeUsable, NEW f \in Frame, Kept(f)'
      PROVE  Usable(f)
  <2>1. CASE AllocPage
    BY <1>1, <1>1a, <1>1c, <1>4, <2>1, AllocAccounts DEF WalkedOrKept
  <2>2. CASE \E page \in UserAddr : FreePage(page)
    <3>1. PICK page \in UserAddr : FreePage(page)
      BY <2>2
    <3>2. Kept(f) \/ f = page_to_index(page)
      BY <1>1, <1>1a, <1>1b, <1>4, <3>1, FreeAccounts
    <3> QED
      BY <1>1c, <1>1b, <1>4, <3>1, <3>2 DEF WalkedOrKept, UsersFreeUsable
  <2>3. CASE AllocEmpty \/ UNCHANGED pmmVars
    <3>1. Kept(f)
      BY <1>4, <2>3 DEF AllocEmpty, pmmVars, stackVars, Kept
    <3> QED
      BY <1>1c, <1>4, <3>1 DEF WalkedOrKept
  <2> QED
    BY <2>1, <2>2, <2>3
<1>5. \A f : IsKernel(f * PAGE_SIZE)' <=> IsKernel(f * PAGE_SIZE)
  BY DEF IsKernel
<1>6. Walking' /\ Region'.available => addr' % PAGE_SIZE = 0 /\ Region'.base <= addr'
  BY <1>1c, <1>2, RegionsStay DEF WalkedOrKept
<1>7. \A f \in Frame \ {0} : \A i \in DOMAIN map' :
         Walked(f, i)' /\ ~IsKernel(f * PAGE_SIZE) => Kept(f)'
  BY <1>1c, <1>2, <1>3, RegionsStay DEF WalkedOrKept
<1>8. UsersFreeUsable' => \A f \in Frame : Kept(f)' => Usable(f)'
  BY <1>2, <1>4, RegionsStay
<1> QED
  BY <1>1, <1>5, <1>6, <1>7, <1>8 DEF WalkedOrKept

\* Every step keeps it.
LEMMA WalkInvNext == WalkInv /\ [PMMNext]_pmmVars => WalkInv'
  BY WalkPageKeeps, WalkEntryKeeps, CommandKeeps DEF PMMNext

\* For every memory map, whose regions may end inside a page and overlap: until an
\* address at or beyond MAX_FRAMES pages is freed, every available page that is not
\* the kernel's is free or handed out after the walk, frame 0 alone can get lost,
\* and nothing else is handed out while users free only what they may
\* (multiboot.c:40-53, pmm.c:48-83).
THEOREM PagesAccountedFor == PMMSpec => []AccountedFor
<1>1. WalkInv => AccountedFor
  <2> SUFFICES ASSUME WalkInv, ~Walking, ~beyond,
                      \A a \in UserAddr \cap Addr : page_to_index(a) \in Available \ KernelFrames
               PROVE  /\ Free \cup held \subseteq Available \ KernelFrames
                      /\ (Available \ KernelFrames) \ (Free \cup held) \subseteq {0}
    BY DEF AccountedFor
  <2>0. WalkedOrKept
    BY DEF WalkInv
  <2>1. /\ map \in MemoryMap /\ held \subseteq Frame /\ entry \in 1 .. Len(map) + 1
        /\ Len(map) \in Nat /\ DOMAIN map = 1 .. Len(map)
    BY EntryType DEF WalkInv, PMMInv, PMMTypeOK
  <2>2. \A f \in Frame : f \in Available \ KernelFrames <=> Usable(f)
    BY <2>1, UsableMeans
  <2>4. UsersFreeUsable
    BY <2>2, IndexIsFrame DEF UsersFreeUsable
  <2>5. \A f \in Frame : Kept(f) <=> f \in Free \cup held
    BY DEF Kept, Free
  <2>6. Free \cup held \subseteq Frame /\ Available \subseteq Frame
    BY <2>1 DEF Free, Available
  <2>7. Free \cup held \subseteq Available \ KernelFrames
    BY <2>0, <2>2, <2>4, <2>5, <2>6 DEF WalkedOrKept
  <2>8. ASSUME NEW f \in Available \ KernelFrames, f # 0
        PROVE  f \in Free \cup held
    <3>1. f \in Frame \ {0} /\ Usable(f)
      BY <2>2, <2>6, <2>8
    <3>2. PICK i \in DOMAIN map : InRegion(f, i)
      BY <3>1 DEF Usable
    <3>3. i < entry
      BY <2>1 DEF Walking
    <3> QED
      BY <2>0, <2>5, <3>1, <3>2, <3>3 DEF WalkedOrKept, Walked, Usable
  <2> QED
    BY <2>7, <2>8
<1> QED
  BY <1>1, WalkInvInit, WalkInvNext, PTL DEF PMMSpec
-----------------------------------------------------------------------------
(* The heap: multiples and powers of two.                                  *)

\* The powers of two up to twice the heap.
LEMMA Powers ==
  /\ MIN_BLOCK_SHIFT \in Nat /\ MAX_BLOCK_SHIFT \in Nat /\ MIN_BLOCK_SHIFT <= MAX_BLOCK_SHIFT
  /\ \A k \in 0 .. MAX_BLOCK_SHIFT + 1 : 2^k \in Nat \ {0}
  /\ \A k \in 0 .. MAX_BLOCK_SHIFT : 2^(k + 1) = 2^k + 2^k
<1>1. MIN_BLOCK_SHIFT \in Nat /\ MAX_BLOCK_SHIFT \in Nat /\ MIN_BLOCK_SHIFT <= MAX_BLOCK_SHIFT
  BY HeapAssumption
<1>2. \A k \in 0 .. MAX_BLOCK_SHIFT : 2^k \in Nat \ {0} /\ 2^(k + 1) = 2^k + 2^k
  BY PowersOfTwo
<1>3. 2^(MAX_BLOCK_SHIFT + 1) \in Nat \ {0}
  BY <1>1, <1>2
<1> QED
  BY <1>1, <1>2, <1>3

\* A multiple of a size: what the masks of the code tell of an address.
IsMultiple(b, s) == \E q \in Nat : b = q * s

\* Of two multiples of a size, the smaller ends where the other begins or before.
LEMMA Grid ==
  ASSUME NEW s \in Nat \ {0}, NEW x \in Nat, NEW y \in Nat,
         IsMultiple(x, s), IsMultiple(y, s), x < y
  PROVE  x + s <= y
<1>1. PICK p \in Nat, q \in Nat : x = p * s /\ y = q * s
  BY DEF IsMultiple
<1>2. p < q
  <2> SUFFICES ASSUME q <= p PROVE FALSE
    BY <1>1
  <2>1. p * s = q * s + (p - q) * s /\ (p - q) * s >= 0
    BY Z3
  <2> QED
    BY <1>1, <2>1
<1>3. q * s = p * s + s + (q - p - 1) * s
  BY Z3
<1>4. q - p - 1 \in Nat
  BY <1>2
<1>5. (q - p - 1) * s >= 0
  BY <1>4, Z3
<1> QED
  BY <1>1, <1>3, <1>5

\* Multiples add up.
LEMMA MultipleSum ==
  ASSUME NEW s \in Nat, NEW x \in Nat, NEW y \in Nat, IsMultiple(x, s), IsMultiple(y, s)
  PROVE  IsMultiple(x + y, s)
<1>1. PICK p \in Nat, q \in Nat : x = p * s /\ y = q * s
  BY DEF IsMultiple
<1>2. PICK r \in Nat : r = p + q
  OBVIOUS
<1>3. r * s = p * s + q * s
  BY <1>2, Z3
<1> QED
  BY <1>1, <1>3 DEF IsMultiple

\* A multiple of a multiple is a multiple.
LEMMA MultipleOfMultiple ==
  ASSUME NEW s \in Nat, NEW t \in Nat, NEW x \in Nat, IsMultiple(x, t), IsMultiple(t, s)
  PROVE  IsMultiple(x, s)
<1>1. PICK p \in Nat, q \in Nat : x = p * t /\ t = q * s
  BY DEF IsMultiple
<1>2. PICK r \in Nat : r = p * q
  BY Z3
<1>3. p * (q * s) = r * s
  BY <1>2, Z3
<1> QED
  BY <1>1, <1>3 DEF IsMultiple

\* Quotient and remainder.
LEMMA Division ==
  ASSUME NEW b \in Nat, NEW s \in Nat \ {0}
  PROVE  \E q \in Nat, r \in Nat : q = b \div s /\ r = b % s /\ r < s /\ b = q * s + r
<1>1. PICK q \in Nat, r \in Nat : q = b \div s /\ r = b % s /\ r < s
  <2>1. b \div s \in Nat /\ b % s \in 0 .. s - 1
    OBVIOUS
  <2> QED
    BY <2>1
<1>2. b = q * s + r
  BY <1>1, Z3
<1> QED
  BY <1>1, <1>2

\* A remainder of zero says so too.
LEMMA NoRemainder ==
  ASSUME NEW b \in Nat, NEW s \in Nat \ {0}
  PROVE  b % s = 0 <=> IsMultiple(b, s)
<1>1. PICK q \in Nat, r \in Nat : q = b \div s /\ r = b % s /\ r < s /\ b = q * s + r
  BY Division
<1>3. PICK d \in Nat : d = q * s
  BY Z3
<1>4. IsMultiple(d, s)
  BY <1>3 DEF IsMultiple
<1>5. IsMultiple(b, s) /\ d < b => d + s <= b
  BY <1>4, Grid
<1>6. b = d + r
  BY <1>1, <1>3
<1>7. IsMultiple(b, s) <=> r = 0
  BY <1>1, <1>4, <1>5, <1>6
<1> QED
  BY <1>1, <1>7

\* A larger power of two is a multiple of a smaller one.
LEMMA Dyadic ==
  ASSUME NEW i \in Nat, NEW j \in Nat, i <= j, j <= MAX_BLOCK_SHIFT + 1
  PROVE  IsMultiple(2^j, 2^i) /\ 2^i <= 2^j
<1>0. /\ MAX_BLOCK_SHIFT \in Nat
      /\ \A k \in 0 .. MAX_BLOCK_SHIFT + 1 : 2^k \in Nat \ {0}
      /\ \A k \in 0 .. MAX_BLOCK_SHIFT : 2^(k + 1) = 2^k + 2^k
  BY Powers
<1> DEFINE Odd == {n \in Nat : i <= n /\ n <= MAX_BLOCK_SHIFT + 1 /\ ~IsMultiple(2^n, 2^i)}
<1>1. Odd = {}
  <2> SUFFICES ASSUME Odd # {} PROVE FALSE
    OBVIOUS
  <2>1. PICK n \in Odd : \A l \in Odd : n <= l
    BY LeastNatural, Odd \in SUBSET Nat
  <2>2. n # i
    <3>1. 2^i = 1 * 2^i
      BY <1>0
    <3> QED
      BY <3>1 DEF IsMultiple
  <2>3. n - 1 \in Nat /\ i <= n - 1 /\ n - 1 <= MAX_BLOCK_SHIFT
    BY <2>2, <1>0
  <2>4. IsMultiple(2^(n - 1), 2^i)
    BY <2>1, <2>3, <1>0
  <2>5. 2^n = 2^(n - 1) + 2^(n - 1)
    <3>1. n = (n - 1) + 1 /\ n - 1 \in 0 .. MAX_BLOCK_SHIFT
      BY <2>3, <1>0
    <3> QED
      BY <3>1, <1>0
  <2>6. 2^i \in Nat /\ 2^(n - 1) \in Nat
    BY <2>3, <1>0
  <2>7. IsMultiple(2^(n - 1) + 2^(n - 1), 2^i)
    BY <2>4, <2>6, MultipleSum
  <2> QED
    BY <2>5, <2>7
<1>2. IsMultiple(2^j, 2^i)
  BY <1>1
<1>3. 2^i \in Nat \ {0} /\ 2^j \in Nat \ {0}
  BY <1>0
<1>4. PICK s \in Nat \ {0}, t \in Nat \ {0} : s = 2^i /\ t = 2^j
  BY <1>3
<1>5. PICK q \in Nat : t = q * s
  BY <1>2, <1>4 DEF IsMultiple
<1>6. q # 0
  BY <1>4, <1>5
<1>7. q * s = s + (q - 1) * s /\ q - 1 \in Nat
  BY <1>6, Z3
<1>8. (q - 1) * s >= 0
  BY <1>7, Z3
<1> QED
  BY <1>2, <1>4, <1>5, <1>7, <1>8

\* The heap begins at a multiple of every block size, and a block's address is
\* a multiple of the smallest within it.
LEMMA HeapGrid ==
  /\ HEAP_START \in Nat \ {0} /\ 2^MAX_BLOCK_SHIFT = HEAP_START
  /\ \A k \in Order : IsMultiple(HEAP_START, 2^k) /\ 2^k <= HEAP_START
  /\ \A b : b \in BlockAddr <=> /\ b \in Nat /\ IsMultiple(b, 2^MIN_BLOCK_SHIFT)
                                /\ HEAP_START <= b /\ b < HEAP_START + HEAP_START
<1>1. /\ MIN_BLOCK_SHIFT \in Nat /\ MAX_BLOCK_SHIFT \in Nat
      /\ MIN_BLOCK_SHIFT <= MAX_BLOCK_SHIFT
      /\ \A k \in 0 .. MAX_BLOCK_SHIFT + 1 : 2^k \in Nat \ {0}
  BY Powers
<1>2. HEAP_START \in Nat \ {0} /\ 2^MAX_BLOCK_SHIFT = HEAP_START /\ 2^MIN_BLOCK_SHIFT \in Nat \ {0}
  BY <1>1 DEF HEAP_START
<1>3. ASSUME NEW k \in Order PROVE IsMultiple(HEAP_START, 2^k) /\ 2^k <= HEAP_START
  <2>1. k \in Nat /\ k <= MAX_BLOCK_SHIFT /\ MAX_BLOCK_SHIFT <= MAX_BLOCK_SHIFT + 1
    BY <1>1 DEF Order
  <2> QED
    BY <1>1, <1>2, <2>1, Dyadic
<1>4. ASSUME NEW b
      PROVE  b \in BlockAddr <=> /\ b \in Nat /\ IsMultiple(b, 2^MIN_BLOCK_SHIFT)
                                /\ HEAP_START <= b /\ b < HEAP_START + HEAP_START
  <2>1. b \in HeapBytes <=> b \in Nat /\ HEAP_START <= b /\ b < HEAP_START + HEAP_START
    BY <1>2 DEF HeapBytes
  <2>2. b \in Nat => (b % 2^MIN_BLOCK_SHIFT = 0 <=> IsMultiple(b, 2^MIN_BLOCK_SHIFT))
    BY <1>2, NoRemainder
  <2> QED
    BY <2>1, <2>2 DEF BlockAddr
<1> QED
  BY <1>2, <1>3, <1>4

\* The buddies of an order are the two halves of a block of the next
\* (heap.c:89-93).
LEMMA BuddiesArePair ==
  ASSUME NEW k \in 0 .. MAX_BLOCK_SHIFT, NEW p \in Nat, IsMultiple(p, 2^(k + 1))
  PROVE  /\ buddy_of(p, k) = p + 2^k /\ buddy_of(p + 2^k, k) = p
         /\ IsMultiple(p, 2^k) /\ IsMultiple(p + 2^k, 2^k)
<1>1. PICK s \in Nat \ {0} : s = 2^k /\ 2^(k + 1) = s + s
  BY Powers
<1>2. PICK q \in Nat : p = q * (s + s)
  BY <1>1 DEF IsMultiple
<1>3. PICK r \in Nat : r = 2 * q
  OBVIOUS
<1>4. p = r * s /\ p + s = (r + 1) * s
  BY <1>2, <1>3, Z3
<1>5. p \div s = r /\ (p + s) \div s = r + 1
  <2>1. (r * s) \div s = r /\ ((r + 1) * s) \div s = r + 1
    OBVIOUS
  <2> QED
    BY <1>4, <2>1
<1>6. r % 2 = 0 /\ (r + 1) % 2 # 0
  BY <1>3
<1>7. buddy_of(p, k) = p + s
  BY <1>1, <1>5, <1>6 DEF buddy_of
<1>8. buddy_of(p + s, k) = (p + s) - s
  BY <1>1, <1>5, <1>6 DEF buddy_of
<1>9. IsMultiple(p, s) /\ IsMultiple(p + s, s)
  <2>1. r + 1 \in Nat
    OBVIOUS
  <2> QED
    BY <1>4, <2>1 DEF IsMultiple
<1> QED
  BY <1>1, <1>7, <1>8, <1>9

\* Each block is one of a pair of buddies (heap.c:89-93).
LEMMA HasPair ==
  ASSUME NEW k \in 0 .. MAX_BLOCK_SHIFT, NEW b \in Nat, IsMultiple(b, 2^k)
  PROVE  \E p \in Nat : IsMultiple(p, 2^(k + 1)) /\ (b = p \/ b = p + 2^k)
<1>1. PICK s \in Nat \ {0} : s = 2^k /\ 2^(k + 1) = s + s
  BY Powers
<1>2. PICK q \in Nat : b = q * s
  BY <1>1 DEF IsMultiple
<1>3. PICK r \in Nat : q = r + r \/ q = r + r + 1
  <2>1. q \div 2 \in Nat /\ (q = 2 * (q \div 2) \/ q = 2 * (q \div 2) + 1)
    OBVIOUS
  <2> QED
    BY <2>1
<1>4. PICK p \in Nat : p = r * (s + s)
  BY Z3
<1>5. b = p \/ b = p + s
  <2>1. q = r + r => b = p
    BY <1>2, <1>4, Z3
  <2>2. q = r + r + 1 => b = p + s
    BY <1>2, <1>4, Z3
  <2> QED
    BY <1>3, <2>1, <2>2
<1>6. IsMultiple(p, s + s)
  BY <1>4 DEF IsMultiple
<1> QED
  BY <1>1, <1>5, <1>6

-----------------------------------------------------------------------------
(* The heap: blocks that tile it.                                          *)

\* A block of an order, two blocks that share no byte, a block an address is in.
Fits(b, k)   == b \in BlockAddr /\ k \in Order /\ IsMultiple(b, 2^k)
Apart(x, y)  == x[1] + 2^x[2] <= y[1] \/ y[1] + 2^y[2] <= x[1]
Covers(x, c) == x[1] <= c /\ c < x[1] + 2^x[2]

\* A set of blocks, each an address and an order, that covers the heap once.
Tiles(B) == /\ B \subseteq BlockAddr \X Order
            /\ \A x \in B : Fits(x[1], x[2])
            /\ \A x, y \in B : x # y => Apart(x, y)
            /\ \A c \in BlockAddr : \E x \in B : Covers(x, c)

\* The order of a block and what follows from it.
LEMMA BlockFacts ==
  ASSUME NEW b, NEW k, Fits(b, k)
  PROVE  /\ b \in Nat /\ 2^k \in Nat \ {0} /\ IsMultiple(b, 2^k)
         /\ k \in 0 .. MAX_BLOCK_SHIFT /\ MIN_BLOCK_SHIFT <= k
         /\ HEAP_START <= b /\ b + 2^k <= HEAP_START + HEAP_START
         /\ IsMultiple(2^k, 2^MIN_BLOCK_SHIFT)
<1>1. /\ b \in Nat /\ IsMultiple(b, 2^k) /\ HEAP_START <= b /\ b < HEAP_START + HEAP_START
      /\ HEAP_START \in Nat /\ IsMultiple(HEAP_START, 2^k)
  BY HeapGrid DEF Fits
<1>2. k \in 0 .. MAX_BLOCK_SHIFT /\ MIN_BLOCK_SHIFT <= k /\ MIN_BLOCK_SHIFT \in Nat
  BY Powers DEF Fits, Order
<1>3. 2^k \in Nat \ {0}
  BY <1>2, Powers
<1>4. IsMultiple(2^k, 2^MIN_BLOCK_SHIFT)
  <2>1. k \in Nat /\ k <= MAX_BLOCK_SHIFT + 1
    BY <1>2, Powers
  <2> QED
    BY <1>2, <2>1, Dyadic
<1>5. b + 2^k <= HEAP_START + HEAP_START
  <2>1. IsMultiple(HEAP_START + HEAP_START, 2^k)
    BY <1>1, <1>3, MultipleSum
  <2>2. HEAP_START + HEAP_START \in Nat
    BY <1>1
  <2> QED
    BY <1>1, <1>3, <2>1, <2>2, Grid
<1> QED
  BY <1>1, <1>2, <1>3, <1>4, <1>5

\* Two blocks of a tiling have two addresses.
LEMMA OneHead ==
  ASSUME NEW B, Tiles(B), NEW x \in B, NEW y \in B, x[1] = y[1]
  PROVE  x = y
<1>1. Fits(x[1], x[2]) /\ Fits(y[1], y[2])
  BY DEF Tiles
<1>2. x[1] \in Nat /\ 2^x[2] \in Nat \ {0} /\ 2^y[2] \in Nat \ {0}
  BY <1>1, BlockFacts
<1>3. ~Apart(x, y)
  BY <1>2 DEF Apart
<1> QED
  BY <1>3 DEF Tiles

\* The halves of a block are blocks (heap.c:95-110).
LEMMA Halves ==
  ASSUME NEW b, NEW k \in Order, k < MAX_BLOCK_SHIFT, Fits(b, k + 1)
  PROVE  /\ Fits(b, k) /\ Fits(b + 2^k, k) /\ buddy_of(b, k) = b + 2^k
         /\ b \in Nat /\ 2^k \in Nat \ {0} /\ 2^(k + 1) = 2^k + 2^k
<1>1. /\ b \in Nat /\ IsMultiple(b, 2^(k + 1)) /\ HEAP_START <= b
      /\ b + 2^(k + 1) <= HEAP_START + HEAP_START /\ b \in BlockAddr
  BY BlockFacts DEF Fits
<1>2. k \in 0 .. MAX_BLOCK_SHIFT /\ k \in Nat /\ MIN_BLOCK_SHIFT \in Nat
      /\ MIN_BLOCK_SHIFT <= k
  BY Powers DEF Order
<1>3. 2^k \in Nat \ {0} /\ 2^(k + 1) = 2^k + 2^k
  BY <1>2, Powers
<1>4. /\ buddy_of(b, k) = b + 2^k /\ IsMultiple(b, 2^k) /\ IsMultiple(b + 2^k, 2^k)
  BY <1>1, <1>2, BuddiesArePair
<1>5. b + 2^k \in BlockAddr
  <2>1. k <= MAX_BLOCK_SHIFT + 1
    BY <1>2, Powers
  <2>2. IsMultiple(2^k, 2^MIN_BLOCK_SHIFT)
    BY <1>2, <2>1, Dyadic
  <2>3. b + 2^k \in Nat /\ 2^MIN_BLOCK_SHIFT \in Nat
    BY <1>1, <1>3, Powers
  <2>4. IsMultiple(b + 2^k, 2^MIN_BLOCK_SHIFT)
    BY <1>3, <1>4, <2>2, <2>3, MultipleOfMultiple
  <2>5. HEAP_START <= b + 2^k /\ b + 2^k < HEAP_START + HEAP_START
    BY <1>1, <1>3, HeapGrid
  <2> QED
    BY <2>3, <2>4, <2>5, HeapGrid
<1> QED
  BY <1>1, <1>3, <1>4, <1>5 DEF Fits

\* Splitting a block keeps the tiling (heap.c:95-110).
LEMMA SplitTiles ==
  ASSUME NEW B, Tiles(B), NEW b, NEW k \in Order, k < MAX_BLOCK_SHIFT, <<b, k + 1>> \in B
  PROVE  Tiles((B \ {<<b, k + 1>>}) \cup {<<b, k>>, <<b + 2^k, k>>})
<1> DEFINE whole == <<b, k + 1>>
           low   == <<b, k>>
           high  == <<b + 2^k, k>>
           C     == (B \ {whole}) \cup {low, high}
<1>1. Fits(b, k + 1)
  BY DEF Tiles
<1>2. /\ Fits(b, k) /\ Fits(b + 2^k, k)
      /\ b \in Nat /\ 2^k \in Nat \ {0} /\ 2^(k + 1) = 2^k + 2^k
  BY <1>1, Halves
<1>3. C \subseteq BlockAddr \X Order /\ \A x \in C : Fits(x[1], x[2])
  BY <1>2 DEF Tiles, Fits
<1>4. ASSUME NEW x \in B, x # whole PROVE Apart(x, low) /\ Apart(x, high)
  <2>1. Apart(x, whole) /\ x[1] \in Nat /\ 2^x[2] \in Nat
    BY <1>4, BlockFacts DEF Tiles
  <2> QED
    BY <1>2, <2>1 DEF Apart
<1>5. Apart(low, high)
  BY <1>2 DEF Apart
<1>6. \A x, y : Apart(x, y) <=> Apart(y, x)
  BY DEF Apart
<1>7. \A x, y \in B : x # y => Apart(x, y)
  BY DEF Tiles
<1>8. \A c \in BlockAddr : Covers(whole, c) => Covers(low, c) \/ Covers(high, c)
  <2>1. \A c \in BlockAddr : c \in Nat
    BY HeapGrid
  <2> QED
    BY <1>2, <2>1 DEF Covers
<1>9. \A c \in BlockAddr : \E x \in B : Covers(x, c)
  BY DEF Tiles
<1>10. \A c \in BlockAddr : \E x \in C : Covers(x, c)
  BY <1>8, <1>9
<1>11. \A x, y \in C : x # y => Apart(x, y)
  BY <1>4, <1>5, <1>6, <1>7
<1> QED
  BY <1>3, <1>10, <1>11 DEF Tiles

\* Merging two buddies keeps the tiling (heap.c:112-132).
LEMMA MergeTiles ==
  ASSUME NEW B, Tiles(B), NEW p, NEW k \in Order, k < MAX_BLOCK_SHIFT,
         <<p, k>> \in B, <<p + 2^k, k>> \in B, IsMultiple(p, 2^(k + 1))
  PROVE  Tiles((B \ {<<p, k>>, <<p + 2^k, k>>}) \cup {<<p, k + 1>>})
<1> DEFINE whole == <<p, k + 1>>
           low   == <<p, k>>
           high  == <<p + 2^k, k>>
           C     == (B \ {low, high}) \cup {whole}
<1>1. Fits(p, k) /\ Fits(p + 2^k, k)
  BY DEF Tiles
<1>2. p \in Nat /\ 2^k \in Nat \ {0} /\ k \in 0 .. MAX_BLOCK_SHIFT
  BY <1>1, BlockFacts
<1>3. 2^(k + 1) = 2^k + 2^k /\ k + 1 \in Order
  BY <1>2, Powers DEF Order
<1>4. Fits(p, k + 1)
  BY <1>1, <1>3 DEF Fits
<1>5. C \subseteq BlockAddr \X Order /\ \A x \in C : Fits(x[1], x[2])
  BY <1>3, <1>4 DEF Tiles, Fits
<1>6. ASSUME NEW x \in B, x # low, x # high PROVE Apart(x, whole)
  <2>1. Apart(x, low) /\ Apart(x, high) /\ x[1] \in Nat /\ 2^x[2] \in Nat \ {0}
    BY <1>6, BlockFacts DEF Tiles
  <2> QED
    BY <1>2, <1>3, <2>1 DEF Apart
<1>7. \A x, y : Apart(x, y) <=> Apart(y, x)
  BY DEF Apart
<1>8. \A x, y \in B : x # y => Apart(x, y)
  BY DEF Tiles
<1>9. \A c \in BlockAddr : Covers(low, c) \/ Covers(high, c) => Covers(whole, c)
  <2>1. \A c \in BlockAddr : c \in Nat
    BY HeapGrid
  <2> QED
    BY <1>2, <1>3, <2>1 DEF Covers
<1>10. \A c \in BlockAddr : \E x \in B : Covers(x, c)
  BY DEF Tiles
<1>11. \A c \in BlockAddr : \E x \in C : Covers(x, c)
  BY <1>9, <1>10
<1>12. \A x, y \in C : x # y => Apart(x, y)
  BY <1>6, <1>7, <1>8
<1> QED
  BY <1>5, <1>11, <1>12 DEF Tiles

\* The buddy's address is the address of a block, no larger than this one
\* (heap.c:116-118).
LEMMA BuddyIsHead ==
  ASSUME NEW B, Tiles(B), NEW b, NEW k, <<b, k>> \in B, k < MAX_BLOCK_SHIFT
  PROVE  \E x \in B : x[1] = buddy_of(b, k) /\ x[2] <= k
<1>1. Fits(b, k) /\ k \in Order /\ b \in BlockAddr
  BY DEF Tiles, Fits
<1>2. /\ b \in Nat /\ 2^k \in Nat \ {0} /\ IsMultiple(b, 2^k) /\ k \in 0 .. MAX_BLOCK_SHIFT
      /\ HEAP_START <= b /\ b + 2^k <= HEAP_START + HEAP_START
      /\ MIN_BLOCK_SHIFT <= k
  BY <1>1, BlockFacts
<1>3. PICK p \in Nat : IsMultiple(p, 2^(k + 1)) /\ (b = p \/ b = p + 2^k)
  BY <1>2, HasPair
<1>4. /\ 2^(k + 1) = 2^k + 2^k /\ k + 1 \in Order /\ k + 1 \in Nat
      /\ MAX_BLOCK_SHIFT \in Nat /\ MIN_BLOCK_SHIFT \in Nat
  BY <1>1, <1>2, Powers DEF Order
<1>5. /\ HEAP_START \in Nat /\ IsMultiple(HEAP_START, 2^(k + 1))
  BY <1>4, HeapGrid
<1>6. HEAP_START <= p
  <2>1. p < HEAP_START => p + 2^(k + 1) <= HEAP_START
    BY <1>2, <1>3, <1>4, <1>5, Grid
  <2> QED
    BY <1>2, <1>3, <1>4, <1>5, <2>1
<1>7. p \in BlockAddr
  <2>1. IsMultiple(2^(k + 1), 2^MIN_BLOCK_SHIFT)
    BY <1>2, <1>4, Dyadic
  <2>2. 2^MIN_BLOCK_SHIFT \in Nat /\ 2^(k + 1) \in Nat
    BY <1>2, <1>4, Powers
  <2>3. IsMultiple(p, 2^MIN_BLOCK_SHIFT)
    BY <1>3, <2>1, <2>2, MultipleOfMultiple
  <2>4. p < HEAP_START + HEAP_START
    BY <1>2, <1>3, <1>5
  <2> QED
    BY <1>6, <2>3, <2>4, HeapGrid
<1>8. Fits(p, k + 1)
  BY <1>3, <1>4, <1>7 DEF Fits
<1>9. Fits(p, k) /\ Fits(p + 2^k, k) /\ buddy_of(p, k) = p + 2^k /\ buddy_of(p + 2^k, k) = p
  BY <1>1, <1>2, <1>3, <1>8, Halves, BuddiesArePair
<1>10. PICK c : c = buddy_of(b, k) /\ Fits(c, k) /\ (c = p \/ c = p + 2^k)
                /\ (b = p \/ b = p + 2^k) /\ b # c
  BY <1>2, <1>3, <1>9
<1>11. PICK y \in B : Covers(y, c)
  BY <1>10 DEF Tiles, Fits
<1>12. Fits(y[1], y[2])
  BY DEF Tiles
<1>13. /\ y[1] \in Nat /\ 2^y[2] \in Nat \ {0} /\ IsMultiple(y[1], 2^y[2])
       /\ y[2] \in 0 .. MAX_BLOCK_SHIFT
  BY <1>12, BlockFacts
<1>14. y[2] <= k
  <2> SUFFICES ASSUME k + 1 <= y[2] PROVE FALSE
    BY <1>2, <1>13
  <2>1. IsMultiple(2^y[2], 2^(k + 1)) /\ 2^(k + 1) <= 2^y[2]
    BY <1>4, <1>13, Dyadic
  <2>2. IsMultiple(y[1], 2^(k + 1))
    BY <1>13, <1>4, <1>2, <2>1, MultipleOfMultiple
  <2>3. IsMultiple(y[1] + 2^y[2], 2^(k + 1))
    <3>1. 2^(k + 1) \in Nat /\ y[1] \in Nat /\ 2^y[2] \in Nat
      BY <1>2, <1>4, <1>13
    <3> QED
      BY <2>1, <2>2, <3>1, MultipleSum, Zenon
  <2>4. y[1] <= p
    <3>1. p < y[1] => p + 2^(k + 1) <= y[1]
      BY <1>2, <1>3, <1>4, <1>13, <2>2, Grid
    <3> QED
      BY <1>2, <1>4, <1>10, <1>11, <1>13, <3>1 DEF Covers
  <2>5. p + 2^(k + 1) <= y[1] + 2^y[2]
    <3>1. p < y[1] + 2^y[2]
      BY <1>2, <1>10, <1>11, <1>13 DEF Covers
    <3> QED
      BY <1>2, <1>3, <1>4, <1>13, <2>3, <3>1, Grid
  <2>6. ~Apart(y, <<b, k>>)
    BY <1>2, <1>4, <1>10, <1>13, <2>4, <2>5 DEF Apart
  <2>7. y = <<b, k>>
    BY <2>6 DEF Tiles
  <2> QED
    BY <1>2, <2>7
<1>15. y[1] = c
  <2>1. IsMultiple(2^k, 2^y[2]) /\ c \in Nat /\ IsMultiple(c, 2^k)
    BY <1>2, <1>4, <1>10, <1>13, <1>14, Dyadic, BlockFacts
  <2>2. IsMultiple(c, 2^y[2])
    BY <1>2, <1>13, <2>1, MultipleOfMultiple
  <2>3. y[1] < c => y[1] + 2^y[2] <= c
    BY <1>13, <2>1, <2>2, Grid
  <2> QED
    BY <1>11, <1>13, <2>1, <2>3 DEF Covers
<1> QED
  BY <1>10, <1>14, <1>15

-----------------------------------------------------------------------------
(* The heap: the arithmetic of sizes and pointers.                         *)

\* What the proofs use of the constants' sizes.
LEMMA SizeFacts ==
  /\ HEADER_SIZE \in Nat \ {0} /\ WORD \in Nat \ {0} /\ WORD <= HEADER_SIZE
  /\ SIZE_MAX \in Nat /\ HEADER_SIZE % 8 = 0 /\ HEADER_SIZE < 2^MIN_BLOCK_SHIFT
  /\ Request \subseteq [size : 0 .. SIZE_MAX, alignment : 0 .. 2^(MAX_BLOCK_SHIFT + 1)]
BY HeapAssumption

\* A sum that does not wrap.
LEMMA AddExact ==
  ASSUME NEW m \in Nat, NEW n \in Nat, m + n <= SIZE_MAX
  PROVE  Add(m, n) = m + n
<1>1. SIZE_MAX \in Nat
  BY SizeFacts
<1>2. PICK s \in Nat, t \in Nat \ {0} : s = m + n /\ t = SIZE_MAX + 1 /\ s < t
  BY <1>1
<1>3. s % t = s
  <2>1. PICK q \in Nat, r \in Nat : q = s \div t /\ r = s % t /\ r < t /\ s = q * t + r
    BY Division
  <2>3. q = 0
    <3> SUFFICES ASSUME q - 1 \in Nat PROVE FALSE
      BY <2>1
    <3>1. q * t = t + (q - 1) * t /\ (q - 1) * t >= 0
      BY Z3
    <3>2. PICK x \in Nat, y \in Nat : x = q * t /\ y = (q - 1) * t
      BY Z3
    <3> QED
      BY <1>2, <2>1, <3>1, <3>2
  <2> QED
    BY <2>1, <2>3
<1> QED
  BY <1>2, <1>3 DEF Add

\* The alignment kmalloc_aligned works with (heap.c:250-262).
LEMMA AlignedFacts ==
  ASSUME NEW n \in 0 .. 2^(MAX_BLOCK_SHIFT + 1)
  PROVE  Aligned(n) \in Nat \ {0} /\ n <= Aligned(n) /\ WORD <= Aligned(n)
<1> DEFINE T == {2^k : k \in 0 .. MAX_BLOCK_SHIFT + 1}
           U == {a \in T : a >= n /\ a >= WORD}
           Least(a) == /\ a >= n /\ a >= WORD
                       /\ \A c \in T : c >= n /\ c >= WORD => a <= c
<1>1. /\ MAX_BLOCK_SHIFT \in Nat /\ MIN_BLOCK_SHIFT \in Nat /\ MIN_BLOCK_SHIFT <= MAX_BLOCK_SHIFT
      /\ \A k \in 0 .. MAX_BLOCK_SHIFT + 1 : 2^k \in Nat \ {0}
  BY Powers
<1>2. T \in SUBSET (Nat \ {0})
  BY <1>1
<1>3. 2^(MAX_BLOCK_SHIFT + 1) \in U
  <2>1. 2^MIN_BLOCK_SHIFT <= 2^(MAX_BLOCK_SHIFT + 1)
    BY <1>1, Dyadic
  <2>2. WORD <= 2^(MAX_BLOCK_SHIFT + 1)
    BY <1>1, <2>1, SizeFacts
  <2>3. n <= 2^(MAX_BLOCK_SHIFT + 1) /\ n \in Nat
    BY <1>1
  <2>4. 2^(MAX_BLOCK_SHIFT + 1) \in T
    BY <1>1
  <2> QED
    BY <2>2, <2>3, <2>4, SizeFacts, <1>1
<1>4. U \in SUBSET Nat /\ U # {}
  BY <1>2, <1>3
<1> HIDE DEF U
<1>5. PICK u \in U : \A i \in U : u <= i
  BY <1>4, LeastNatural
<1>6. u \in T /\ Least(u)
  BY <1>5 DEF U
<1> HIDE DEF Least, T
<1>7. (CHOOSE a \in T : Least(a)) \in T /\ Least(CHOOSE a \in T : Least(a))
  BY <1>6
<1>8. Aligned(n) = CHOOSE a \in T : Least(a)
  BY Zenon DEF Aligned, T, Least
<1>9. Aligned(n) \in T /\ Least(Aligned(n))
  BY <1>7, <1>8
<1>10. n <= Aligned(n) /\ WORD <= Aligned(n)
  <2>0. Aligned(n) >= n /\ Aligned(n) >= WORD
    BY <1>9 DEF Least
  <2>1. Aligned(n) \in Nat /\ n \in Nat /\ WORD \in Nat
    <3>1. 2^(MAX_BLOCK_SHIFT + 1) \in Nat
      BY <1>1
    <3>2. Aligned(n) \in Nat
      BY <1>2, <1>9
    <3>3. n \in Nat
      BY <3>1
    <3> QED
      BY <3>2, <3>3, SizeFacts
  <2> QED
    BY <2>0, <2>1
<1> QED
  BY <1>2, <1>9, <1>10

\* A size rounded up is no smaller (heap.c:221).
LEMMA RoundedUp ==
  ASSUME NEW n \in Nat, n <= SIZE_MAX - 7
  PROVE  Rounded(n) \in Nat /\ n <= Rounded(n)
<1>1. Add(n, 7) = n + 7
  BY AddExact, SizeFacts
<1>2. PICK q \in Nat : q = (n + 7) \div 8 /\ n <= q * 8
  OBVIOUS
<1> QED
  BY <1>1, <1>2 DEF Rounded

\* A pointer handed out is aligned and its bytes lie in the block (heap.c:159-194
\* and 246-281).
LEMMA PointerFits ==
  ASSUME NEW r \in Request, ~SizeRefused(r), ~TotalRefused(r), NEW b \in BlockAddr
  PROVE  /\ Pointer(r, b) \in Nat /\ Promised(r) \in Nat \ {0} /\ r.size \in Nat \ {0}
         /\ Total(r) \in Nat /\ Total(r) <= 2^MAX_BLOCK_SHIFT
         /\ b < Pointer(r, b) /\ Pointer(r, b) + r.size <= b + Total(r)
         /\ Pointer(r, b) % Promised(r) = 0
<1>1. /\ r.size \in 0 .. SIZE_MAX /\ r.alignment \in 0 .. 2^(MAX_BLOCK_SHIFT + 1)
      /\ b \in Nat /\ IsMultiple(b, 2^MIN_BLOCK_SHIFT)
      /\ HEADER_SIZE \in Nat \ {0} /\ WORD \in Nat \ {0} /\ WORD <= HEADER_SIZE
      /\ SIZE_MAX \in Nat
      /\ MAX_BLOCK_SHIFT \in Nat /\ 2^MAX_BLOCK_SHIFT \in Nat
  BY SizeFacts, HeapGrid, Powers
<1>2. r.size \in Nat \ {0}
  BY <1>1 DEF SizeRefused
<1> DEFINE a == Aligned(r.alignment)
<1>3. a \in Nat \ {0} /\ WORD <= a
  BY <1>1, AlignedFacts
<1> HIDE DEF a
<1>4. /\ RawSize(r) \in Nat /\ RawSize(r) <= SIZE_MAX - 7
      /\ RawSize(r) = IF r.alignment = 0 THEN r.size ELSE r.size + a + WORD
  <2>1. CASE r.alignment = 0
    BY <1>1, <1>2, <2>1 DEF RawSize, SizeRefused
  <2>2. CASE r.alignment # 0
    <3>1. r.size <= SIZE_MAX - a - WORD
      BY <1>1, <1>2, <1>3, <2>2 DEF SizeRefused, a
    <3>2. Add(r.size, a) = r.size + a
      BY <1>1, <1>2, <1>3, <3>1, AddExact
    <3>3. Add(r.size + a, WORD) = r.size + a + WORD
      BY <1>1, <1>2, <1>3, <3>1, AddExact
    <3>4. RawSize(r) = r.size + a + WORD
      BY <2>2, <3>2, <3>3 DEF RawSize, a
    <3> QED
      BY <1>1, <1>2, <1>3, <2>2, <3>4 DEF SizeRefused
  <2> QED
    BY <2>1, <2>2
<1> DEFINE raw == RawSize(r)
           round == Rounded(raw)
<1>5. round \in Nat /\ raw <= round
  BY <1>4, RoundedUp
<1>6. round <= SIZE_MAX - HEADER_SIZE /\ Total(r) <= 2^MAX_BLOCK_SHIFT
  BY <1>1, <1>5 DEF TotalRefused, Total, Add
<1>7. Total(r) = round + HEADER_SIZE
  BY <1>1, <1>5, <1>6, AddExact DEF Total
<1> HIDE DEF raw, round
<1>8. CASE r.alignment = 0
  <2>1. Pointer(r, b) = b + HEADER_SIZE /\ Promised(r) = 8 /\ raw = r.size
    BY <1>4, <1>8 DEF Pointer, Promised, Payload, raw
  <2>2. (b + HEADER_SIZE) % 8 = 0
    <3>1. PICK h \in Nat : HEADER_SIZE = h * 8 /\ h # 0
      <4>1. HEADER_SIZE % 8 = 0
        BY SizeFacts
      <4> QED
        BY <1>1, <4>1
    <3>2. IsMultiple(2^MIN_BLOCK_SHIFT, 8)
      <4>1. MIN_BLOCK_SHIFT \in Nat /\ MIN_BLOCK_SHIFT <= MAX_BLOCK_SHIFT + 1 /\ 8 < 2^MIN_BLOCK_SHIFT
        BY <1>1, <3>1, Powers, SizeFacts
      <4>2. 2^0 = 1
        BY PowersOfTwo
      <4>3. MIN_BLOCK_SHIFT >= 1 => 2^1 = 2
        BY <4>1, <4>2, Powers
      <4>4. MIN_BLOCK_SHIFT >= 2 => 2^2 = 4
        BY <4>1, <4>3, Powers
      <4>5. MIN_BLOCK_SHIFT >= 3 => 2^3 = 8
        BY <4>1, <4>4, Powers
      <4>6. MIN_BLOCK_SHIFT >= 3
        <5>1. ASSUME MIN_BLOCK_SHIFT = 0 PROVE FALSE
          BY <4>1, <4>2, <5>1
        <5>2. ASSUME MIN_BLOCK_SHIFT = 1 PROVE FALSE
          BY <4>1, <4>3, <5>2
        <5>3. ASSUME MIN_BLOCK_SHIFT = 2 PROVE FALSE
          BY <4>1, <4>4, <5>3
        <5> QED
          BY <4>1, <5>1, <5>2, <5>3
      <4>7. IsMultiple(2^MIN_BLOCK_SHIFT, 2^3)
        BY <4>1, <4>6, Dyadic
      <4> QED
        BY <4>5, <4>6, <4>7
    <3>3. IsMultiple(b, 8)
      BY <1>1, <3>2, Powers, MultipleOfMultiple
    <3>4. PICK q \in Nat : b = q * 8
      BY <3>3 DEF IsMultiple
    <3> QED
      BY <3>1, <3>4
  <2> QED
    BY <1>1, <1>2, <1>5, <1>6, <1>7, <2>1, <2>2
<1>9. CASE r.alignment # 0
  <2> DEFINE from == b + HEADER_SIZE + WORD + a - 1
             q == from \div a
  <2>1. Pointer(r, b) = q * a /\ Promised(r) = a /\ raw = r.size + a + WORD
    BY <1>4, <1>9 DEF Pointer, Promised, Payload, a, raw
  <2>2. from \in Nat /\ from = b + HEADER_SIZE + WORD + a - 1
    BY <1>1, <1>3
  <2> HIDE DEF from
  <2>3. PICK m \in Nat, n \in Nat : m = from \div a /\ n = from % a /\ n < a /\ from = m * a + n
    BY <1>3, <2>2, Division, Zenon
  <2>5. PICK p \in Nat : p = m * a
    BY <1>3, Z3
  <2>6. Pointer(r, b) = p
    BY <2>1, <2>3, <2>5
  <2>7. p % a = 0
    <3>1. IsMultiple(p, a)
      BY <2>5 DEF IsMultiple
    <3> QED
      BY <1>3, <3>1, NoRemainder
  <2>8. b < p /\ p + r.size <= b + Total(r)
    BY <1>1, <1>2, <1>3, <1>5, <1>7, <2>1, <2>2, <2>3, <2>5
  <2> QED
    BY <1>1, <1>2, <1>3, <1>5, <1>6, <1>7, <2>1, <2>6, <2>7, <2>8
<1> QED
  BY <1>8, <1>9

\* The order a request needs is one that has room (heap.c:168-173).
LEMMA OrderHasRoom ==
  ASSUME NEW r \in Request, ~SizeRefused(r), ~TotalRefused(r)
  PROVE  OrderFor(r) \in Order /\ Total(r) <= 2^OrderFor(r)
<1> DEFINE Fit == {k \in Order : 2^k >= Total(r)}
           Best(k) == 2^k >= Total(r) /\ \A j \in Order : 2^j >= Total(r) => k <= j
<1>1. Order \in SUBSET Nat /\ MAX_BLOCK_SHIFT \in Order /\ HEAP_START \in BlockAddr
      /\ \A k \in Order : 2^k \in Nat
  <2>1. IsMultiple(HEAP_START, 2^MIN_BLOCK_SHIFT)
    BY Powers, HeapGrid DEF Order
  <2> QED
    BY <2>1, Powers, HeapGrid DEF Order
<1>2. Total(r) \in Nat /\ Total(r) <= 2^MAX_BLOCK_SHIFT
  BY <1>1, PointerFits
<1>3. Fit \in SUBSET Nat /\ Fit # {}
  BY <1>1, <1>2
<1>4. PICK k \in Fit : \A j \in Fit : k <= j
  <2> HIDE DEF Fit
  <2> QED
    BY <1>3, LeastNatural
<1>5. k \in Order /\ Best(k)
  BY <1>4
<1> HIDE DEF Best
<1>6. (CHOOSE j \in Order : Best(j)) \in Order /\ Best(CHOOSE j \in Order : Best(j))
  BY <1>5
<1>7. OrderFor(r) = CHOOSE j \in Order : Best(j)
  BY Zenon DEF OrderFor, Best
<1>8. OrderFor(r) \in Order /\ 2^OrderFor(r) >= Total(r)
  BY <1>6, <1>7 DEF Best
<1> QED
  BY <1>1, <1>2, <1>8

-----------------------------------------------------------------------------
(* The heap: its lists.                                                    *)

\* A list's blocks are distinct; a list holds a block.
Once(q)     == \A i, j \in DOMAIN q : i # j => q[i] # q[j]
Holds(q, b) == \E i \in DOMAIN q : q[i] = b

\* A list without its link to a block has the others, once each (heap.c:144-150).
LEMMA Unlinked ==
  ASSUME NEW T, NEW q \in Seq(T), Once(q), NEW n \in DOMAIN q
  PROVE  LET r == SubSeq(q, 1, n - 1) \o SubSeq(q, n + 1, Len(q))
         IN  /\ r \in Seq(T) /\ Once(r)
             /\ \A c : Holds(r, c) <=> Holds(q, c) /\ c # q[n]
<1> DEFINE u == SubSeq(q, 1, n - 1)
           v == SubSeq(q, n + 1, Len(q))
           r == u \o v
<1>1. Len(q) \in Nat /\ DOMAIN q = 1 .. Len(q) /\ n \in 1 .. Len(q)
  OBVIOUS
<1>2. u \in Seq(T) /\ Len(u) = n - 1 /\ \A i \in 1 .. n - 1 : u[i] = q[i]
  BY <1>1, SubSeqProperties
<1>3. /\ v \in Seq(T) /\ Len(v) = Len(q) - n
      /\ \A i \in 1 .. Len(q) - n : v[i] = q[n + i]
  BY <1>1, SubSeqProperties
<1> HIDE DEF u, v
<1>4. /\ r \in Seq(T) /\ Len(r) = Len(q) - 1
      /\ \A i \in 1 .. Len(q) - 1 : r[i] = IF i < n THEN q[i] ELSE q[i + 1]
  <2>1. /\ r \in Seq(T) /\ Len(r) = Len(u) + Len(v)
        /\ \A i \in 1 .. Len(u) + Len(v) : r[i] = IF i <= Len(u) THEN u[i] ELSE v[i - Len(u)]
    BY <1>2, <1>3, ConcatProperties
  <2> HIDE DEF r
  <2>2. Len(r) = Len(q) - 1
    BY <1>1, <1>2, <1>3, <2>1
  <2>3. ASSUME NEW i \in 1 .. Len(q) - 1 PROVE r[i] = IF i < n THEN q[i] ELSE q[i + 1]
    <3>1. i \in 1 .. Len(u) + Len(v)
      BY <1>1, <1>2, <1>3
    <3>2. CASE i < n
      BY <1>1, <1>2, <2>1, <3>1, <3>2
    <3>3. CASE n <= i
      <4>1. i - Len(u) \in 1 .. Len(q) - n /\ n + (i - Len(u)) = i + 1 /\ ~(i <= Len(u))
        BY <1>1, <1>2, <3>3
      <4>2. r[i] = v[i - Len(u)]
        BY <2>1, <3>1, <4>1
      <4>3. v[i - Len(u)] = q[n + (i - Len(u))]
        BY <1>3, <4>1
      <4>4. ~(i < n)
        BY <1>1, <3>3
      <4> QED
        BY <4>1, <4>2, <4>3, <4>4
    <3> QED
      BY <1>1, <3>2, <3>3
  <2> QED
    BY <2>1, <2>2, <2>3
<1> HIDE DEF r
<1>5. DOMAIN r = 1 .. Len(q) - 1
  BY <1>4
<1>6. Once(r)
  <2> SUFFICES ASSUME NEW i \in 1 .. Len(q) - 1, NEW j \in 1 .. Len(q) - 1, i # j
               PROVE  r[i] # r[j]
    BY <1>5 DEF Once
  <2>1. PICK x \in 1 .. Len(q) : r[i] = q[x] /\ x = IF i < n THEN i ELSE i + 1
    BY <1>1, <1>4
  <2>2. PICK y \in 1 .. Len(q) : r[j] = q[y] /\ y = IF j < n THEN j ELSE j + 1
    BY <1>1, <1>4
  <2>3. x # y
    BY <1>1, <2>1, <2>2
  <2> QED
    BY <1>1, <2>1, <2>2, <2>3 DEF Once
<1>7. ASSUME NEW c, Holds(r, c) PROVE Holds(q, c) /\ c # q[n]
  BY <1>1, <1>4, <1>5, <1>7 DEF Holds, Once
<1>8. ASSUME NEW c, Holds(q, c), c # q[n] PROVE Holds(r, c)
  <2>1. PICK i \in 1 .. Len(q) : q[i] = c /\ i # n
    BY <1>1, <1>8 DEF Holds
  <2>2. CASE i < n
    BY <1>1, <1>4, <1>5, <2>1, <2>2 DEF Holds
  <2>3. CASE n < i
    <3>1. i - 1 \in 1 .. Len(q) - 1 /\ r[i - 1] = c
      BY <1>1, <1>4, <2>1, <2>3
    <3> QED
      BY <3>1, <1>5 DEF Holds
  <2> QED
    BY <1>1, <2>1, <2>2, <2>3
<1> QED
  BY <1>4, <1>6, <1>7, <1>8 DEF r, u, v

\* Free lists that hold addresses of blocks, each once.
ListsOK(lists) == /\ lists \in [Order -> Seq(BlockAddr)]
                  /\ \A k \in Order : Once(lists[k])

\* Taking a block off its list changes nothing else (heap.c:140-157).
LEMMA RemoveBlock ==
  ASSUME NEW lists, ListsOK(lists), NEW k \in Order, NEW b, Holds(lists[k], b)
  PROVE  LET new == remove_free_block(lists, b, k)
         IN  /\ ListsOK(new)
             /\ \A j \in Order : \A c :
                  Holds(new[j], c) <=> Holds(lists[j], c) /\ ~(j = k /\ c = b)
<1> DEFINE q == lists[k]
           At(i) == q[i] = b /\ \A j \in 1 .. i - 1 : q[j] # b
           n == CHOOSE i \in DOMAIN q : At(i)
           r == SubSeq(q, 1, n - 1) \o SubSeq(q, n + 1, Len(q))
           new == remove_free_block(lists, b, k)
<1>1. q \in Seq(BlockAddr) /\ Once(q)
  BY DEF ListsOK
<1>2. \E i \in DOMAIN q : At(i)
  <2>1. PICK i \in DOMAIN q : q[i] = b
    BY DEF Holds
  <2>2. i \in 1 .. Len(q) /\ DOMAIN q = 1 .. Len(q) /\ Len(q) \in Nat
    BY <1>1, <2>1
  <2>3. \A j \in 1 .. i - 1 : j \in DOMAIN q /\ j # i
    BY <2>2
  <2> QED
    BY <1>1, <2>1, <2>3 DEF Once
<1>3. n \in DOMAIN q /\ q[n] = b
  <2> HIDE DEF At
  <2>1. n \in DOMAIN q /\ At(n)
    BY <1>2
  <2> QED
    BY <2>1 DEF At
<1>4. new = [lists EXCEPT ![k] = r]
  BY DEF remove_free_block
<1> HIDE DEF new, n
<1>5. r \in Seq(BlockAddr) /\ Once(r) /\ \A c : Holds(r, c) <=> Holds(q, c) /\ c # b
  BY <1>1, <1>3, Unlinked
<1> HIDE DEF r
<1>6. new \in [Order -> Seq(BlockAddr)] /\ new[k] = r
      /\ \A j \in Order : j # k => new[j] = lists[j]
  BY <1>4, <1>5 DEF ListsOK
<1>7. ListsOK(new)
  BY <1>5, <1>6 DEF ListsOK
<1>8. \A j \in Order : \A c : Holds(new[j], c) <=> Holds(lists[j], c) /\ ~(j = k /\ c = b)
  BY <1>5, <1>6
<1> QED
  BY <1>7, <1>8 DEF new

\* A block put on a list it is not on comes first, and nothing else changes
\* (heap.c:134-138).
LEMMA InsertBlock ==
  ASSUME NEW lists, ListsOK(lists), NEW k \in Order, NEW b \in BlockAddr, ~Holds(lists[k], b)
  PROVE  LET new == insert_free_block(lists, b, k)
         IN  /\ ListsOK(new) /\ new[k] # <<>> /\ Head(new[k]) = b
             /\ \A j \in Order : \A c :
                  Holds(new[j], c) <=> Holds(lists[j], c) \/ (j = k /\ c = b)
<1> DEFINE q == lists[k]
           r == <<b>> \o q
           new == insert_free_block(lists, b, k)
<1>1. q \in Seq(BlockAddr) /\ Once(q) /\ Len(q) \in Nat /\ DOMAIN q = 1 .. Len(q)
  BY DEF ListsOK
<1>2. /\ r \in Seq(BlockAddr) /\ Len(r) = Len(q) + 1 /\ r[1] = b
      /\ \A i \in 1 .. Len(q) : r[i + 1] = q[i]
      /\ \A i \in 2 .. Len(q) + 1 : r[i] = q[i - 1]
  BY <1>1
<1>3. new = [lists EXCEPT ![k] = r]
  BY DEF insert_free_block
<1> HIDE DEF new, r
<1>4. DOMAIN r = 1 .. Len(q) + 1
  BY <1>2
<1>5. Once(r)
  <2> SUFFICES ASSUME NEW i \in DOMAIN r, NEW j \in DOMAIN r, i < j, r[i] = r[j] PROVE FALSE
    BY <1>1, <1>4 DEF Once
  <2>1. j \in 2 .. Len(q) + 1 /\ r[j] = q[j - 1] /\ j - 1 \in DOMAIN q
    BY <1>1, <1>2, <1>4
  <2>2. CASE i = 1
    BY <1>2, <2>1, <2>2 DEF Holds
  <2>3. CASE i # 1
    <3>1. r[i] = q[i - 1] /\ i - 1 \in DOMAIN q /\ i - 1 # j - 1
      BY <1>1, <1>2, <1>4, <2>3
    <3> QED
      BY <1>1, <2>1, <3>1 DEF Once
  <2> QED
    BY <2>2, <2>3
<1>6. ASSUME NEW c PROVE Holds(r, c) <=> Holds(q, c) \/ c = b
  <2>1. ASSUME Holds(r, c) PROVE Holds(q, c) \/ c = b
    <3>1. PICK i \in 1 .. Len(q) + 1 : r[i] = c
      BY <2>1, <1>4 DEF Holds
    <3>2. CASE i = 1
      BY <1>2, <3>1, <3>2
    <3>3. CASE i # 1
      <4>1. q[i - 1] = c /\ i - 1 \in DOMAIN q
        BY <1>1, <1>2, <3>1, <3>3
      <4> QED
        BY <4>1 DEF Holds
    <3> QED
      BY <3>2, <3>3
  <2>2. ASSUME Holds(q, c) PROVE Holds(r, c)
    <3>1. PICK i \in 1 .. Len(q) : q[i] = c
      BY <2>2, <1>1 DEF Holds
    <3>2. i + 1 \in DOMAIN r /\ r[i + 1] = c
      BY <1>1, <1>2, <1>4, <3>1
    <3> QED
      BY <3>2 DEF Holds
  <2>3. ASSUME c = b PROVE Holds(r, c)
    <3>1. 1 \in DOMAIN r
      BY <1>1, <1>4
    <3> QED
      BY <1>2, <2>3, <3>1 DEF Holds
  <2> QED
    BY <2>1, <2>2, <2>3
<1>7. new \in [Order -> Seq(BlockAddr)] /\ new[k] = r
      /\ \A j \in Order : j # k => new[j] = lists[j]
  BY <1>2, <1>3 DEF ListsOK
<1>8. ListsOK(new)
  BY <1>5, <1>7 DEF ListsOK
<1>9. r # <<>> /\ Head(r) = b
  BY <1>1, <1>2
<1>10. \A j \in Order : \A c : Holds(new[j], c) <=> Holds(lists[j], c) \/ (j = k /\ c = b)
  BY <1>6, <1>7
<1> QED
  BY <1>7, <1>8, <1>9, <1>10 DEF new

-----------------------------------------------------------------------------
(* The heap: its invariant.                                                *)

\* The steps of a call, and the request it works on (heap.c:168-187).
Control ==
  /\ pc \in {"idle", "split", "coalesce", "halted"}
  /\ order \in Order /\ o \in Order /\ block \in BlockAddr /\ misused \in BOOLEAN
  /\ pc = "halted" <=> misused
  /\ pc = "split" => /\ req \in Request /\ ~SizeRefused(req) /\ ~TotalRefused(req)
                     /\ order = OrderFor(req) /\ order <= o /\ free_lists[o] # <<>>

\* Lists hold blocks once, and the headers say what the lists say.
Headers ==
  /\ ListsOK(free_lists)
  /\ hdr \in [BlockAddr -> Header]
  /\ \A k \in Order : \A c : Holds(free_lists[k], c) => hdr[c].free /\ hdr[c].order = k
  /\ pc = "coalesce" => /\ hdr[block].free
                        /\ \A k \in Order : ~Holds(free_lists[k], block)

\* A block handed out is marked so and holds its owner's bytes.
OwnerKnown(a) ==
  /\ a.block \in BlockAddr /\ ~hdr[a.block].free /\ hdr[a.block].self = a.block
  /\ a.ptr \in Nat /\ a.size \in Nat \ {0} /\ a.align \in Nat \ {0} /\ a.ptr % a.align = 0
  /\ a.block < a.ptr /\ a.ptr + a.size <= a.block + 2^hdr[a.block].order

Owners ==
  /\ IsFiniteSet(live)
  /\ \A a \in live : OwnerKnown(a)
  /\ \A a, b \in live : a.block = b.block => a = b

\* What was given back is still marked free, however it was merged or split.
GivenBack ==
  \A a \in freed : /\ a.block \in BlockAddr /\ a.ptr \in HeapBytes /\ hdr[a.block].free
                   /\ hdr[a.block].self \in {0, a.block}

\* No two buddies are free at once, but for the pair a split has just made.
Pairs ==
  \A k \in Order : \A p \in Nat :
    /\ k < MAX_BLOCK_SHIFT /\ IsMultiple(p, 2^(k + 1))
    /\ Holds(free_lists[k], p) /\ Holds(free_lists[k], p + 2^k)
    => pc = "split" /\ k = o /\ Head(free_lists[o]) \in {p, p + 2^k}

HeapInv == /\ Control /\ Headers /\ Owners /\ GivenBack /\ Pairs
           /\ Tiles(Blocks)

\* Every block's order is the one its header has.
LEMMA BlockKnown ==
  ASSUME HeapInv
  PROVE  /\ \A x \in Blocks : /\ x[1] \in BlockAddr /\ x[2] \in Order
                              /\ x = <<x[1], hdr[x[1]].order>> /\ x[2] = hdr[x[1]].order
         /\ \A k \in Order : \A c : Holds(free_lists[k], c) =>
              c \in BlockAddr /\ <<c, k>> \in Blocks /\ hdr[c].free /\ hdr[c].order = k
         /\ \A a \in live : <<a.block, hdr[a.block].order>> \in Blocks
         /\ pc = "coalesce" => <<block, hdr[block].order>> \in Blocks
<1>1. \A k \in Order : \A c : Holds(free_lists[k], c) => c \in BlockAddr
  BY DEF HeapInv, Headers, ListsOK, Holds
<1>2. \A k \in Order : \A c : Holds(free_lists[k], c) => <<c, k>> \in FreeBlocks
  BY <1>1 DEF FreeBlocks, Linked, Holds
<1>3. \A x \in FreeBlocks : /\ x[1] \in BlockAddr /\ x[2] \in Order /\ x = <<x[1], x[2]>>
                            /\ Holds(free_lists[x[2]], x[1])
  BY DEF FreeBlocks, Linked, Holds
<1>4. \A x \in FreeBlocks : x[2] = hdr[x[1]].order
  BY <1>3 DEF HeapInv, Headers
<1>5. Blocks \subseteq BlockAddr \X Order
  BY DEF HeapInv, Tiles
<1>6. \A x \in TakenBlocks : x = <<x[1], hdr[x[1]].order>> /\ x[2] = hdr[x[1]].order
  BY DEF TakenBlocks
<1>7. \A x \in InHand : x = <<x[1], hdr[x[1]].order>> /\ x[2] = hdr[x[1]].order
  BY DEF InHand
<1>8. \A x \in Blocks : x \in FreeBlocks \/ x \in TakenBlocks \/ x \in InHand
  BY DEF Blocks
<1>9. \A x \in Blocks : /\ x[1] \in BlockAddr /\ x[2] \in Order
                        /\ x = <<x[1], hdr[x[1]].order>> /\ x[2] = hdr[x[1]].order
  <2>1. \A x \in Blocks : x[1] \in BlockAddr /\ x[2] \in Order
    BY <1>5
  <2> QED
    BY <1>3, <1>4, <1>6, <1>7, <1>8, <2>1
<1>10. \A a \in live : <<a.block, hdr[a.block].order>> \in Blocks
  BY DEF Blocks, TakenBlocks
<1>11. pc = "coalesce" => <<block, hdr[block].order>> \in Blocks
  BY DEF Blocks, InHand
<1>12. \A k \in Order : \A c : Holds(free_lists[k], c) => hdr[c].free /\ hdr[c].order = k
  BY DEF HeapInv, Headers
<1>13. FreeBlocks \subseteq Blocks
  BY DEF Blocks
<1> QED
  BY <1>1, <1>2, <1>9, <1>10, <1>11, <1>12, <1>13

\* No block begins inside another.
LEMMA HeadOutside ==
  ASSUME NEW B, Tiles(B), NEW x \in B, NEW y \in B, x[1] <= y[1], y[1] < x[1] + 2^x[2]
  PROVE  x = y
<1>1. Fits(x[1], x[2]) /\ Fits(y[1], y[2])
  BY DEF Tiles
<1>2. /\ x[1] \in Nat /\ y[1] \in Nat /\ 2^x[2] \in Nat \ {0} /\ 2^y[2] \in Nat \ {0}
  BY <1>1, BlockFacts
<1>3. ~Apart(x, y)
  BY <1>2 DEF Apart
<1> QED
  BY <1>3 DEF Tiles

\* A list's first block.
LEMMA HeadHeld ==
  ASSUME NEW q \in Seq(BlockAddr), q # <<>>
  PROVE  Head(q) \in BlockAddr /\ Holds(q, Head(q))
<1>1. Len(q) \in Nat \ {0} /\ DOMAIN q = 1 .. Len(q)
  BY EmptySeq, LenProperties
<1>2. Head(q) = q[1] /\ 1 \in DOMAIN q
  BY <1>1
<1> QED
  BY <1>2 DEF Holds

\* When the heap is set up it is one free block (heap.c:51-87).
LEMMA HeapBegins ==
  ASSUME HeapInit
  PROVE  HeapInv
<1>1. /\ MAX_BLOCK_SHIFT \in Order /\ Order \subseteq Nat /\ HEAP_START \in BlockAddr
      /\ Fits(HEAP_START, MAX_BLOCK_SHIFT)
      /\ HEAP_START \in Nat \ {0} /\ 2^MAX_BLOCK_SHIFT = HEAP_START
  <2>1. IsMultiple(HEAP_START, 2^MIN_BLOCK_SHIFT) /\ IsMultiple(HEAP_START, 2^MAX_BLOCK_SHIFT)
    BY Powers, HeapGrid DEF Order
  <2> QED
    BY <2>1, Powers, HeapGrid DEF Order, Fits
<1>2. /\ \A k \in Order : free_lists[k] = IF k = MAX_BLOCK_SHIFT THEN <<HEAP_START>> ELSE <<>>
      /\ DOMAIN free_lists = Order
  BY DEF HeapInit
<1>3. ListsOK(free_lists)
  <2>1. <<HEAP_START>> \in Seq(BlockAddr) /\ <<>> \in Seq(BlockAddr)
    BY <1>1
  <2>2. Once(<<HEAP_START>>) /\ Once(<<>>)
    BY DEF Once
  <2>3. free_lists = [k \in Order |-> IF k = MAX_BLOCK_SHIFT THEN <<HEAP_START>> ELSE <<>>]
    BY DEF HeapInit
  <2>4. free_lists \in [Order -> Seq(BlockAddr)]
    BY <2>1, <2>3
  <2> QED
    BY <1>2, <2>2, <2>4 DEF ListsOK
<1>4. \A k \in Order : \A c : Holds(free_lists[k], c) <=> k = MAX_BLOCK_SHIFT /\ c = HEAP_START
  BY <1>2 DEF Holds
<1>5. Junk \subseteq Header
  BY HeapAssumption DEF Header
<1>6. /\ hdr \in [BlockAddr -> Header]
      /\ hdr[HEAP_START] = [order |-> MAX_BLOCK_SHIFT, free |-> TRUE, self |-> 0]
  <2>1. PICK j \in [BlockAddr -> Junk] :
          hdr = [b \in BlockAddr |-> IF b = HEAP_START
                                     THEN [order |-> MAX_BLOCK_SHIFT, free |-> TRUE, self |-> 0]
                                     ELSE j[b]]
    BY DEF HeapInit
  <2>2. [order |-> MAX_BLOCK_SHIFT, free |-> TRUE, self |-> 0] \in Header
    BY <1>1 DEF Header
  <2>3. \A b \in BlockAddr : j[b] \in Header
    BY <1>5
  <2> QED
    BY <1>1, <2>1, <2>2, <2>3
<1>7. Headers
  <2>1. pc # "coalesce"
    BY DEF HeapInit
  <2>2. \A k \in Order : \A c : Holds(free_lists[k], c) => hdr[c].free /\ hdr[c].order = k
    <3>1. hdr[HEAP_START].free /\ hdr[HEAP_START].order = MAX_BLOCK_SHIFT
      BY <1>6
    <3> QED
      BY <1>4, <3>1
  <2> QED
    BY <1>3, <1>6, <2>1, <2>2 DEF Headers
<1>8. Control
  BY <1>1 DEF Control, HeapInit
<1>9. Owners /\ GivenBack
  BY FS_EmptySet DEF Owners, GivenBack, HeapInit
<1>10. Pairs
  <2>1. ASSUME NEW k \in Order, k < MAX_BLOCK_SHIFT, NEW p, Holds(free_lists[k], p) PROVE FALSE
    BY <1>1, <1>4, <2>1
  <2> QED
    BY <2>1 DEF Pairs
<1>11. Blocks = {<<HEAP_START, MAX_BLOCK_SHIFT>>}
  <2>1. TakenBlocks = {} /\ InHand = {}
    BY DEF HeapInit, TakenBlocks, InHand
  <2>2. FreeBlocks = {<<HEAP_START, MAX_BLOCK_SHIFT>>}
    BY <1>1, <1>4 DEF FreeBlocks, Linked, Holds
  <2> QED
    BY <2>1, <2>2 DEF Blocks
<1>12. Tiles({<<HEAP_START, MAX_BLOCK_SHIFT>>})
  <2>1. \A c \in BlockAddr : Covers(<<HEAP_START, MAX_BLOCK_SHIFT>>, c)
    BY <1>1, HeapGrid DEF Covers
  <2> QED
    BY <1>1, <2>1 DEF Tiles
<1> QED
  BY <1>7, <1>8, <1>9, <1>10, <1>11, <1>12 DEF HeapInv

\* A block's header is in no other block's bytes.
LEMMA HeadersApart ==
  ASSUME HeapInv, NEW b, NEW k, <<b, k>> \in Blocks, NEW c, NEW j, <<c, j>> \in Blocks,
         b <= c, c < b + 2^k
  PROVE  b = c /\ k = j
<1>1. <<b, k>> = <<c, j>>
  BY HeadOutside DEF HeapInv
<1> QED
  BY <1>1

\* Finding the list to take from changes nothing yet (heap.c:175-180).
LEMMA AllocBeginInv ==
  ASSUME HeapInv, NEW r \in Request, AllocBegin(r)
  PROVE  HeapInv'
<1>1. OrderFor(r) \in Order /\ ~SizeRefused(r) /\ ~TotalRefused(r)
  BY OrderHasRoom DEF AllocBegin, CanServe
<1>2. o' \in Candidates(OrderFor(r))
  <2> DEFINE S == Candidates(OrderFor(r))
             Best(j) == \A i \in S : j <= i
  <2>1. S \in SUBSET Nat /\ S # {}
    BY Powers DEF AllocBegin, CanServe, Candidates, Order
  <2>2. o' = CHOOSE j \in S : Best(j)
    BY DEF AllocBegin
  <2> HIDE DEF S
  <2>3. \E j \in S : Best(j)
    BY <2>1, LeastNatural
  <2> HIDE DEF Best
  <2>4. o' \in S
    BY <2>2, <2>3
  <2> QED
    BY <2>4 DEF S
<1>3. /\ pc = "idle" /\ pc' = "split" /\ req' = r /\ order' = OrderFor(r)
      /\ UNCHANGED <<free_lists, hdr, live, freed, misused, block>>
  BY DEF AllocBegin, listVars, userVars
<1>4. Control'
  BY <1>1, <1>2, <1>3 DEF HeapInv, Control, Candidates, SizeRefused, TotalRefused, RawSize,
     Total, Rounded, OrderFor
<1>5. Headers'
  BY <1>3 DEF HeapInv, Headers
<1>6. Owners' /\ GivenBack'
  BY <1>3 DEF HeapInv, Owners, OwnerKnown, GivenBack
<1>7. Pairs'
  BY <1>3 DEF HeapInv, Pairs
<1>8. Blocks' = Blocks
  BY <1>3 DEF Blocks, FreeBlocks, Linked, TakenBlocks, InHand
<1> QED
  BY <1>4, <1>5, <1>6, <1>7, <1>8 DEF HeapInv

\* The block a split or a take works on.
LEMMA Chosen ==
  ASSUME HeapInv, pc = "split"
  PROVE  /\ Head(free_lists[o]) \in BlockAddr
         /\ Holds(free_lists[o], Head(free_lists[o]))
         /\ <<Head(free_lists[o]), o>> \in Blocks
         /\ hdr[Head(free_lists[o])].free /\ hdr[Head(free_lists[o])].order = o
         /\ Fits(Head(free_lists[o]), o)
         /\ \A a \in live : ~ (/\ Head(free_lists[o]) <= a.block
                               /\ a.block < Head(free_lists[o]) + 2^o)
<1> DEFINE b == Head(free_lists[o])
<1>1. o \in Order /\ free_lists[o] # <<>> /\ free_lists[o] \in Seq(BlockAddr)
  BY DEF HeapInv, Control, Headers, ListsOK
<1>2. b \in BlockAddr /\ Holds(free_lists[o], b)
  BY <1>1, HeadHeld
<1> HIDE DEF b
<1>3. <<b, o>> \in Blocks /\ hdr[b].free /\ hdr[b].order = o
  BY <1>1, <1>2, BlockKnown
<1>4. Fits(b, o)
  BY <1>3 DEF HeapInv, Tiles
<1>5. ASSUME NEW a \in live, b <= a.block, a.block < b + 2^o PROVE FALSE
  <2>1. <<a.block, hdr[a.block].order>> \in Blocks /\ ~hdr[a.block].free
    BY BlockKnown DEF HeapInv, Owners, OwnerKnown
  <2>2. a.block = b
    BY <1>3, <1>5, <2>1, HeadersApart
  <2> QED
    BY <1>3, <2>1, <2>2
<1> QED
  BY <1>2, <1>3, <1>4, <1>5 DEF b

\* Order and mark are written into a header; what its owner wrote stays.
LEMMA HeaderWritten ==
  ASSUME NEW h \in [BlockAddr -> Header], NEW b \in BlockAddr, NEW k \in Nat
  PROVE  LET g == [h EXCEPT ![b].order = k, ![b].free = TRUE]
         IN  /\ g \in [BlockAddr -> Header]
             /\ g[b].order = k /\ g[b].free /\ g[b].self = h[b].self
             /\ \A x \in BlockAddr : x # b => g[x] = h[x]
<1> DEFINE h1 == [h EXCEPT ![b].order = k]
           g  == [h1 EXCEPT ![b].free = TRUE]
<1>1. h[b] \in Header
  OBVIOUS
<1>2. /\ h1[b] = [h[b] EXCEPT !.order = k] /\ DOMAIN h1 = BlockAddr
      /\ \A x \in BlockAddr : x # b => h1[x] = h[x]
  OBVIOUS
<1>3. /\ h1[b] \in Header /\ h1[b].order = k /\ h1[b].self = h[b].self
  BY <1>1, <1>2 DEF Header
<1>4. h1 \in [BlockAddr -> Header]
  BY <1>2, <1>3
<1> HIDE DEF h1
<1>5. /\ g[b] = [h1[b] EXCEPT !.free = TRUE] /\ DOMAIN g = BlockAddr
      /\ \A x \in BlockAddr : x # b => g[x] = h1[x]
  BY <1>4
<1>6. /\ g[b] \in Header /\ g[b].order = k /\ g[b].self = h[b].self /\ g[b].free
  BY <1>3, <1>5 DEF Header
<1>7. g \in [BlockAddr -> Header]
  BY <1>4, <1>5, <1>6
<1>8. g = [h EXCEPT ![b].order = k, ![b].free = TRUE]
  BY DEF h1
<1> QED
  BY <1>2, <1>5, <1>6, <1>7, <1>8

\* A block is split into two buddies (heap.c:95-110).
LEMMA SplitInv ==
  ASSUME HeapInv, Split
  PROVE  HeapInv'
<1> DEFINE b == Head(free_lists[o])
           k == o - 1
           c == buddy_of(b, k)
           unlinked == remove_free_block(free_lists, b, o)
           once == insert_free_block(unlinked, b, k)
<1>1. /\ pc = "split" /\ order < o /\ order \in Order /\ o \in Order
      /\ Order \subseteq Nat /\ k \in Order /\ k + 1 = o /\ k < MAX_BLOCK_SHIFT /\ k # o
      /\ k \in Nat
  BY Powers DEF HeapInv, Control, Split, Order
<1>2. /\ b \in BlockAddr /\ Holds(free_lists[o], b) /\ <<b, o>> \in Blocks
      /\ hdr[b].free /\ hdr[b].order = o /\ Fits(b, o)
      /\ \A a \in live : ~(b <= a.block /\ a.block < b + 2^o)
  BY <1>1, Chosen
<1>3. /\ free_lists' = insert_free_block(once, c, k)
      /\ hdr' = [hdr EXCEPT ![b].order = k, ![b].free = TRUE,
                            ![c] = [order |-> k, free |-> TRUE, self |-> 0]]
      /\ o' = k /\ pc' = pc
      /\ UNCHANGED <<live, freed, misused, req, order, block>>
  BY DEF Split, userVars
<1> HIDE DEF b, k
<1>4. /\ Fits(b, k) /\ Fits(b + 2^k, k) /\ c = b + 2^k /\ b \in Nat
      /\ 2^k \in Nat \ {0} /\ 2^o = 2^k + 2^k
  BY <1>1, <1>2, Halves
<1>5. c \in BlockAddr /\ c # b /\ b <= c /\ c < b + 2^o
  BY <1>4 DEF Fits
<1>6. ListsOK(free_lists)
  BY DEF HeapInv, Headers
<1>7. /\ \A j \in Order : ~Holds(free_lists[j], c)
      /\ \A j \in Order : Holds(free_lists[j], b) => j = o
  <2>1. ASSUME NEW j \in Order, Holds(free_lists[j], c) PROVE FALSE
    <3>1. <<c, j>> \in Blocks
      BY <2>1, BlockKnown
    <3> QED
      BY <1>2, <1>5, <3>1, HeadersApart
  <2>2. ASSUME NEW j \in Order, Holds(free_lists[j], b) PROVE j = o
    BY <1>2, <2>2, BlockKnown
  <2> QED
    BY <2>1, <2>2
<1>8. /\ ListsOK(unlinked)
      /\ \A j \in Order : \A x : Holds(unlinked[j], x) <=> Holds(free_lists[j], x) /\ ~(j = o /\ x = b)
  BY <1>1, <1>2, <1>6, RemoveBlock
<1> HIDE DEF unlinked
<1>9. /\ ListsOK(once)
      /\ \A j \in Order : \A x : Holds(once[j], x) <=> Holds(unlinked[j], x) \/ (j = k /\ x = b)
  <2>1. ~Holds(unlinked[k], b)
    BY <1>1, <1>7, <1>8
  <2> QED
    BY <1>1, <1>2, <1>8, <2>1, InsertBlock, Zenon
<1> HIDE DEF once, c
<1>10. /\ ListsOK(free_lists') /\ free_lists'[k] # <<>> /\ Head(free_lists'[k]) = c
       /\ \A j \in Order : \A x : Holds(free_lists'[j], x) <=> Holds(once[j], x) \/ (j = k /\ x = c)
  <2>1. ~Holds(once[k], c)
    BY <1>1, <1>5, <1>7, <1>8, <1>9
  <2> DEFINE new == insert_free_block(once, c, k)
  <2>2. /\ ListsOK(new) /\ new[k] # <<>> /\ Head(new[k]) = c
        /\ \A j \in Order : \A x : Holds(new[j], x) <=> Holds(once[j], x) \/ (j = k /\ x = c)
    BY <1>1, <1>5, <1>9, <2>1, InsertBlock, Zenon
  <2>3. free_lists' = new
    BY <1>3
  <2> HIDE DEF new
  <2> QED
    BY <2>2, <2>3
<1>11. \A j \in Order : \A x :
         Holds(free_lists'[j], x) <=> \/ Holds(free_lists[j], x) /\ ~(j = o /\ x = b)
                                      \/ j = k /\ (x = b \/ x = c)
  BY <1>8, <1>9, <1>10
<1>12. hdr \in [BlockAddr -> Header]
  BY DEF HeapInv, Headers
<1>13. /\ hdr' \in [BlockAddr -> Header]
       /\ hdr'[b].order = k /\ hdr'[b].free /\ hdr'[b].self = hdr[b].self
       /\ hdr'[c].order = k /\ hdr'[c].free /\ hdr'[c].self = 0
       /\ \A x \in BlockAddr : x # b /\ x # c => hdr'[x] = hdr[x]
  <2> DEFINE h == [hdr EXCEPT ![b].order = k, ![b].free = TRUE]
             r == [order |-> k, free |-> TRUE, self |-> 0]
  <2>1. hdr' = [h EXCEPT ![c] = r]
    BY <1>3
  <2>2. /\ h \in [BlockAddr -> Header]
        /\ h[b].order = k /\ h[b].free /\ h[b].self = hdr[b].self
        /\ \A x \in BlockAddr : x # b => h[x] = hdr[x]
    BY <1>1, <1>2, <1>12, HeaderWritten, ZenonT(30)
  <2> HIDE DEF h
  <2>3. r \in Header /\ r.order = k /\ r.free /\ r.self = 0
    BY <1>1 DEF Header
  <2> HIDE DEF r
  <2>4. /\ hdr' \in [BlockAddr -> Header] /\ hdr'[c] = r
        /\ \A x \in BlockAddr : x # c => hdr'[x] = h[x]
    BY <1>5, <2>1, <2>2, <2>3
  <2> QED
    BY <1>2, <1>5, <2>2, <2>3, <2>4
<1>14. \A a \in live : a.block \in BlockAddr /\ a.block # b /\ a.block # c
  BY <1>2, <1>4, <1>5 DEF HeapInv, Owners, OwnerKnown
<1>15. Control'
  BY <1>1, <1>3, <1>10 DEF HeapInv, Control, SizeRefused, TotalRefused, RawSize,
     Total, Rounded, OrderFor
<1>16. Headers'
  <2>1. ASSUME NEW j \in Order, NEW x, Holds(free_lists'[j], x)
        PROVE  hdr'[x].free /\ hdr'[x].order = j
    <3>1. CASE x = b \/ x = c
      BY <1>1, <1>7, <1>11, <1>13, <2>1, <3>1
    <3>2. CASE x # b /\ x # c
      <4>1. Holds(free_lists[j], x)
        BY <1>11, <2>1, <3>2
      <4>2. x \in BlockAddr /\ hdr[x].free /\ hdr[x].order = j
        BY <4>1, BlockKnown
      <4> QED
        BY <1>13, <3>2, <4>2
    <3> QED
      BY <3>1, <3>2
  <2>2. pc' # "coalesce"
    BY <1>1, <1>3
  <2> QED
    BY <1>10, <1>13, <2>1, <2>2 DEF Headers
<1>17. Owners'
  <2>1. \A a \in live : hdr'[a.block] = hdr[a.block]
    BY <1>13, <1>14
  <2> QED
    BY <1>3, <2>1 DEF HeapInv, Owners, OwnerKnown
<1>18. GivenBack'
  <2> SUFFICES ASSUME NEW a \in freed
               PROVE  /\ a.block \in BlockAddr /\ a.ptr \in HeapBytes /\ hdr'[a.block].free
                      /\ hdr'[a.block].self \in {0, a.block}
    BY <1>3 DEF GivenBack
  <2>1. /\ a.block \in BlockAddr /\ a.ptr \in HeapBytes /\ hdr[a.block].free
        /\ hdr[a.block].self \in {0, a.block}
    BY DEF HeapInv, GivenBack
  <2> QED
    BY <1>13, <2>1
<1>19. Pairs'
  <2> SUFFICES ASSUME NEW j \in Order, NEW p \in Nat, j < MAX_BLOCK_SHIFT,
                      IsMultiple(p, 2^(j + 1)), Holds(free_lists'[j], p),
                      Holds(free_lists'[j], p + 2^j)
               PROVE  j = k /\ c \in {p, p + 2^j}
    BY <1>1, <1>3, <1>10 DEF Pairs
  <2>1. CASE Holds(free_lists[j], p) /\ Holds(free_lists[j], p + 2^j)
    <3>1. j = o /\ b \in {p, p + 2^j}
      BY <2>1 DEF HeapInv, Pairs, b
    <3> QED
      BY <1>1, <1>11, <3>1
  <2>2. CASE ~(Holds(free_lists[j], p) /\ Holds(free_lists[j], p + 2^j))
    <3>1. j = k /\ (p = b \/ p = c \/ p + 2^j = b \/ p + 2^j = c)
      BY <1>11, <2>2
    <3>2. /\ k \in 0 .. MAX_BLOCK_SHIFT
          /\ buddy_of(p, k) = p + 2^k /\ buddy_of(p + 2^k, k) = p
      <4>1. k \in 0 .. MAX_BLOCK_SHIFT
        BY <1>1, Powers
      <4> QED
        BY <4>1, <3>1, BuddiesArePair
    <3>3. buddy_of(b, k) = c /\ buddy_of(c, k) = b
      <4>1. buddy_of(b, k) = c
        BY DEF c
      <4>2. IsMultiple(b, 2^(k + 1)) /\ k \in 0 .. MAX_BLOCK_SHIFT
        BY <1>1, <1>2, <3>2, BlockFacts
      <4>3. buddy_of(b + 2^k, k) = b
        BY <1>4, <4>2, BuddiesArePair
      <4> QED
        BY <1>4, <4>1, <4>3
    <3> QED
      BY <3>1, <3>2, <3>3
  <2> QED
    BY <2>1, <2>2
<1>20. Tiles(Blocks')
  <2>1. Tiles((Blocks \ {<<b, k + 1>>}) \cup {<<b, k>>, <<b + 2^k, k>>})
    BY <1>1, <1>2, SplitTiles DEF HeapInv
  <2>2. TakenBlocks' = TakenBlocks
    BY <1>3, <1>13, <1>14 DEF TakenBlocks
  <2>3. InHand' = {} /\ InHand = {}
    BY <1>1, <1>3 DEF InHand
  <2>4. FreeBlocks' = (FreeBlocks \ {<<b, o>>}) \cup {<<b, k>>, <<c, k>>}
    <3>1. FreeBlocks = {x \in BlockAddr \X Order : Holds(free_lists[x[2]], x[1])}
      BY DEF FreeBlocks, Linked, Holds
    <3>2. FreeBlocks' = {x \in BlockAddr \X Order : Holds(free_lists'[x[2]], x[1])}
      BY DEF FreeBlocks, Linked, Holds
    <3>3. <<b, k>> \in BlockAddr \X Order /\ <<c, k>> \in BlockAddr \X Order
      BY <1>1, <1>2, <1>5
    <3>4. ASSUME NEW x \in BlockAddr \X Order
          PROVE  x \in FreeBlocks' <=> x \in (FreeBlocks \ {<<b, o>>}) \cup {<<b, k>>, <<c, k>>}
      <4>1. PICK y \in BlockAddr, j \in Order : x = <<y, j>>
        OBVIOUS
      <4>2. x \in FreeBlocks' <=> Holds(free_lists'[j], y)
        BY <3>2, <4>1
      <4>3. x \in FreeBlocks <=> Holds(free_lists[j], y)
        BY <3>1, <4>1
      <4> QED
        BY <1>11, <4>1, <4>2, <4>3
    <3>5. FreeBlocks \subseteq BlockAddr \X Order /\ FreeBlocks' \subseteq BlockAddr \X Order
      BY <3>1, <3>2
    <3> QED
      BY <3>3, <3>4, <3>5
  <2>5. <<b, o>> \notin TakenBlocks
    BY <1>14 DEF TakenBlocks
  <2> QED
    BY <1>1, <1>4, <2>1, <2>2, <2>3, <2>4, <2>5 DEF Blocks
<1> QED
  BY <1>15, <1>16, <1>17, <1>18, <1>19, <1>20 DEF HeapInv

\* The block chosen is taken off its list and handed out (heap.c:187-193).
LEMMA TakeInv ==
  ASSUME HeapInv, Take
  PROVE  HeapInv'
<1> DEFINE b == Head(free_lists[order])
           payload == {c \in BlockAddr : b < c /\ c < b + 2^order}
           a == [ptr |-> Pointer(req, b), size |-> req.size,
                 align |-> Promised(req), block |-> b]
           lists == remove_free_block(free_lists, b, order)
<1>1. /\ pc = "split" /\ order = o /\ order \in Order /\ Order \subseteq Nat
      /\ order = OrderFor(req) /\ req \in Request /\ ~SizeRefused(req) /\ ~TotalRefused(req)
  BY Powers DEF HeapInv, Control, Take, Order
<1>2. /\ b \in BlockAddr /\ Holds(free_lists[order], b) /\ <<b, order>> \in Blocks
      /\ hdr[b].free /\ hdr[b].order = order /\ Fits(b, order)
      /\ \A x \in live : ~(b <= x.block /\ x.block < b + 2^order)
  BY <1>1, Chosen
<1>3. /\ free_lists' = lists
      /\ live' = live \cup {a}
      /\ freed' = {f \in freed : f.block # b /\ f.block \notin payload
                                 /\ f.ptr - WORD \notin b .. b + 2^order - 1}
      /\ pc' = "idle" /\ misused' = misused
      /\ order' = MAX_BLOCK_SHIFT /\ o' = MAX_BLOCK_SHIFT /\ block' = HEAP_START
  BY <1>1 DEF Take, Returned
<1>4. PICK j \in [payload -> Junk] :
        hdr' = [c \in BlockAddr |->
                  CASE c = b         -> [hdr[b] EXCEPT !.free = FALSE, !.self = b]
                    [] c \in payload -> j[c]
                    [] OTHER         -> hdr[c]]
  BY Zenon DEF Take
<1>5. /\ Pointer(req, b) \in Nat /\ Promised(req) \in Nat \ {0} /\ req.size \in Nat \ {0}
      /\ b < Pointer(req, b) /\ Pointer(req, b) + req.size <= b + Total(req)
      /\ Pointer(req, b) % Promised(req) = 0 /\ Total(req) \in Nat /\ Total(req) <= 2^order
  BY <1>1, <1>2, PointerFits, OrderHasRoom
<1>6. /\ b \in Nat /\ 2^order \in Nat \ {0} /\ hdr \in [BlockAddr -> Header]
      /\ \A c \in BlockAddr : c \in Nat
  BY <1>2, BlockFacts, HeapGrid DEF HeapInv, Headers
<1>7. /\ a.ptr = Pointer(req, b) /\ a.size = req.size /\ a.align = Promised(req) /\ a.block = b
  OBVIOUS
<1> HIDE DEF b, a, lists
<1> PICK w : w = a
  OBVIOUS
<1>8. /\ ListsOK(lists)
      /\ \A i \in Order : \A x : Holds(lists[i], x) <=> Holds(free_lists[i], x) /\ ~(i = order /\ x = b)
  BY <1>1, <1>2, RemoveBlock DEF HeapInv, Headers, lists
<1>9. ASSUME NEW x \in BlockAddr, ~(b <= x /\ x < b + 2^order) PROVE hdr'[x] = hdr[x]
  <2>1. x # b /\ x \notin payload
    BY <1>6, <1>9
  <2> HIDE DEF payload
  <2> QED
    BY <1>4, <2>1
<1>10. /\ hdr'[b].order = order /\ ~hdr'[b].free /\ hdr'[b].self = b
  <2>1. hdr'[b] = [hdr[b] EXCEPT !.free = FALSE, !.self = b]
    <3>1. b \notin payload
      BY <1>6
    <3> HIDE DEF payload
    <3> QED
      BY <1>2, <1>4, <3>1
  <2>2. hdr[b] \in Header
    BY <1>2, <1>6
  <2> QED
    BY <1>2, <2>1, <2>2 DEF Header
<1>11. hdr' \in [BlockAddr -> Header]
  <2>1. [hdr[b] EXCEPT !.free = FALSE, !.self = b] \in Header
    <3>1. hdr[b] \in Header
      BY <1>2, <1>6
    <3> QED
      BY <1>6, <3>1 DEF Header
  <2>2. \A c \in payload : j[c] \in Header
    BY HeapAssumption DEF Header
  <2> HIDE DEF payload
  <2> QED
    BY <1>4, <1>6, <2>1, <2>2
<1>12. \A i \in Order : \A x : Holds(lists[i], x) =>
         /\ x \in BlockAddr /\ <<x, i>> \in Blocks /\ hdr[x].free /\ hdr[x].order = i
         /\ ~(b <= x /\ x < b + 2^order)
  <2> SUFFICES ASSUME NEW i \in Order, NEW x, Holds(lists[i], x)
               PROVE  /\ x \in BlockAddr /\ <<x, i>> \in Blocks /\ hdr[x].free /\ hdr[x].order = i
                      /\ ~(b <= x /\ x < b + 2^order)
    OBVIOUS
  <2>1. Holds(free_lists[i], x) /\ ~(i = order /\ x = b)
    BY <1>8
  <2>2. x \in BlockAddr /\ <<x, i>> \in Blocks /\ hdr[x].free /\ hdr[x].order = i
    BY <2>1, BlockKnown
  <2>3. ASSUME b <= x, x < b + 2^order PROVE FALSE
    BY <1>2, <2>1, <2>2, <2>3, HeadersApart
  <2> QED
    BY <2>2, <2>3
<1>13. Control'
  <2>1. MAX_BLOCK_SHIFT \in Order /\ HEAP_START \in BlockAddr
    <3>1. MAX_BLOCK_SHIFT \in Order /\ MIN_BLOCK_SHIFT \in Order
      BY Powers DEF Order
    <3> QED
      BY <3>1, HeapGrid
  <2>2. misused = FALSE
    BY <1>1 DEF HeapInv, Control
  <2> QED
    BY <1>3, <2>1, <2>2 DEF Control
<1>14. Headers'
  <2>1. \A i \in Order : \A x : Holds(lists[i], x) => hdr'[x].free /\ hdr'[x].order = i
    BY <1>9, <1>12
  <2> QED
    BY <1>3, <1>8, <1>11, <2>1 DEF Headers
<1>15. \A x \in live : x.block \in BlockAddr /\ hdr'[x.block] = hdr[x.block] /\ x.block # b
  <2>1. \A x \in live : x.block \in BlockAddr
    BY DEF HeapInv, Owners, OwnerKnown
  <2> SUFFICES ASSUME NEW x \in live
               PROVE  hdr'[x.block] = hdr[x.block] /\ x.block # b
    BY <2>1
  <2>2. ~(b <= x.block /\ x.block < b + 2^order) /\ x.block \in BlockAddr
    BY <1>2, <2>1
  <2>3. x.block # b
    BY <1>6, <2>2
  <2> QED
    BY <1>9, <2>2, <2>3
<1>16. Owners'
  <2>0. /\ live' = live \cup {w}
        /\ w.ptr = Pointer(req, b) /\ w.size = req.size /\ w.align = Promised(req) /\ w.block = b
    BY <1>3, <1>7
  <2>1. IsFiniteSet(live')
    BY <1>3, FS_AddElement DEF HeapInv, Owners
  <2>2. OwnerKnown(w)'
    BY <1>2, <1>5, <1>6, <2>0, <1>10 DEF OwnerKnown
  <2>3. ASSUME NEW x \in live PROVE OwnerKnown(x)'
    <3>1. OwnerKnown(x)
      BY DEF HeapInv, Owners
    <3> QED
      BY <1>15, <3>1 DEF OwnerKnown
  <2>4. \A x, y \in live : x.block = y.block => x = y
    BY DEF HeapInv, Owners
  <2>5. \A x, y \in live' : x.block = y.block => x = y
    BY <2>0, <1>15, <2>4
  <2>6. \A x \in live' : OwnerKnown(x)'
    BY <2>0, <2>2, <2>3
  <2> QED
    BY <2>1, <2>5, <2>6 DEF Owners
<1>17. GivenBack'
  <2> SUFFICES ASSUME NEW f \in freed, f.block # b, f.block \notin payload
               PROVE  /\ f.block \in BlockAddr /\ f.ptr \in HeapBytes /\ hdr'[f.block].free
                      /\ hdr'[f.block].self \in {0, f.block}
    BY <1>3 DEF GivenBack
  <2>1. /\ f.block \in BlockAddr /\ f.ptr \in HeapBytes /\ hdr[f.block].free
        /\ hdr[f.block].self \in {0, f.block}
    BY DEF HeapInv, GivenBack
  <2>2. hdr'[f.block] = hdr[f.block]
    BY <1>6, <1>9, <2>1
  <2> QED
    BY <2>1, <2>2
<1>18. Pairs'
  <2> SUFFICES ASSUME NEW i \in Order, NEW p \in Nat, i < MAX_BLOCK_SHIFT,
                      IsMultiple(p, 2^(i + 1)), Holds(lists[i], p), Holds(lists[i], p + 2^i)
               PROVE  FALSE
    BY <1>3 DEF Pairs
  <2>1. i = order /\ b \in {p, p + 2^i}
    BY <1>1, <1>8 DEF HeapInv, Pairs, b
  <2> QED
    BY <1>8, <2>1
<1>19. Blocks' = Blocks
  <2>1. InHand' = {} /\ InHand = {}
    BY <1>1, <1>3 DEF InHand
  <2>2. TakenBlocks' = TakenBlocks \cup {<<b, order>>}
    BY <1>3, <1>7, <1>10, <1>15 DEF TakenBlocks
  <2>3. FreeBlocks' = FreeBlocks \ {<<b, order>>}
    <3>1. FreeBlocks = {x \in BlockAddr \X Order : Holds(free_lists[x[2]], x[1])}
      BY DEF FreeBlocks, Linked, Holds
    <3>2. FreeBlocks' = {x \in BlockAddr \X Order : Holds(lists[x[2]], x[1])}
      BY <1>3 DEF FreeBlocks, Linked, Holds
    <3> QED
      BY <1>8, <3>1, <3>2
  <2>4. <<b, order>> \in FreeBlocks
    BY <1>1, <1>2 DEF FreeBlocks, Linked, Holds
  <2> QED
    BY <2>1, <2>2, <2>3, <2>4 DEF Blocks
<1> QED
  BY <1>13, <1>14, <1>16, <1>17, <1>18, <1>19 DEF HeapInv

\* The word before an owner's pointer leads to its block (heap.c:200-201).
LEMMA OwnersWord ==
  ASSUME HeapInv, NEW a \in live
  PROVE  /\ BackWord(a) = a.block /\ a.block \in BlockAddr /\ a.block # 0
         /\ ~hdr[a.block].free
<1>1. OwnerKnown(a)
  BY DEF HeapInv, Owners
<1>2. a.block # 0
  BY <1>1, HeapGrid DEF OwnerKnown
<1> QED
  BY <1>1, <1>2 DEF OwnerKnown, BackWord

\* An owner frees its block (heap.c:203-209).
LEMMA FreeBeginInv ==
  ASSUME HeapInv, NEW a \in live, FreeBegin(a)
  PROVE  HeapInv'
<1> DEFINE b == a.block
<1>1. b \in BlockAddr /\ ~hdr[b].free /\ BackWord(a) = b /\ b # 0 /\ OwnerKnown(a)
  BY OwnersWord DEF HeapInv, Owners
<1>2. /\ pc = "idle" /\ pc' = "coalesce" /\ block' = b
      /\ hdr' = [hdr EXCEPT ![b].free = TRUE]
      /\ live' = live \ {a}
      /\ freed' \subseteq freed \cup {a}
      /\ UNCHANGED <<free_lists, misused, req, order, o>>
  BY <1>1 DEF FreeBegin, FreeChecks
<1>3. hdr \in [BlockAddr -> Header]
  BY DEF HeapInv, Headers
<1>4. /\ hdr' \in [BlockAddr -> Header]
      /\ hdr'[b].free /\ hdr'[b].order = hdr[b].order /\ hdr'[b].self = hdr[b].self
      /\ \A x \in BlockAddr : x # b => hdr'[x] = hdr[x]
  <2>1. hdr[b] \in Header
    BY <1>1, <1>3
  <2>2. /\ hdr'[b] = [hdr[b] EXCEPT !.free = TRUE] /\ DOMAIN hdr' = BlockAddr
        /\ \A x \in BlockAddr : x # b => hdr'[x] = hdr[x]
    BY <1>1, <1>2, <1>3
  <2>3. /\ hdr'[b] \in Header /\ hdr'[b].free /\ hdr'[b].order = hdr[b].order
        /\ hdr'[b].self = hdr[b].self
    BY <2>1, <2>2 DEF Header
  <2>4. hdr' = [x \in BlockAddr |-> hdr'[x]]
    BY <1>1, <1>2, <1>3
  <2>5. \A x \in BlockAddr : hdr'[x] \in Header
    BY <1>3, <2>2, <2>3
  <2> QED
    BY <2>2, <2>3, <2>4, <2>5
<1> HIDE DEF b
<1>5. \A x \in live \ {a} : x.block \in BlockAddr /\ x.block # b
  BY DEF HeapInv, Owners, OwnerKnown, b
<1>6. Control'
  BY <1>1, <1>2 DEF HeapInv, Control
<1>7. Headers'
  <2>1. \A k \in Order : ~Holds(free_lists[k], b)
    BY <1>1, BlockKnown
  <2>2. ASSUME NEW k \in Order, NEW c, Holds(free_lists[k], c)
        PROVE  hdr'[c].free /\ hdr'[c].order = k
    <3>1. c \in BlockAddr /\ hdr[c].free /\ hdr[c].order = k
      BY <2>2, BlockKnown
    <3>2. c # b
      BY <2>1, <2>2
    <3> QED
      BY <1>4, <3>1, <3>2
  <2> QED
    BY <1>2, <1>4, <2>1, <2>2 DEF HeapInv, Headers
<1>8. Owners'
  <2>1. IsFiniteSet(live')
    BY <1>2, FS_RemoveElement DEF HeapInv, Owners
  <2>2. ASSUME NEW x \in live' PROVE OwnerKnown(x)'
    <3>1. OwnerKnown(x) /\ x \in live \ {a}
      BY <1>2 DEF HeapInv, Owners
    <3> QED
      BY <1>4, <1>5, <3>1 DEF OwnerKnown
  <2>3. \A x, y \in live' : x.block = y.block => x = y
    BY <1>2 DEF HeapInv, Owners
  <2> QED
    BY <2>1, <2>2, <2>3 DEF Owners
<1>9. GivenBack'
  <2>1. a.block \in BlockAddr /\ a.ptr \in HeapBytes /\ hdr'[a.block].free
        /\ hdr'[a.block].self \in {0, a.block}
    <3>1. hdr[b].self = b
      BY <1>1 DEF OwnerKnown, b
    <3>2. a.ptr \in HeapBytes
      <4>1. <<b, hdr[b].order>> \in Blocks
        BY BlockKnown DEF b
      <4>2. Fits(b, hdr[b].order)
        BY <4>1 DEF HeapInv, Tiles
      <4>3. HEAP_START <= b /\ b + 2^hdr[b].order <= HEAP_START + HEAP_START /\ b \in Nat
            /\ 2^hdr[b].order \in Nat
        BY <4>2, BlockFacts
      <4>4. /\ a.ptr \in Nat /\ a.size \in Nat \ {0} /\ b < a.ptr
            /\ a.ptr + a.size <= b + 2^hdr[b].order
        BY <1>1 DEF OwnerKnown, b
      <4>5. HEAP_START \in Nat /\ 2^MAX_BLOCK_SHIFT = HEAP_START
        BY HeapGrid
      <4> QED
        BY <4>3, <4>4, <4>5 DEF HeapBytes
    <3> QED
      BY <1>1, <1>4, <3>1, <3>2 DEF b
  <2>2. ASSUME NEW f \in freed
        PROVE  /\ f.block \in BlockAddr /\ f.ptr \in HeapBytes /\ hdr'[f.block].free
               /\ hdr'[f.block].self \in {0, f.block}
    <3>1. /\ f.block \in BlockAddr /\ f.ptr \in HeapBytes /\ hdr[f.block].free
          /\ hdr[f.block].self \in {0, f.block}
      BY DEF HeapInv, GivenBack
    <3> QED
      BY <1>4, <3>1
  <2> QED
    BY <1>2, <2>1, <2>2 DEF GivenBack
<1>10. Pairs'
  BY <1>2 DEF HeapInv, Pairs
<1>11. Blocks' = Blocks
  <2>1. FreeBlocks' = FreeBlocks
    BY <1>2 DEF FreeBlocks, Linked
  <2>2. InHand = {} /\ InHand' = {<<b, hdr[b].order>>}
    BY <1>2, <1>4 DEF InHand
  <2>3. TakenBlocks' = {<<x.block, hdr[x.block].order>> : x \in live \ {a}}
    BY <1>2, <1>4, <1>5 DEF TakenBlocks
  <2>4. TakenBlocks = TakenBlocks' \cup {<<b, hdr[b].order>>}
    BY <2>3 DEF TakenBlocks, b
  <2> QED
    BY <2>1, <2>2, <2>4 DEF Blocks
<1> QED
  BY <1>6, <1>7, <1>8, <1>9, <1>10, <1>11 DEF HeapInv

\* What is freed twice stops the machine: the word leads nowhere or to a block
\* marked free (heap.c:200-207).
LEMMA DoubleFreeHalts ==
  ASSUME HeapInv, NEW a \in freed, DoubleFree(a)
  PROVE  /\ pc = "idle" /\ pc' = "halted" /\ misused' = TRUE
         /\ UNCHANGED <<free_lists, hdr, live, freed, req, order, o, block>>
<1>1. a.block \in BlockAddr /\ hdr[a.block].free /\ hdr[a.block].self \in {0, a.block}
  BY DEF HeapInv, GivenBack
<1>2. BackWord(a) \in {0, a.block}
  BY <1>1 DEF BackWord
<1>3. BackWord(a) = 0 \/ (BackWord(a) # 0 /\ hdr[BackWord(a)].free)
  BY <1>1, <1>2
<1> QED
  BY <1>3 DEF DoubleFree, FreeChecks

\* So it leaves the heap as it was (heap.c:203-207).
LEMMA DoubleFreeInv ==
  ASSUME HeapInv, NEW a \in freed, DoubleFree(a)
  PROVE  HeapInv'
<1>1. /\ pc = "idle" /\ pc' = "halted" /\ misused' = TRUE
      /\ UNCHANGED <<free_lists, hdr, live, freed, req, order, o, block>>
  BY DoubleFreeHalts
<1>2. Control' /\ Headers' /\ Pairs'
  BY <1>1 DEF HeapInv, Control, Headers, Pairs
<1>3. Owners' /\ GivenBack'
  BY <1>1 DEF HeapInv, Owners, OwnerKnown, GivenBack
<1>4. Blocks' = Blocks
  BY <1>1 DEF Blocks, FreeBlocks, Linked, TakenBlocks, InHand
<1> QED
  BY <1>2, <1>3, <1>4 DEF HeapInv

\* In coalesce the buddy's header is that of a block, and when it says that the
\* buddy is free and as large, the buddy is on its list (heap.c:115-121).
LEMMA BuddyKnown ==
  ASSUME HeapInv, pc = "coalesce", hdr[block].order < MAX_BLOCK_SHIFT
  PROVE  /\ \E x \in Blocks : x[1] = Buddy
         /\ hdr[Buddy].free /\ hdr[Buddy].order = hdr[block].order =>
              /\ Holds(free_lists[hdr[block].order], Buddy)
              /\ <<Buddy, hdr[block].order>> \in Blocks
<1> DEFINE k == hdr[block].order
<1>1. <<block, k>> \in Blocks /\ hdr[block].free
  BY BlockKnown DEF HeapInv, Headers
<1>2. Fits(block, k) /\ k \in Order
  BY <1>1 DEF HeapInv, Tiles, Fits
<1>3. PICK x \in Blocks : x[1] = Buddy /\ x[2] <= k
  BY <1>1, BuddyIsHead DEF HeapInv, Buddy
<1>4. Buddy # block
  BY <1>2, BlockFacts DEF Buddy, buddy_of
<1>5. ASSUME hdr[Buddy].free, hdr[Buddy].order = k
      PROVE  Holds(free_lists[k], Buddy) /\ <<Buddy, k>> \in Blocks
  <2>1. x = <<Buddy, k>>
    BY <1>3, <1>5, BlockKnown
  <2>2. x \notin TakenBlocks
    <3> SUFFICES ASSUME NEW a \in live, x = <<a.block, hdr[a.block].order>> PROVE FALSE
      BY DEF TakenBlocks
    <3>1. ~hdr[a.block].free
      BY DEF HeapInv, Owners, OwnerKnown
    <3> QED
      BY <1>5, <2>1, <3>1
  <2>3. x \notin InHand
    BY <1>4, <2>1 DEF InHand
  <2>4. x \in FreeBlocks
    BY <2>2, <2>3 DEF Blocks
  <2> QED
    BY <2>1, <2>4 DEF FreeBlocks, Linked, Holds
<1> QED
  BY <1>3, <1>5

\* A block and its buddy are merged (heap.c:115-129).
LEMMA CoalesceInv ==
  ASSUME HeapInv, Coalesce
  PROVE  HeapInv'
<1> DEFINE k == hdr[block].order
           g == Buddy
           b == IF block > g THEN g ELSE block
           lists == remove_free_block(free_lists, g, k)
<1>1. /\ pc = "coalesce" /\ k < MAX_BLOCK_SHIFT /\ hdr[g].free /\ hdr[g].order = k
      /\ hdr[block].free /\ <<block, k>> \in Blocks /\ Fits(block, k) /\ k \in Order
      /\ block \in BlockAddr
      /\ \A i \in Order : ~Holds(free_lists[i], block)
  BY BlockKnown DEF HeapInv, Headers, Tiles, Fits, Coalesce, MergesWithBuddy
<1>2. Holds(free_lists[k], g) /\ <<g, k>> \in Blocks /\ g \in BlockAddr
  BY <1>1, BuddyKnown, BlockKnown
<1>3. Linked(g, k)
  BY <1>2 DEF Linked, Holds
<1>4. /\ free_lists' = lists /\ block' = b
      /\ hdr' = [hdr EXCEPT ![b].order = k + 1, ![b].free = TRUE]
      /\ UNCHANGED <<live, freed, misused, pc, req, order, o>>
  BY <1>3 DEF Coalesce, userVars
<1>5. /\ block \in Nat /\ 2^k \in Nat \ {0} /\ k \in 0 .. MAX_BLOCK_SHIFT /\ k \in Nat
      /\ IsMultiple(block, 2^k) /\ Order \subseteq Nat
  BY <1>1, Powers, BlockFacts DEF Order
<1>6. PICK p \in Nat : IsMultiple(p, 2^(k + 1)) /\ (block = p \/ block = p + 2^k)
  BY <1>5, HasPair
<1>7. buddy_of(p, k) = p + 2^k /\ buddy_of(p + 2^k, k) = p
  BY <1>5, <1>6, BuddiesArePair
<1>8. g = buddy_of(block, k)
  BY DEF Buddy
<1>9. b = p /\ {block, g} = {p, p + 2^k} /\ g # block
  BY <1>5, <1>6, <1>7, <1>8
<1>10. b \in BlockAddr /\ (b = block \/ b = g)
  BY <1>1, <1>2
<1> HIDE DEF k, g, b, lists
<1>11. /\ ListsOK(lists)
       /\ \A i \in Order : \A x : Holds(lists[i], x) <=> Holds(free_lists[i], x) /\ ~(i = k /\ x = g)
  BY <1>1, <1>2, RemoveBlock DEF HeapInv, Headers, lists
<1>12. \A i \in Order : Holds(free_lists[i], g) => i = k
  BY <1>1, BlockKnown
<1>13. \A i \in Order : ~Holds(lists[i], b) /\ ~Holds(lists[i], block)
  BY <1>1, <1>10, <1>11, <1>12
<1>14. /\ hdr' \in [BlockAddr -> Header]
       /\ hdr'[b].order = k + 1 /\ hdr'[b].free /\ hdr'[b].self = hdr[b].self
       /\ \A x \in BlockAddr : x # b => hdr'[x] = hdr[x]
  <2> DEFINE h == [hdr EXCEPT ![b].order = k + 1, ![b].free = TRUE]
  <2>1. hdr \in [BlockAddr -> Header] /\ k + 1 \in Nat
    BY <1>5 DEF HeapInv, Headers
  <2>2. /\ h \in [BlockAddr -> Header]
        /\ h[b].order = k + 1 /\ h[b].free /\ h[b].self = hdr[b].self
        /\ \A x \in BlockAddr : x # b => h[x] = hdr[x]
    BY <1>10, <2>1, HeaderWritten, Zenon
  <2>3. hdr' = h
    BY <1>4
  <2> HIDE DEF h
  <2> QED
    BY <2>2, <2>3
<1>15. \A a \in live : a.block \in BlockAddr /\ a.block # block /\ a.block # g /\ a.block # b
  BY <1>1, <1>10 DEF HeapInv, Owners, OwnerKnown
<1>16. Control'
  BY <1>1, <1>4, <1>10 DEF HeapInv, Control
<1>17. Headers'
  <2>1. \A i \in Order : \A x : Holds(lists[i], x) => hdr'[x].free /\ hdr'[x].order = i
    <3> SUFFICES ASSUME NEW i \in Order, NEW x, Holds(lists[i], x)
                 PROVE  hdr'[x].free /\ hdr'[x].order = i
      OBVIOUS
    <3>1. Holds(free_lists[i], x) /\ x # b
      BY <1>11, <1>13
    <3>2. x \in BlockAddr /\ hdr[x].free /\ hdr[x].order = i
      BY <3>1, BlockKnown
    <3> QED
      BY <1>14, <3>1, <3>2
  <2> QED
    BY <1>4, <1>11, <1>13, <1>14, <2>1 DEF Headers
<1>18. Owners'
  <2>1. \A a \in live : hdr'[a.block] = hdr[a.block]
    BY <1>14, <1>15
  <2> QED
    BY <1>4, <2>1 DEF HeapInv, Owners, OwnerKnown
<1>19. GivenBack'
  <2> SUFFICES ASSUME NEW f \in freed
               PROVE  /\ f.block \in BlockAddr /\ f.ptr \in HeapBytes /\ hdr'[f.block].free
                      /\ hdr'[f.block].self \in {0, f.block}
    BY <1>4 DEF GivenBack
  <2>1. /\ f.block \in BlockAddr /\ f.ptr \in HeapBytes /\ hdr[f.block].free
        /\ hdr[f.block].self \in {0, f.block}
    BY DEF HeapInv, GivenBack
  <2> QED
    BY <1>14, <2>1
<1>20. Pairs'
  <2> SUFFICES ASSUME NEW i \in Order, NEW q \in Nat, i < MAX_BLOCK_SHIFT,
                      IsMultiple(q, 2^(i + 1)), Holds(lists[i], q), Holds(lists[i], q + 2^i)
               PROVE  FALSE
    BY <1>4 DEF Pairs
  <2>1. Holds(free_lists[i], q) /\ Holds(free_lists[i], q + 2^i)
    BY <1>11
  <2> QED
    BY <1>1, <2>1 DEF HeapInv, Pairs
<1>21. Tiles(Blocks')
  <2>1. <<p, k>> \in Blocks /\ <<p + 2^k, k>> \in Blocks
    BY <1>1, <1>2, <1>9
  <2>2. Tiles((Blocks \ {<<p, k>>, <<p + 2^k, k>>}) \cup {<<p, k + 1>>})
    BY <1>1, <1>6, <2>1, MergeTiles DEF HeapInv
  <2>3. {<<p, k>>, <<p + 2^k, k>>} = {<<block, k>>, <<g, k>>}
    BY <1>9
  <2>4. TakenBlocks' = TakenBlocks
    BY <1>4, <1>14, <1>15 DEF TakenBlocks
  <2>5. InHand = {<<block, k>>} /\ InHand' = {<<p, k + 1>>}
    BY <1>1, <1>4, <1>9, <1>14 DEF InHand, k
  <2>6. FreeBlocks' = FreeBlocks \ {<<g, k>>}
    <3>1. FreeBlocks = {x \in BlockAddr \X Order : Holds(free_lists[x[2]], x[1])}
      BY DEF FreeBlocks, Linked, Holds
    <3>2. FreeBlocks' = {x \in BlockAddr \X Order : Holds(lists[x[2]], x[1])}
      BY <1>4 DEF FreeBlocks, Linked, Holds
    <3> QED
      BY <1>11, <3>1, <3>2
  <2>7. <<block, k>> \notin FreeBlocks
    BY <1>1 DEF FreeBlocks, Linked, Holds
  <2>8. <<block, k>> \notin TakenBlocks /\ <<g, k>> \notin TakenBlocks
    BY <1>15 DEF TakenBlocks
  <2>9. Blocks' = (Blocks \ {<<block, k>>, <<g, k>>}) \cup {<<p, k + 1>>}
    BY <1>9, <2>4, <2>5, <2>6, <2>7, <2>8 DEF Blocks
  <2> QED
    BY <2>2, <2>3, <2>9
<1> QED
  BY <1>16, <1>17, <1>18, <1>19, <1>20, <1>21 DEF HeapInv

\* A block whose buddy cannot be merged goes to its list (heap.c:210-211).
LEMMA ReleaseInv ==
  ASSUME HeapInv, Release
  PROVE  HeapInv'
<1> DEFINE b == block
           k == hdr[b].order
           lists == insert_free_block(free_lists, b, k)
<1>1. /\ pc = "coalesce" /\ ~MergesWithBuddy
      /\ hdr[b].free /\ hdr[b].order = k /\ <<b, k>> \in Blocks /\ Fits(b, k) /\ k \in Order
      /\ b \in BlockAddr
      /\ \A i \in Order : ~Holds(free_lists[i], b)
  BY BlockKnown DEF HeapInv, Headers, Tiles, Fits, Release
<1>2. /\ free_lists' = lists
      /\ UNCHANGED <<hdr, live, freed, misused>>
      /\ pc' = "idle" /\ order' = MAX_BLOCK_SHIFT /\ o' = MAX_BLOCK_SHIFT /\ block' = HEAP_START
  BY DEF Release, Returned, userVars
<1>3. ~(k < MAX_BLOCK_SHIFT /\ hdr[buddy_of(b, k)].free /\ hdr[buddy_of(b, k)].order = k)
  BY <1>1 DEF MergesWithBuddy, Buddy
<1>4. /\ b \in Nat /\ 2^k \in Nat \ {0} /\ k \in 0 .. MAX_BLOCK_SHIFT
  BY <1>1, BlockFacts
<1> HIDE DEF b, k, lists
<1>5. /\ ListsOK(lists)
      /\ \A i \in Order : \A x : Holds(lists[i], x) <=> Holds(free_lists[i], x) \/ (i = k /\ x = b)
  <2>1. ListsOK(free_lists) /\ k \in Order /\ b \in BlockAddr /\ ~Holds(free_lists[k], b)
    BY <1>1 DEF HeapInv, Headers
  <2> QED
    BY <2>1, InsertBlock, Zenon DEF lists
<1>6. \A i \in Order : \A x : Holds(lists[i], x) => hdr[x].free /\ hdr[x].order = i
  <2> SUFFICES ASSUME NEW i \in Order, NEW x, Holds(lists[i], x)
               PROVE  hdr[x].free /\ hdr[x].order = i
    OBVIOUS
  <2>1. CASE Holds(free_lists[i], x)
    BY <2>1, BlockKnown
  <2>2. CASE i = k /\ x = b
    BY <1>1, <2>2
  <2> QED
    BY <1>5, <2>1, <2>2
<1>7. Control'
  <2>1. MAX_BLOCK_SHIFT \in Order /\ HEAP_START \in BlockAddr
    <3>1. MAX_BLOCK_SHIFT \in Order /\ MIN_BLOCK_SHIFT \in Order
      BY Powers DEF Order
    <3> QED
      BY <3>1, HeapGrid
  <2>2. misused = FALSE
    BY <1>1 DEF HeapInv, Control
  <2> QED
    BY <1>2, <2>1, <2>2 DEF Control
<1>8. Headers'
  <2>1. \A i \in Order : \A x : Holds(lists[i], x) => hdr[x].free /\ hdr[x].order = i
    BY <1>6
  <2> QED
    BY <1>2, <1>5, <2>1 DEF HeapInv, Headers
<1>9. Owners' /\ GivenBack'
  BY <1>2 DEF HeapInv, Owners, OwnerKnown, GivenBack
<1>10. Pairs'
  <2> SUFFICES ASSUME NEW i \in Order, NEW p \in Nat, i < MAX_BLOCK_SHIFT,
                      IsMultiple(p, 2^(i + 1)), Holds(lists[i], p), Holds(lists[i], p + 2^i)
               PROVE  FALSE
    BY <1>2 DEF Pairs
  <2>1. ~(Holds(free_lists[i], p) /\ Holds(free_lists[i], p + 2^i))
    BY <1>1 DEF HeapInv, Pairs
  <2>2. i = k /\ (p = b \/ p + 2^i = b)
    BY <1>5, <2>1
  <2>3. buddy_of(p, k) = p + 2^k /\ buddy_of(p + 2^k, k) = p
    BY <1>4, <2>2, BuddiesArePair
  <2>4. \A x : Holds(lists[i], x) => hdr[x].free /\ hdr[x].order = i
    BY <1>6
  <2> QED
    BY <1>3, <2>2, <2>3, <2>4
<1>11. Blocks' = Blocks
  <2>1. InHand = {<<b, k>>} /\ InHand' = {}
    BY <1>1, <1>2 DEF InHand, b, k
  <2>2. TakenBlocks' = TakenBlocks
    BY <1>2 DEF TakenBlocks
  <2>3. FreeBlocks' = FreeBlocks \cup {<<b, k>>}
    <3>1. FreeBlocks = {x \in BlockAddr \X Order : Holds(free_lists[x[2]], x[1])}
      BY DEF FreeBlocks, Linked, Holds
    <3>2. FreeBlocks' = {x \in BlockAddr \X Order : Holds(lists[x[2]], x[1])}
      BY <1>2 DEF FreeBlocks, Linked, Holds
    <3> QED
      BY <1>1, <1>5, <3>1, <3>2
  <2> QED
    BY <2>1, <2>2, <2>3 DEF Blocks
<1> QED
  BY <1>7, <1>8, <1>9, <1>10, <1>11 DEF HeapInv

-----------------------------------------------------------------------------
(* The heap: what follows of its behaviours.                               *)

\* Every step keeps the invariant (heap.c:95-281).
LEMMA HeapStep ==
  ASSUME HeapInv, [HeapNext]_heapVars
  PROVE  HeapInv'
<1>1. CASE UNCHANGED heapVars
  <2>1. UNCHANGED <<free_lists, hdr, live, freed, pc, req, order, o, block, misused>>
    BY <1>1 DEF heapVars, listVars, userVars, locals
  <2>2. Control' /\ Headers' /\ Pairs'
    BY <2>1 DEF HeapInv, Control, Headers, Pairs, SizeRefused, TotalRefused, RawSize,
       Total, Rounded, OrderFor
  <2>3. Owners' /\ GivenBack'
    BY <2>1 DEF HeapInv, Owners, OwnerKnown, GivenBack
  <2>4. Blocks' = Blocks
    BY <2>1 DEF Blocks, FreeBlocks, Linked, TakenBlocks, InHand
  <2> QED
    BY <2>2, <2>3, <2>4 DEF HeapInv
<1>2. ASSUME NEW r \in Request, AllocFails(r) PROVE UNCHANGED heapVars
  BY <1>2 DEF AllocFails
<1>3. ASSUME NEW r \in Request, AllocBegin(r) PROVE HeapInv'
  BY <1>3, AllocBeginInv
<1>4. CASE Split
  BY <1>4, SplitInv
<1>5. CASE Take
  BY <1>5, TakeInv
<1>6. ASSUME NEW a \in live, FreeBegin(a) PROVE HeapInv'
  BY <1>6, FreeBeginInv
<1>7. ASSUME NEW a \in freed, DoubleFree(a) PROVE HeapInv'
  BY <1>7, DoubleFreeInv
<1>8. CASE Coalesce
  BY <1>8, CoalesceInv
<1>9. CASE Release
  BY <1>9, ReleaseInv
<1> QED
  BY <1>1, <1>2, <1>3, <1>4, <1>5, <1>6, <1>7, <1>8, <1>9 DEF HeapNext

\* So it always holds.
LEMMA HeapInvAlways == HeapSpec => []HeapInv
<1>1. HeapInit => HeapInv
  BY HeapBegins
<1>2. HeapInv /\ [HeapNext]_heapVars => HeapInv'
  BY HeapStep
<1> QED
  BY <1>1, <1>2, PTL DEF HeapSpec

\* Covering once, said of sets of addresses.
LEMMA TilesCoverOnce ==
  ASSUME HeapInv
  PROVE  EveryAddressOnce
<1>1. \A c \in BlockAddr : c \in Nat
  BY HeapGrid
<1>2. \A x \in Blocks : \A c : c \in Extent(x[1], x[2]) <=> c \in BlockAddr /\ Covers(x, c)
  BY DEF Extent, Covers
<1>3. UNION {Extent(x[1], x[2]) : x \in Blocks} = BlockAddr
  <2>1. \A c \in BlockAddr : \E x \in Blocks : c \in Extent(x[1], x[2])
    BY <1>2 DEF HeapInv, Tiles
  <2>2. \A x \in Blocks : Extent(x[1], x[2]) \subseteq BlockAddr
    BY <1>2
  <2> QED
    BY <2>1, <2>2
<1>4. ASSUME NEW x \in Blocks, NEW y \in Blocks, x # y
      PROVE  Extent(x[1], x[2]) \cap Extent(y[1], y[2]) = {}
  <2>1. Apart(x, y) /\ Fits(x[1], x[2]) /\ Fits(y[1], y[2])
    BY <1>4 DEF HeapInv, Tiles
  <2>2. x[1] \in Nat /\ y[1] \in Nat /\ 2^x[2] \in Nat /\ 2^y[2] \in Nat
    BY <2>1, BlockFacts
  <2>3. ASSUME NEW c \in BlockAddr, Covers(x, c), Covers(y, c) PROVE FALSE
    BY <1>1, <2>1, <2>2, <2>3 DEF Apart, Covers
  <2> QED
    BY <1>2, <2>3
<1> QED
  BY <1>3, <1>4 DEF EveryAddressOnce

\* There are as many blocks handed out as owners.
LEMMA OwnersCounted ==
  ASSUME HeapInv
  PROVE  Cardinality(TakenBlocks) = Cardinality(live)
<1> DEFINE f == [a \in live |-> <<a.block, hdr[a.block].order>>]
<1>1. IsFiniteSet(live) /\ \A a, b \in live : a.block = b.block => a = b
  BY DEF HeapInv, Owners
<1>2. f \in [live -> TakenBlocks] /\ \A a \in live : f[a] = <<a.block, hdr[a.block].order>>
  BY DEF TakenBlocks
<1>3. \A x \in TakenBlocks : \E a \in live : x = <<a.block, hdr[a.block].order>>
  BY DEF TakenBlocks
<1> HIDE DEF f
<1>4. f \in Surjection(live, TakenBlocks)
  BY <1>2, <1>3 DEF Surjection
<1>5. \A a, b \in live : f[a] = f[b] => a = b
  <2> SUFFICES ASSUME NEW a \in live, NEW b \in live, f[a] = f[b] PROVE a = b
    OBVIOUS
  <2>1. a.block = b.block
    BY <1>2
  <2> QED
    BY <1>1, <2>1
<1>6. f \in Injection(live, TakenBlocks)
  BY <1>2, <1>5 DEF Injection, IsInjective
<1> QED
  BY <1>1, <1>4, <1>6, FS_Surjection

\* The blocks tile the heap in every behaviour, and lists, owners and headers agree
\* on which there are (heap.c:95-212).
THEOREM TilingHolds == HeapSpec => []BlocksTileHeap
<1>1. HeapInv => BlocksTileHeap
  <2> SUFFICES ASSUME HeapInv PROVE BlocksTileHeap
    OBVIOUS
  <2>1. HeapTypeOK
    <3>1. \A a \in live : a.block \in BlockAddr /\ a.ptr \in HeapBytes
      <4> SUFFICES ASSUME NEW a \in live PROVE a.block \in BlockAddr /\ a.ptr \in HeapBytes
        OBVIOUS
      <4>1. OwnerKnown(a)
        BY DEF HeapInv, Owners
      <4>2. Fits(a.block, hdr[a.block].order)
        BY BlockKnown DEF HeapInv, Tiles
      <4>3. HEAP_START <= a.block /\ a.block + 2^hdr[a.block].order <= HEAP_START + HEAP_START
            /\ a.block \in Nat /\ 2^hdr[a.block].order \in Nat
            /\ HEAP_START \in Nat /\ 2^MAX_BLOCK_SHIFT = HEAP_START
        BY <4>2, BlockFacts, HeapGrid
      <4>4. /\ a.ptr \in Nat /\ a.size \in Nat \ {0} /\ a.block < a.ptr
            /\ a.ptr + a.size <= a.block + 2^hdr[a.block].order
        BY <4>1 DEF OwnerKnown
      <4>5. a.ptr \in HeapBytes
        BY <4>3, <4>4 DEF HeapBytes
      <4> QED
        BY <4>1, <4>5 DEF OwnerKnown
    <3>2. \A a \in freed : a.block \in BlockAddr /\ a.ptr \in HeapBytes
      BY DEF HeapInv, GivenBack
    <3> QED
      BY <3>1, <3>2 DEF HeapInv, Control, Headers, ListsOK, HeapTypeOK
  <2>2. EveryAddressOnce
    BY TilesCoverOnce
  <2>3. EveryBlockOnce
    <3>1. \A k \in Order : \A i, j \in DOMAIN free_lists[k] :
            i # j => free_lists[k][i] # free_lists[k][j]
      BY DEF HeapInv, Headers, ListsOK, Once
    <3>2. \A x \in FreeBlocks : hdr[x[1]].free /\ x[2] \in Order /\ Holds(free_lists[x[2]], x[1])
      BY DEF HeapInv, Headers, FreeBlocks, Linked, Holds
    <3>3. \A x \in TakenBlocks : ~hdr[x[1]].free
      BY DEF HeapInv, Owners, OwnerKnown, TakenBlocks
    <3>4. \A x \in InHand : hdr[x[1]].free /\ \A k \in Order : ~Holds(free_lists[k], x[1])
      BY DEF HeapInv, Headers, InHand
    <3>5. FreeBlocks \cap TakenBlocks = {} /\ InHand \cap (FreeBlocks \cup TakenBlocks) = {}
      BY <3>2, <3>3, <3>4
    <3> QED
      BY <3>1, <3>5, OwnersCounted DEF EveryBlockOnce
  <2>4. HeadersTellTruth
    <3>1. \A x \in FreeBlocks : hdr[x[1]].free /\ hdr[x[1]].order = x[2]
      BY DEF HeapInv, Headers, FreeBlocks, Linked, Holds
    <3> QED
      BY <3>1, OwnersWord DEF HeadersTellTruth
  <2> QED
    BY <2>1, <2>2, <2>3, <2>4 DEF BlocksTileHeap
<1> QED
  BY <1>1, HeapInvAlways, PTL

\* Coalesce reads only headers of blocks there are, so that what an owner wrote is
\* never taken for one (heap.c:116-118).
THEOREM HeaderRead == HeapSpec => []CoalesceReadsHeader
<1>1. HeapInv => CoalesceReadsHeader
  BY BuddyKnown DEF CoalesceReadsHeader
<1> QED
  BY <1>1, HeapInvAlways, PTL

\* Only a double free stops the machine: no owner's free does, and no buddy is
\* missing from its list (heap.c:153-156 and 203-207).
THEOREM HaltsRightly == HeapSpec => []HaltsOnlyOnMisuse
<1>1. HeapInv => HaltsOnlyOnMisuse
  BY DEF HeapInv, Control, HaltsOnlyOnMisuse
<1> QED
  BY <1>1, HeapInvAlways, PTL

\* And a double free of what was not handed out since always does
\* (heap.c:200-207).
THEOREM DoubleFreesCaught == HeapSpec => DoubleFreeCaught
<1> DEFINE Caught == misused' /\ ~misused => pc' = "halted" /\ UNCHANGED listVars
<1>1. HeapInv /\ [HeapNext]_heapVars => [Caught]_heapVars
  <2> SUFFICES ASSUME HeapInv, HeapNext PROVE Caught
    OBVIOUS
  <2>1. ASSUME NEW a \in freed, DoubleFree(a) PROVE Caught
    BY <2>1, DoubleFreeHalts DEF listVars
  <2>2. ASSUME ~ \E a \in freed : DoubleFree(a) PROVE misused' = misused
    BY <2>2 DEF HeapNext, AllocFails, AllocBegin, Split, Take, FreeBegin, Coalesce, Release,
       heapVars, userVars, listVars
  <2> QED
    BY <2>1, <2>2
<1> QED
  BY <1>1, HeapInvAlways, PTL DEF HeapSpec, DoubleFreeCaught

\* When no list from an order on has a block, something handed out lies in every
\* aligned region of that size (heap.c:175-180): the smallest free block of a
\* region without would have a free buddy of its own size.
THEOREM RoomIsFound == HeapSpec => []FailsOnlyWithoutRoom
<1>1. ASSUME HeapInv, pc = "idle", NEW k \in Order, NEW b \in BlockAddr,
             (b - HEAP_START) % 2^k = 0,
             \A x \in TakenBlocks : Extent(b, k) \cap Extent(x[1], x[2]) = {},
             Candidates(k) = {}
      PROVE  FALSE
  <2> DEFINE In(c) == b <= c /\ c < b + 2^k
  <2>1. /\ k \in Nat /\ k <= MAX_BLOCK_SHIFT /\ MAX_BLOCK_SHIFT \in Nat
        /\ Order \subseteq 0 .. MAX_BLOCK_SHIFT /\ Order \subseteq Nat
        /\ 2^k \in Nat \ {0} /\ b \in Nat /\ HEAP_START <= b /\ HEAP_START \in Nat
        /\ \A c \in BlockAddr : c \in Nat
    BY Powers, HeapGrid DEF Order
  <2>2. IsMultiple(b, 2^k)
    <3>1. b - HEAP_START \in Nat
      BY <2>1
    <3>2. IsMultiple(b - HEAP_START, 2^k)
      BY <1>1, <2>1, <3>1, NoRemainder
    <3>3. IsMultiple(HEAP_START, 2^k)
      BY HeapGrid
    <3>4. IsMultiple((b - HEAP_START) + HEAP_START, 2^k)
      BY <2>1, <3>1, <3>2, <3>3, MultipleSum
    <3>5. (b - HEAP_START) + HEAP_START = b
      BY <2>1
    <3> QED
      BY <3>4, <3>5
  <2>3. \A j \in Order : \A c : Holds(free_lists[j], c) => j < k
    <3> SUFFICES ASSUME NEW j \in Order, NEW c, Holds(free_lists[j], c), k <= j PROVE FALSE
      BY <2>1
    <3>1. free_lists[j] = <<>>
      BY <1>1, <2>1 DEF Candidates
    <3> QED
      BY <3>1 DEF Holds
  <2>4. ASSUME NEW c \in BlockAddr, In(c), NEW x \in Blocks, Covers(x, c)
        PROVE  x[2] \in Order /\ Holds(free_lists[x[2]], x[1])
    <3>1. c \in Extent(b, k) /\ c \in Extent(x[1], x[2])
      BY <2>4 DEF Extent, Covers
    <3>2. x \notin TakenBlocks
      BY <1>1, <3>1
    <3>3. x \in FreeBlocks
      BY <1>1, <3>2 DEF Blocks, InHand
    <3> QED
      BY <3>3 DEF FreeBlocks, Linked, Holds
  <2> DEFINE N == {j \in Order : \E c : In(c) /\ Holds(free_lists[j], c)}
  <2>5. N # {}
    <3>1. In(b)
      BY <2>1
    <3>2. PICK y \in Blocks : Covers(y, b)
      BY <1>1 DEF HeapInv, Tiles
    <3>3. y[2] \in Order /\ Holds(free_lists[y[2]], y[1])
      BY <2>4, <3>1, <3>2
    <3>4. y[2] < k /\ y[2] \in Nat
      BY <2>1, <2>3, <3>3
    <3>5. Fits(y[1], y[2])
      BY <1>1 DEF HeapInv, Tiles
    <3>6. y[1] \in Nat /\ 2^y[2] \in Nat \ {0} /\ IsMultiple(y[1], 2^y[2])
      BY <3>5, BlockFacts
    <3>7. IsMultiple(2^k, 2^y[2])
      BY <2>1, <3>4, Dyadic
    <3>8. IsMultiple(b, 2^y[2])
      BY <2>1, <2>2, <3>6, <3>7, MultipleOfMultiple
    <3>9. y[1] < b => y[1] + 2^y[2] <= b
      BY <2>1, <3>6, <3>8, Grid
    <3>10. y[1] = b
      BY <2>1, <3>2, <3>6, <3>9 DEF Covers
    <3> QED
      BY <3>1, <3>3, <3>10
  <2>6. PICK j \in N : \A i \in N : j <= i
    <3>1. N \in SUBSET Nat
      BY <2>1
    <3> HIDE DEF N
    <3> QED
      BY <2>5, <3>1, LeastNatural
  <2>7. PICK c : In(c) /\ Holds(free_lists[j], c)
    OBVIOUS
  <2>8. j \in Order /\ j \in Nat /\ j < k /\ j < MAX_BLOCK_SHIFT /\ j \in 0 .. MAX_BLOCK_SHIFT
    BY <2>1, <2>3, <2>7
  <2>9. <<c, j>> \in Blocks /\ c \in BlockAddr
    BY <1>1, <2>7, <2>8, BlockKnown
  <2>10. Fits(c, j)
    BY <1>1, <2>9 DEF HeapInv, Tiles
  <2>11. c \in Nat /\ 2^j \in Nat \ {0} /\ IsMultiple(c, 2^j)
    BY <2>10, BlockFacts
  <2>12. PICK p \in Nat : IsMultiple(p, 2^(j + 1)) /\ (c = p \/ c = p + 2^j)
    BY <2>8, <2>11, HasPair
  <2>13. buddy_of(p, j) = p + 2^j /\ buddy_of(p + 2^j, j) = p /\ 2^(j + 1) = 2^j + 2^j
    BY <2>8, <2>12, BuddiesArePair, Powers
  <2>14. PICK x \in Blocks : x[1] = buddy_of(c, j) /\ x[2] <= j
    BY <1>1, <2>8, <2>9, BuddyIsHead DEF HeapInv
  <2>15. In(p) /\ In(p + 2^j)
    <3>1. IsMultiple(2^k, 2^(j + 1)) /\ 2^(j + 1) \in Nat \ {0}
      BY <2>1, <2>8, <2>11, <2>13, Dyadic
    <3>2. IsMultiple(b, 2^(j + 1))
      BY <2>1, <2>2, <3>1, MultipleOfMultiple
    <3>3. IsMultiple(b + 2^k, 2^(j + 1)) /\ b + 2^k \in Nat
      BY <2>1, <3>1, <3>2, MultipleSum
    <3>4. p < b => p + 2^(j + 1) <= b
      BY <2>1, <2>12, <3>1, <3>2, Grid
    <3>5. p < b + 2^k => p + 2^(j + 1) <= b + 2^k
      BY <2>1, <2>12, <3>1, <3>3, Grid
    <3> QED
      BY <2>1, <2>7, <2>11, <2>12, <2>13, <3>4, <3>5
  <2>16. x[1] \in BlockAddr /\ In(x[1]) /\ Covers(x, x[1])
    <3>1. Fits(x[1], x[2])
      BY <1>1 DEF HeapInv, Tiles
    <3>2. x[1] \in BlockAddr /\ x[1] \in Nat /\ 2^x[2] \in Nat \ {0}
      BY <3>1, BlockFacts DEF Fits
    <3>3. In(x[1])
      BY <2>12, <2>13, <2>14, <2>15
    <3> QED
      BY <3>2, <3>3 DEF Covers
  <2>17. x[2] \in N /\ Holds(free_lists[x[2]], x[1])
    BY <2>4, <2>16
  <2>18. x[2] = j
    <3>1. x[2] \in Nat
      BY <2>1, <2>17
    <3> QED
      BY <2>6, <2>8, <2>14, <2>17, <3>1
  <2>19. Holds(free_lists[j], p) /\ Holds(free_lists[j], p + 2^j)
    BY <2>7, <2>12, <2>13, <2>14, <2>17, <2>18
  <2> QED
    BY <1>1, <2>8, <2>12, <2>19 DEF HeapInv, Pairs
<1>2. HeapInv => FailsOnlyWithoutRoom
  BY <1>1 DEF FailsOnlyWithoutRoom
<1> QED
  BY <1>2, HeapInvAlways, PTL

\* The bytes of two owners whose blocks differ are apart.
LEMMA RangesApart ==
  ASSUME NEW B, Tiles(B), NEW a, NEW x, NEW j, NEW k,
         <<a.block, j>> \in B, <<x.block, k>> \in B, a.block # x.block,
         a.ptr \in Nat, x.ptr \in Nat, a.size \in Nat, x.size \in Nat,
         a.block < a.ptr, a.ptr + a.size <= a.block + 2^j,
         x.block < x.ptr, x.ptr + x.size <= x.block + 2^k
  PROVE  a.ptr + a.size <= x.ptr \/ x.ptr + x.size <= a.ptr
<1>1. Apart(<<a.block, j>>, <<x.block, k>>) /\ Fits(a.block, j) /\ Fits(x.block, k)
  BY DEF Tiles
<1>2. a.block \in Nat /\ x.block \in Nat /\ 2^j \in Nat /\ 2^k \in Nat
  BY <1>1, BlockFacts
<1> QED
  BY <1>1, <1>2 DEF Apart

\* What an owner sees of an allocation, and all of it.
Own(a) == [ptr |-> a.ptr, size |-> a.size, align |-> a.align]
Owned  == {Own(a) : a \in live}

\* Handing a block out is an allocation (heap.c:159-194).
LEMMA TakeAllocates ==
  ASSUME HeapInv, HeapInv', Take
  PROVE  \E r \in Owned' \ Owned : Abstract!Allocate(r)
<1> DEFINE b == Head(free_lists[order])
           n == [ptr |-> Pointer(req, b), size |-> req.size,
                 align |-> Promised(req), block |-> b]
<1>1. live' = live \cup {n}
  BY DEF Take
<1>2. n.block = b
  OBVIOUS
<1>3. b \in BlockAddr /\ \A x \in live : x.block # b
  <2>1. /\ pc = "split" /\ order = o
    BY DEF Take
  <2>2. b \in BlockAddr /\ Fits(b, o) /\ \A x \in live : ~(b <= x.block /\ x.block < b + 2^o)
    BY <2>1, Chosen
  <2>3. b \in Nat /\ 2^o \in Nat \ {0}
    BY <2>2, BlockFacts
  <2> QED
    BY <2>2, <2>3
<1> HIDE DEF b, n
<1> PICK w : w = n
  OBVIOUS
<1>4. live' = live \cup {w} /\ \A x \in live : x.block # w.block
  BY <1>1, <1>2, <1>3
<1>5. \A x \in live' : OwnerKnown(x)' /\ <<x.block, hdr'[x.block].order>> \in Blocks'
  BY DEF HeapInv, Owners, Blocks, TakenBlocks
<1>6. \A x \in live' : /\ x.ptr \in Nat /\ x.size \in Nat \ {0} /\ x.block < x.ptr
                        /\ x.ptr + x.size <= x.block + 2^hdr'[x.block].order
                        /\ x.ptr % x.align = 0
  BY <1>5 DEF OwnerKnown
<1>7. ASSUME NEW x \in live PROVE w.ptr + w.size <= x.ptr \/ x.ptr + x.size <= w.ptr
  <2>1. x \in live' /\ w \in live' /\ w.block # x.block
    BY <1>4
  <2>2. w.size \in Nat /\ x.size \in Nat
    BY <1>6, <2>1
  <2>3. Tiles(Blocks')
    BY DEF HeapInv
  <2> QED
    BY <1>5, <1>6, <2>1, <2>2, <2>3, RangesApart
<1> DEFINE r == Own(w)
<1>8. r.ptr = w.ptr /\ r.size = w.size /\ r.align = w.align
  BY DEF Own
<1>9. Owned' = Owned \cup {r}
  BY <1>4 DEF Owned, Own
<1>10. \A s \in Owned : \E x \in live : s.ptr = x.ptr /\ s.size = x.size
  BY DEF Owned, Own
<1> HIDE DEF r
<1>11. w \in live' /\ w.ptr \in Nat /\ w.size \in Nat \ {0}
  BY <1>4, <1>6
<1>12. \A s \in Owned : Abstract!Bytes(r) \cap Abstract!Bytes(s) = {} /\ s # r
  <2> SUFFICES ASSUME NEW s \in Owned
               PROVE  Abstract!Bytes(r) \cap Abstract!Bytes(s) = {} /\ s # r
    OBVIOUS
  <2>1. PICK x \in live : s.ptr = x.ptr /\ s.size = x.size
    BY <1>10
  <2>2. x.ptr \in Nat /\ x.size \in Nat \ {0}
    BY <1>4, <1>6
  <2> QED
    BY <1>7, <1>8, <1>11, <2>1, <2>2 DEF Abstract!Bytes
<1>13. Abstract!Bytes(r) \subseteq HeapBytes
  <2>1. Fits(w.block, hdr'[w.block].order)
    BY <1>5, <1>11 DEF HeapInv, Tiles
  <2>2. /\ w.block \in Nat /\ HEAP_START <= w.block /\ 2^hdr'[w.block].order \in Nat
        /\ w.block + 2^hdr'[w.block].order <= HEAP_START + HEAP_START
        /\ HEAP_START \in Nat /\ 2^MAX_BLOCK_SHIFT = HEAP_START
    BY <2>1, BlockFacts, HeapGrid
  <2>3. w.block < w.ptr /\ w.ptr + w.size <= w.block + 2^hdr'[w.block].order
    BY <1>6, <1>11
  <2> QED
    BY <1>8, <1>11, <2>2, <2>3 DEF Abstract!Bytes, HeapBytes
<1>14. r.size > 0 /\ r.ptr % r.align = 0
  <2>1. w.ptr % w.align = 0
    BY <1>6, <1>11
  <2> QED
    BY <1>8, <1>11, <2>1
<1>15. Abstract!Allocate(r)
  BY <1>9, <1>12, <1>13, <1>14 DEF Abstract!Allocate, Owned, Own
<1> QED
  BY <1>9, <1>12, <1>15

\* An owner's free gives its range back (heap.c:196-212).
LEMMA FreeReleases ==
  ASSUME HeapInv, NEW a \in live, FreeBegin(a)
  PROVE  Own(a) \in Owned /\ Owned' = Owned \ {Own(a)}
<1>1. live' = live \ {a}
  BY DEF FreeBegin
<1>2. ASSUME NEW x \in live, x # a PROVE Own(x) # Own(a)
  <2>1. /\ OwnerKnown(x) /\ OwnerKnown(a) /\ x.block # a.block
        /\ <<x.block, hdr[x.block].order>> \in Blocks
        /\ <<a.block, hdr[a.block].order>> \in Blocks
    BY <1>2, BlockKnown DEF HeapInv, Owners
  <2>2. /\ x.ptr \in Nat /\ a.ptr \in Nat /\ x.size \in Nat \ {0} /\ a.size \in Nat \ {0}
        /\ x.block < x.ptr /\ x.ptr + x.size <= x.block + 2^hdr[x.block].order
        /\ a.block < a.ptr /\ a.ptr + a.size <= a.block + 2^hdr[a.block].order
    BY <2>1 DEF OwnerKnown
  <2>3. x.size \in Nat /\ a.size \in Nat /\ Tiles(Blocks)
    BY <2>2 DEF HeapInv
  <2>4. a.ptr + a.size <= x.ptr \/ x.ptr + x.size <= a.ptr
    BY <2>1, <2>2, <2>3, RangesApart
  <2>5. x.ptr # a.ptr
    BY <2>2, <2>4
  <2> QED
    BY <2>5 DEF Own
<1> QED
  BY <1>1, <1>2 DEF Owned, Own

\* The buddy allocator is an allocator: the ranges it hands out lie in the heap,
\* are aligned as asked and do not overlap (heap.c:159-281).
THEOREM HeapAllocates == HeapSpec => ImplementsAllocator
<1>1. HeapInit => Abstract!AllocatorInit
  BY DEF HeapInit, Abstract!AllocatorInit
<1>2. HeapInv /\ HeapInv' /\ [HeapNext]_heapVars => [Abstract!AllocatorNext]_Owned
  <2> SUFFICES ASSUME HeapInv, HeapInv', [HeapNext]_heapVars, ~UNCHANGED Owned
               PROVE  Abstract!AllocatorNext
    OBVIOUS
  <2>1. ~UNCHANGED live
    BY DEF Owned, Own
  <2>2. Take \/ \E a \in live : FreeBegin(a)
    <3>1. \A r \in Request : AllocFails(r) \/ AllocBegin(r) => UNCHANGED live
      BY DEF AllocFails, AllocBegin, heapVars, userVars
    <3>2. Split \/ Coalesce \/ Release => UNCHANGED live
      BY DEF Split, Coalesce, Release, userVars
    <3>3. \A a \in freed : DoubleFree(a) => UNCHANGED live
      BY DEF DoubleFree
    <3> QED
      BY <2>1, <3>1, <3>2, <3>3 DEF HeapNext, heapVars, userVars
  <2>3. CASE Take
    BY <2>3, TakeAllocates DEF Abstract!AllocatorNext, Owned, Own
  <2>4. ASSUME NEW a \in live, FreeBegin(a) PROVE Abstract!AllocatorNext
    <3>1. Own(a) \in Owned /\ Owned' = Owned \ {Own(a)}
      BY <2>4, FreeReleases
    <3> QED
      BY <3>1 DEF Abstract!AllocatorNext, Abstract!Release, Owned, Own
  <2> QED
    BY <2>2, <2>3, <2>4
<1> QED
  BY <1>1, <1>2, HeapInvAlways, PTL
     DEF HeapSpec, ImplementsAllocator, Abstract!AllocatorSpec, Owned, Own
=============================================================================
