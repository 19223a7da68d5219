------------------------------ MODULE FoldLemmas ------------------------------
(***************************************************************************)
(* Induction by a set, and folds from the left.  The proofs about texts,   *)
(* paths and printing show a fold to be the last value of a function of    *)
(* the turns taken; what holds after every turn is then shown by induction *)
(* on the set of turns after which it holds.                               *)
(***************************************************************************)
EXTENDS Integers, SequencesExt, WellFoundedInduction, TLAPS

\* A set of naturals that is not empty has a least element.
LEMMA LeastNatural ==
  ASSUME NEW S \in SUBSET Nat, S # {}
  PROVE  \E n \in S : \A i \in S : n <= i
<1>1. PICK n \in S : \A i \in Nat : <<i, n>> \in OpToRel(<, Nat) => i \notin S
  BY NatLessThanWellFounded, WFMin, Zenon
<1>2. ASSUME NEW i \in S PROVE n <= i
  <2>1. i \in Nat /\ n \in Nat
    OBVIOUS
  <2>2. ~(i < n)
    BY <1>1, <2>1, Zenon DEF OpToRel
  <2> QED
    BY <2>1, <2>2
<1> QED
  BY <1>2

\* Induction up to N, for a predicate given as the set where it holds.
LEMMA UpTo ==
  ASSUME NEW N \in Nat, NEW S, 0 \in S, \A n \in 0 .. N - 1 : n \in S => n + 1 \in S
  PROVE  \A n \in 0 .. N : n \in S
<1> DEFINE Missing == {n \in 0 .. N : n \notin S}
<1> SUFFICES ASSUME Missing # {} PROVE FALSE
  OBVIOUS
<1>1. Missing \in SUBSET Nat
  OBVIOUS
<1>2. PICK n \in Missing : \A i \in Missing : n <= i
  <2> HIDE DEF Missing
  <2> QED
    BY <1>1, LeastNatural
<1>3. n # 0 /\ n \in 0 .. N
  OBVIOUS
<1>4. n - 1 \in 0 .. N - 1 /\ n - 1 \in 0 .. N /\ n - 1 < n
  BY <1>3
<1>5. n - 1 \in S
  BY <1>2, <1>4
<1>6. (n - 1) + 1 \in S
  BY <1>4, <1>5
<1>7. (n - 1) + 1 = n
  BY <1>3
<1> QED
  BY <1>6, <1>7

\* The largest of 1 .. n is n.
LEMMA LargestIs ==
  ASSUME NEW n \in Nat, NEW s \in SUBSET (1 .. n), n \in s
  PROVE  Max(s) = n
<1>1. n >= n /\ \A y \in s : n >= y
  OBVIOUS
<1>2. \A x \in s : x \in Nat /\ x <= n
  OBVIOUS
<1>3. \A x : x \in s /\ (\A y \in s : x >= y) => x = n
  BY <1>1, <1>2
<1>4. n \in s /\ (\A y \in s : n >= y)
  BY <1>1
<1> QED
  BY <1>3, <1>4 DEF Max

\* The function a fold from the left is the value of.
FoldsBy(it, N, base, step) ==
  it = [s \in SUBSET (1 .. N) |->
          IF s = {} THEN base ELSE step[<<it[s \ {Max(s)}], Max(s)>>]]

\* There is such a function: the one up to n gives the one up to n + 1.
LEMMA FoldExists ==
  ASSUME NEW N \in Nat, NEW T, NEW base \in T, NEW step \in [T \X (1 .. N) -> T]
  PROVE  \E it \in [SUBSET (1 .. N) -> T] : FoldsBy(it, N, base, step)
<1> DEFINE S == {n \in 0 .. N : \E it \in [SUBSET (1 .. n) -> T] : FoldsBy(it, n, base, step)}
<1>1. 0 \in S
  <2> DEFINE it == [s \in SUBSET (1 .. 0) |-> base]
  <2>1. \A s \in SUBSET (1 .. 0) : s = {}
    OBVIOUS
  <2>2. it = [s \in SUBSET (1 .. 0) |->
               IF s = {} THEN base ELSE step[<<it[s \ {Max(s)}], Max(s)>>]]
    BY <2>1
  <2>3. it \in [SUBSET (1 .. 0) -> T]
    OBVIOUS
  <2>4. FoldsBy(it, 0, base, step)
    BY <2>2, Zenon DEF FoldsBy
  <2>5. \E h \in [SUBSET (1 .. 0) -> T] : FoldsBy(h, 0, base, step)
    <3> HIDE DEF it
    <3> QED
      BY <2>3, <2>4
  <2>6. 0 \in 0 .. N
    OBVIOUS
  <2> QED
    BY <2>5, <2>6
<1>2. ASSUME NEW n \in 0 .. N - 1, n \in S PROVE n + 1 \in S
  <2>1. PICK g \in [SUBSET (1 .. n) -> T] : FoldsBy(g, n, base, step)
    BY <1>2
  <2>2. \A s \in SUBSET (1 .. n + 1) :
          /\ s \ {n + 1} \in SUBSET (1 .. n)
          /\ n + 1 \notin s => s \in SUBSET (1 .. n)
          /\ n + 1 \in s => Max(s) = n + 1 /\ s # {}
    BY LargestIs
  <2>3. \A s \in SUBSET (1 .. n) : s \in SUBSET (1 .. n + 1) /\ n + 1 \notin s
    OBVIOUS
  <2> DEFINE it == [s \in SUBSET (1 .. n + 1) |->
                      IF n + 1 \in s THEN step[<<g[s \ {n + 1}], n + 1>>] ELSE g[s]]
  <2>4. it \in [SUBSET (1 .. n + 1) -> T]
    BY <2>2
  <2>5. ASSUME NEW s \in SUBSET (1 .. n + 1)
        PROVE  it[s] = IF s = {} THEN base ELSE step[<<it[s \ {Max(s)}], Max(s)>>]
    <3>1. CASE n + 1 \in s
      BY <2>2, <2>3, <3>1
    <3>2. CASE n + 1 \notin s
      <4>1. s \in SUBSET (1 .. n) /\ s \ {Max(s)} \in SUBSET (1 .. n) /\ it[s] = g[s]
        BY <2>2, <3>2
      <4>2. it[s \ {Max(s)}] = g[s \ {Max(s)}]
        BY <2>3, <4>1
      <4>3. g[s] = IF s = {} THEN base ELSE step[<<g[s \ {Max(s)}], Max(s)>>]
        BY <2>1, <4>1 DEF FoldsBy
      <4> HIDE DEF it
      <4> QED
        BY <4>1, <4>2, <4>3
    <3> QED
      BY <3>1, <3>2
  <2>6. FoldsBy(it, n + 1, base, step)
    <3> HIDE DEF it
    <3>1. DOMAIN it = SUBSET (1 .. n + 1)
      BY <2>4
    <3> QED
      BY <2>4, <2>5 DEF FoldsBy
  <2>7. n + 1 \in 0 .. N
    OBVIOUS
  <2> QED
    BY <2>4, <2>6, <2>7
<1>3. \A n \in 0 .. N : n \in S
  <2> HIDE DEF S
  <2> QED
    BY <1>1, <1>2, UpTo
<1>4. N \in S
  <2> HIDE DEF S
  <2> QED
    BY <1>3
<1> QED
  BY <1>4

\* The largest number of a set that is not empty is in it.
LEMMA LargestOf ==
  ASSUME NEW N \in Nat, NEW s \in SUBSET (1 .. N), s # {}
  PROVE  Max(s) \in s
<1> DEFINE D == {N - i : i \in s}
<1>1. D \in SUBSET Nat /\ D # {}
  <2>1. \A i \in s : N - i \in Nat
    OBVIOUS
  <2> QED
    BY <2>1
<1>2. PICK d \in D : \A e \in D : d <= e
  <2> HIDE DEF D
  <2> QED
    BY <1>1, LeastNatural
<1>3. PICK m \in s : d = N - m
  OBVIOUS
<1>4. \A i \in s : m >= i
  <2> SUFFICES ASSUME NEW i \in s PROVE m >= i
    OBVIOUS
  <2>1. d <= N - i /\ i \in Nat /\ m \in Nat
    BY <1>2
  <2> QED
    BY <1>3, <2>1
<1> QED
  BY <1>4 DEF Max

\* What a fold meets on its way: the first n elements, the last of them the n-th.
LEMMA FirstN ==
  ASSUME NEW N \in Nat
  PROVE  /\ 1 .. 0 = {} /\ {} \in SUBSET (1 .. N)
         /\ \A n \in 1 .. N : /\ 1 .. n \in SUBSET (1 .. N) /\ 1 .. n # {}
                              /\ Max(1 .. n) = n /\ (1 .. n) \ {n} = 1 .. n - 1
<1>1. 1 .. 0 = {} /\ {} \in SUBSET (1 .. N)
  OBVIOUS
<1>2. ASSUME NEW n \in 1 .. N
      PROVE  /\ 1 .. n \in SUBSET (1 .. N) /\ 1 .. n # {}
             /\ Max(1 .. n) = n /\ (1 .. n) \ {n} = 1 .. n - 1
  <2>1. n \in Nat /\ n \in 1 .. n /\ 1 .. n \in SUBSET (1 .. n)
    OBVIOUS
  <2>2. Max(1 .. n) = n
    BY <2>1, LargestIs
  <2>3. (1 .. n) \ {n} = 1 .. n - 1
    OBVIOUS
  <2> QED
    BY <2>1, <2>2, <2>3
<1> QED
  BY <1>1, <1>2
=============================================================================
