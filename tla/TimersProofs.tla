----------------------------- MODULE TimersProofs -----------------------------
(***************************************************************************)
(* Proofs about Timers for any number of timers, any word size and any     *)
(* delays: the queue holds the active timers, each once, and, as long as   *)
(* the tick counter has not wrapped, every timer fires on its tick.        *)
(***************************************************************************)
EXTENDS Timers, FoldLemmas, SequenceTheorems
-----------------------------------------------------------------------------
(* What the operations on the list do.                                     *)

Members(q)  == {q[i] : i \in DOMAIN q}
Distinct(q) == \A i, j \in DOMAIN q : i # j => q[i] # q[j]
Sorted(q, e) == \A i, j \in DOMAIN q : i < j => e[q[i]] <= e[q[j]]

\* r is q with t put in behind the first k elements.
PutIn(r, q, k, t) ==
  /\ k \in 0 .. Len(q)
  /\ r \in Seq(Timer) /\ Len(r) = Len(q) + 1
  /\ \A i \in 1 .. Len(q) + 1 :
       r[i] = IF i <= k THEN q[i] ELSE IF i = k + 1 THEN t ELSE q[i - 1]

\* r is q without its k-th element.
TakenOut(r, q, k) ==
  /\ k \in 1 .. Len(q)
  /\ r \in Seq(Timer) /\ Len(r) = Len(q) - 1
  /\ \A i \in 1 .. Len(q) - 1 : r[i] = IF i < k THEN q[i] ELSE q[i + 1]

\* Where queue_insert puts the timer (timer.c:26-32).
LEMMA InsertPlace ==
  ASSUME NEW q \in Seq(Timer), NEW t \in Timer, NEW e \in [Timer -> Nat]
  PROVE  \E k \in 0 .. Len(q) :
            /\ \A j \in 1 .. k : e[q[j]] <= e[t]
            /\ k < Len(q) => e[q[k + 1]] > e[t]
<1> DEFINE T == {i \in 0 .. Len(q) : i < Len(q) => e[q[i + 1]] > e[t]}
<1>0. Len(q) \in Nat /\ \A i \in 1 .. Len(q) : q[i] \in Timer
  OBVIOUS
<1>1. T \in SUBSET Nat /\ Len(q) \in T
  BY <1>0
<1>2. PICK k \in T : \A y \in T : k <= y
  BY <1>1, LeastNatural
<1>3. ASSUME NEW j \in 1 .. k PROVE e[q[j]] <= e[t]
  <2>a. k \in 0 .. Len(q)
    BY <1>2
  <2>b. j - 1 \in 0 .. Len(q) /\ ~(k <= j - 1)
    BY <1>0, <2>a
  <2>1. j - 1 \in 0 .. Len(q) /\ j - 1 \notin T
    BY <1>2, <2>b
  <2>2. j - 1 < Len(q) /\ ~(e[q[(j - 1) + 1]] > e[t])
    BY <1>0, <2>1
  <2>3. (j - 1) + 1 = j /\ e[q[j]] \in Nat /\ e[t] \in Nat
    BY <1>0, <1>2
  <2> QED
    BY <2>2, <2>3
<1> QED
  BY <1>2, <1>3

\* queue_insert puts t in behind the leading timers that expire no later
\* (timer.c:26-32).
LEMMA InsertPutsIn ==
  ASSUME NEW q \in Seq(Timer), NEW t \in Timer, NEW e \in [Timer -> Nat]
  PROVE  \E k \in 0 .. Len(q) :
            /\ PutIn(queue_insert(q, t, e), q, k, t)
            /\ \A j \in 1 .. k : e[q[j]] <= e[t]
            /\ k < Len(q) => e[q[k + 1]] > e[t]
<1> DEFINE P(i) == /\ \A j \in 1 .. i : e[q[j]] <= e[t]
                   /\ i < Len(q) => e[q[i + 1]] > e[t]
           k == CHOOSE i \in 0 .. Len(q) : P(i)
           r == SubSeq(q, 1, k) \o <<t>> \o SubSeq(q, k + 1, Len(q))
<1>1. k \in 0 .. Len(q) /\ P(k)
  BY InsertPlace
<1>2. queue_insert(q, t, e) = r
  BY DEF queue_insert
<1> HIDE DEF k
<1>3. Len(q) \in Nat /\ \A i \in 1 .. Len(q) : q[i] \in Timer
  OBVIOUS
<1> DEFINE a == SubSeq(q, 1, k)
           b == SubSeq(q, k + 1, Len(q))
<1>4. /\ a \in Seq(Timer) /\ Len(a) = k
      /\ \A i \in 1 .. k : a[i] = q[i]
  BY <1>1, <1>3, SubSeqProperties
<1>5. /\ b \in Seq(Timer) /\ Len(b) = Len(q) - k
      /\ \A i \in 1 .. Len(q) - k : b[i] = q[k + i]
  BY <1>1, <1>3, SubSeqProperties
<1> HIDE DEF a, b
<1>6. <<t>> \in Seq(Timer) /\ Len(<<t>>) = 1 /\ <<t>>[1] = t
  OBVIOUS
<1> DEFINE c == a \o <<t>>
<1>7. /\ c \in Seq(Timer) /\ Len(c) = k + 1
      /\ \A i \in 1 .. k + 1 : c[i] = IF i <= k THEN q[i] ELSE t
  <2>1. /\ c \in Seq(Timer) /\ Len(c) = k + 1
        /\ \A i \in 1 .. k + 1 : c[i] = IF i <= k THEN a[i] ELSE <<t>>[i - k]
    BY <1>4, <1>6, ConcatProperties
  <2>2. ASSUME NEW i \in 1 .. k + 1 PROVE c[i] = IF i <= k THEN q[i] ELSE t
    <3>1. i \in 1 .. k \/ (i = k + 1 /\ i - k = 1)
      BY <1>1
    <3> HIDE DEF c
    <3> QED
      BY <1>1, <1>4, <1>6, <2>1, <3>1
  <2> QED
    BY <2>1, <2>2
<1> HIDE DEF c
<1>8. /\ c \o b \in Seq(Timer) /\ Len(c \o b) = Len(q) + 1
      /\ \A i \in 1 .. Len(q) + 1 :
           (c \o b)[i] = IF i <= k + 1 THEN c[i] ELSE b[i - (k + 1)]
  <2>1. k + 1 + (Len(q) - k) = Len(q) + 1
    BY <1>1, <1>3
  <2>2. /\ c \o b \in Seq(Timer) /\ Len(c \o b) = Len(c) + Len(b)
        /\ \A i \in 1 .. Len(c) + Len(b) :
             (c \o b)[i] = IF i <= Len(c) THEN c[i] ELSE b[i - Len(c)]
    BY <1>5, <1>7, ConcatProperties
  <2> QED
    BY <1>5, <1>7, <2>1, <2>2
<1>9. r = c \o b
  BY DEF a, b, c
<1> HIDE DEF r
<1>10. ASSUME NEW i \in 1 .. Len(q) + 1
       PROVE  r[i] = IF i <= k THEN q[i] ELSE IF i = k + 1 THEN t ELSE q[i - 1]
  <2>1. CASE i <= k + 1
    BY <1>1, <1>3, <1>7, <1>8, <1>9, <2>1, SMTT(30)
  <2>3. CASE i > k + 1
    <3>1. i - (k + 1) \in 1 .. Len(q) - k /\ k + (i - (k + 1)) = i - 1
      BY <1>1, <1>3, <2>3
    <3>2. r[i] = b[i - (k + 1)]
      BY <1>1, <1>8, <1>9, <2>3
    <3>3. b[i - (k + 1)] = q[i - 1]
      BY <1>5, <3>1
    <3> QED
      BY <1>1, <2>3, <3>2, <3>3
  <2> QED
    BY <1>1, <1>3, <2>1, <2>3
<1>11. PutIn(r, q, k, t)
  BY <1>1, <1>8, <1>9, <1>10 DEF PutIn
<1> QED
  BY <1>1, <1>2, <1>11

\* Taking out the k-th element with SubSeq.
LEMMA CutTakesOut ==
  ASSUME NEW q \in Seq(Timer), NEW k \in 1 .. Len(q)
  PROVE  TakenOut(SubSeq(q, 1, k - 1) \o SubSeq(q, k + 1, Len(q)), q, k)
<1> DEFINE a == SubSeq(q, 1, k - 1)
           b == SubSeq(q, k + 1, Len(q))
<1>3. Len(q) \in Nat /\ \A i \in 1 .. Len(q) : q[i] \in Timer
  OBVIOUS
<1>4. /\ a \in Seq(Timer) /\ Len(a) = k - 1
      /\ \A i \in 1 .. k - 1 : a[i] = q[i]
  BY <1>3, SubSeqProperties
<1>5. /\ b \in Seq(Timer) /\ Len(b) = Len(q) - k
      /\ \A i \in 1 .. Len(q) - k : b[i] = q[k + i]
  BY <1>3, SubSeqProperties
<1> HIDE DEF a, b
<1>7. /\ a \o b \in Seq(Timer) /\ Len(a \o b) = Len(q) - 1
      /\ \A i \in 1 .. Len(q) - 1 : (a \o b)[i] = IF i <= k - 1 THEN a[i] ELSE b[i - (k - 1)]
  <2>1. k - 1 + (Len(q) - k) = Len(q) - 1
    BY <1>3
  <2> QED
    BY <1>3, <1>4, <1>5, <2>1, ConcatProperties
<1>10. ASSUME NEW i \in 1 .. Len(q) - 1
       PROVE  (a \o b)[i] = IF i < k THEN q[i] ELSE q[i + 1]
  <2>1. CASE i < k
    BY <1>3, <1>4, <1>7, <2>1
  <2>3. CASE ~(i < k)
    <3>1. i - (k - 1) \in 1 .. Len(q) - k /\ k + (i - (k - 1)) = i + 1
      BY <1>3, <2>3
    <3> QED
      BY <1>3, <1>5, <1>7, <2>3, <3>1
  <2> QED
    BY <2>1, <2>3
<1> QED
  BY <1>7, <1>10 DEF TakenOut, a, b

\* queue_remove takes out the timer that is linked (timer.c:34-44).
LEMMA RemoveTakesOut ==
  ASSUME NEW q \in Seq(Timer), NEW t \in Members(q), Distinct(q)
  PROVE  \E k \in 1 .. Len(q) : q[k] = t /\ TakenOut(queue_remove(q, t), q, k)
<1> DEFINE P(i) == q[i] = t /\ \A j \in 1 .. i - 1 : q[j] # t
           k == CHOOSE i \in DOMAIN q : P(i)
<1>1. PICK m \in DOMAIN q : q[m] = t
  BY DEF Members
<1>2. P(m)
  BY <1>1 DEF Distinct
<1>3. k \in DOMAIN q /\ P(k)
  BY <1>2
<1>4. queue_remove(q, t) = SubSeq(q, 1, k - 1) \o SubSeq(q, k + 1, Len(q))
  BY <1>1 DEF queue_remove
<1> HIDE DEF k
<1>5. k \in 1 .. Len(q) /\ q[k] = t
  BY <1>3
<1>6. TakenOut(queue_remove(q, t), q, k)
  BY <1>4, <1>5, CutTakesOut
<1> QED
  BY <1>5, <1>6
-----------------------------------------------------------------------------
(* What that means for the members and for the order.                      *)

\* Putting a new element in adds it, and nothing else.
LEMMA PutInMembers ==
  ASSUME NEW q \in Seq(Timer), NEW r, NEW k, NEW t \in Timer, PutIn(r, q, k, t)
  PROVE  /\ r \in Seq(Timer) /\ Members(r) = Members(q) \cup {t}
         /\ Distinct(q) /\ t \notin Members(q) => Distinct(r)
<1> DEFINE len == Len(q)
<1>1. /\ len \in Nat /\ k \in 0 .. len /\ DOMAIN q = 1 .. len /\ DOMAIN r = 1 .. len + 1
      /\ r \in Seq(Timer)
      /\ \A i \in 1 .. len + 1 :
           r[i] = IF i <= k THEN q[i] ELSE IF i = k + 1 THEN t ELSE q[i - 1]
  BY DEF PutIn
<1> HIDE DEF len
<1>2. ASSUME NEW i \in 1 .. len PROVE \E j \in 1 .. len + 1 : r[j] = q[i]
  <2>1. CASE i <= k
    BY <1>1, <2>1
  <2>2. CASE i > k
    <3>1. i + 1 \in 1 .. len + 1 /\ r[i + 1] = q[(i + 1) - 1] /\ (i + 1) - 1 = i
      BY <1>1, <2>2
    <3> QED
      BY <3>1
  <2> QED
    BY <1>1, <2>1, <2>2
<1>3. k + 1 \in 1 .. len + 1 /\ r[k + 1] = t
  BY <1>1
<1>4. ASSUME NEW i \in 1 .. len + 1 PROVE r[i] = t \/ \E j \in 1 .. len : r[i] = q[j]
  <2>1. i \in 1 .. len \/ i = k + 1 \/ i - 1 \in 1 .. len
    BY <1>1
  <2>2. CASE i > k + 1
    <3>1. i - 1 \in 1 .. len /\ r[i] = q[i - 1]
      BY <1>1, <2>2
    <3> QED
      BY <3>1
  <2>3. CASE i <= k + 1
    BY <1>1, <1>3, <2>3
  <2> QED
    BY <1>1, <2>2, <2>3
<1>5. Members(r) = Members(q) \cup {t}
  <2>1. /\ Members(r) = {r[i] : i \in 1 .. len + 1}
        /\ Members(q) = {q[i] : i \in 1 .. len}
    BY <1>1, Zenon DEF Members
  <2>2. Members(r) \subseteq Members(q) \cup {t}
    BY <2>1, <1>4
  <2>3. Members(q) \cup {t} \subseteq Members(r)
    BY <2>1, <1>2, <1>3
  <2> QED
    BY <2>2, <2>3
<1>6. ASSUME Distinct(q), t \notin Members(q), NEW i \in 1 .. len + 1, NEW j \in 1 .. len + 1,
             i < j
      PROVE  r[i] # r[j]
  <2>1. \A m \in 1 .. len : q[m] # t
    BY <1>1, <1>6 DEF Members
  <2>2. \A m, n \in 1 .. len : m # n => q[m] # q[n]
    BY <1>1, <1>6 DEF Distinct
  <2>3. CASE j <= k
    BY <1>1, <1>6, <2>2, <2>3
  <2>4. CASE j = k + 1
    BY <1>1, <1>6, <2>1, <2>4
  <2>5. CASE j > k + 1
    <3>1. j - 1 \in 1 .. len /\ r[j] = q[j - 1]
      BY <1>1, <2>5
    <3>2. CASE i <= k
      BY <1>1, <1>6, <2>2, <2>5, <3>1, <3>2
    <3>3. CASE i = k + 1
      BY <1>3, <2>1, <3>1, <3>3
    <3>4. CASE i > k + 1
      <4>1. i - 1 \in 1 .. len /\ r[i] = q[i - 1] /\ i - 1 # j - 1
        BY <1>1, <1>6, <3>4
      <4> QED
        BY <2>2, <3>1, <4>1
    <3> QED
      BY <1>1, <3>2, <3>3, <3>4
  <2> QED
    BY <1>1, <2>3, <2>4, <2>5
<1>7. Distinct(q) /\ t \notin Members(q) => Distinct(r)
  <2>1. SUFFICES ASSUME Distinct(q), t \notin Members(q), NEW i \in 1 .. len + 1,
                        NEW j \in 1 .. len + 1, i # j
                 PROVE  r[i] # r[j]
    BY <1>1 DEF Distinct
  <2>2. i < j \/ j < i
    BY <1>1, <2>1
  <2> QED
    BY <1>6, <2>1, <2>2
<1> QED
  BY <1>1, <1>5, <1>7

\* Putting an element in where the order wants it keeps the order.
LEMMA PutInSorted ==
  ASSUME NEW q \in Seq(Timer), NEW r, NEW k, NEW t \in Timer, PutIn(r, q, k, t),
         NEW e \in [Timer -> Nat], Sorted(q, e),
         \A j \in 1 .. k : e[q[j]] <= e[t], k < Len(q) => e[q[k + 1]] > e[t]
  PROVE  Sorted(r, e)
<1> DEFINE len == Len(q)
           v == [i \in 1 .. len |-> e[q[i]]]
<1>1. /\ len \in Nat /\ k \in 0 .. len /\ DOMAIN q = 1 .. len /\ DOMAIN r = 1 .. len + 1
      /\ \A i \in 1 .. len + 1 :
           r[i] = IF i <= k THEN q[i] ELSE IF i = k + 1 THEN t ELSE q[i - 1]
  BY DEF PutIn
<1>2. /\ v \in [1 .. len -> Nat] /\ e[t] \in Nat /\ \A i \in 1 .. len : v[i] = e[q[i]]
  BY <1>1
<1> HIDE DEF len, v
<1>3. /\ \A i, j \in 1 .. len : i < j => v[i] <= v[j]
      /\ \A j \in 1 .. k : v[j] <= e[t]
      /\ k < len => v[k + 1] > e[t]
  <2>1. \A i, j \in 1 .. len : i < j => e[q[i]] <= e[q[j]]
    BY <1>1 DEF Sorted
  <2>2. \A j \in 1 .. k : j \in 1 .. len
    BY <1>1
  <2>3. k < len => k + 1 \in 1 .. len
    BY <1>1
  <2> QED
    BY <1>2, <2>1, <2>2, <2>3 DEF len
<1>4. ASSUME NEW j \in 1 .. len, j > k PROVE v[j] >= e[t]
  <2>1. k < len /\ k + 1 \in 1 .. len
    BY <1>1, <1>4
  <2>2. v[k + 1] <= v[j]
    <3>1. k + 1 < j \/ k + 1 = j
      BY <1>1, <1>4
    <3>2. v[k + 1] \in Nat /\ v[j] \in Nat
      BY <1>2, <2>1
    <3> QED
      BY <1>3, <2>1, <3>1, <3>2
  <2>3. v[k + 1] \in Nat /\ v[j] \in Nat /\ v[k + 1] > e[t]
    BY <1>2, <1>3, <2>1
  <2> QED
    BY <1>2, <2>2, <2>3
<1>5. \A i \in 1 .. len + 1 :
        e[r[i]] = IF i <= k THEN v[i] ELSE IF i = k + 1 THEN e[t] ELSE v[i - 1]
  <2>1. \A i \in 1 .. len + 1 : i > k + 1 => i - 1 \in 1 .. len
    BY <1>1
  <2>2. \A i \in 1 .. len + 1 : i <= k => i \in 1 .. len
    BY <1>1
  <2> QED
    BY <1>1, <1>2, <2>1, <2>2
<1>6. ASSUME NEW i \in 1 .. len + 1, NEW j \in 1 .. len + 1, i < j
      PROVE  e[r[i]] <= e[r[j]]
  <2>1. CASE j <= k
    BY <1>1, <1>3, <1>5, <1>6, <2>1
  <2>2. CASE j = k + 1
    BY <1>1, <1>3, <1>5, <1>6, <2>2
  <2>3. CASE j > k + 1
    <3>1. j - 1 \in 1 .. len /\ e[r[j]] = v[j - 1] /\ j - 1 > k
      BY <1>1, <1>5, <2>3
    <3>2. CASE i <= k
      BY <1>1, <1>3, <1>5, <1>6, <3>1, <3>2
    <3>3. CASE i = k + 1
      BY <1>1, <1>2, <1>4, <1>5, <3>1, <3>3
    <3>4. CASE i > k + 1
      <4>1. i - 1 \in 1 .. len /\ e[r[i]] = v[i - 1] /\ i - 1 < j - 1
        BY <1>1, <1>5, <1>6, <3>4
      <4> QED
        BY <1>3, <3>1, <4>1
    <3> QED
      BY <1>1, <3>2, <3>3, <3>4
  <2> QED
    BY <1>1, <2>1, <2>2, <2>3
<1> QED
  BY <1>1, <1>6 DEF Sorted

\* Taking an element out removes it, and nothing else, and keeps the order.
LEMMA TakenOutMembers ==
  ASSUME NEW q \in Seq(Timer), NEW r, NEW k, TakenOut(r, q, k), Distinct(q)
  PROVE  /\ r \in Seq(Timer) /\ Members(r) = Members(q) \ {q[k]} /\ Distinct(r)
         /\ \A e : Sorted(q, e) => Sorted(r, e)
<1> DEFINE len == Len(q)
           f == [i \in 1 .. len - 1 |-> IF i < k THEN i ELSE i + 1]
<1>1. /\ len \in Nat /\ k \in 1 .. len /\ DOMAIN q = 1 .. len /\ DOMAIN r = 1 .. len - 1
      /\ r \in Seq(Timer)
      /\ \A i \in 1 .. len - 1 : r[i] = IF i < k THEN q[i] ELSE q[i + 1]
  BY DEF TakenOut
<1> HIDE DEF len
<1>2. /\ \A i \in 1 .. len - 1 : f[i] \in 1 .. len /\ f[i] # k /\ r[i] = q[f[i]]
      /\ \A i, j \in 1 .. len - 1 : i < j => f[i] < f[j]
  BY <1>1
<1>3. ASSUME NEW m \in 1 .. len, m # k PROVE \E i \in 1 .. len - 1 : f[i] = m
  <2>1. CASE m < k
    BY <1>1, <2>1
  <2>2. CASE m > k
    <3>1. m - 1 \in 1 .. len - 1 /\ f[m - 1] = m
      BY <1>1, <2>2
    <3> QED
      BY <3>1
  <2> QED
    BY <1>1, <1>3, <2>1, <2>2
<1> HIDE DEF f
<1>4. /\ Members(r) = {r[i] : i \in 1 .. len - 1}
      /\ Members(q) = {q[i] : i \in 1 .. len}
  BY <1>1, Zenon DEF Members
<1>5. \A i, j \in 1 .. len : i # j => q[i] # q[j]
  BY <1>1 DEF Distinct
<1>6. Members(r) \subseteq Members(q) \ {q[k]}
  BY <1>1, <1>2, <1>4, <1>5
<1>7. Members(q) \ {q[k]} \subseteq Members(r)
  BY <1>2, <1>3, <1>4
<1>8. Distinct(r)
  <2>1. SUFFICES ASSUME NEW i \in 1 .. len - 1, NEW j \in 1 .. len - 1, i # j
                 PROVE  r[i] # r[j]
    BY <1>1 DEF Distinct
  <2>2. f[i] \in 1 .. len /\ f[j] \in 1 .. len /\ f[i] # f[j]
    BY <1>1, <1>2, <2>1
  <2> QED
    BY <1>2, <1>5, <2>2
<1>9. \A e : Sorted(q, e) => Sorted(r, e)
  BY <1>1, <1>2, SMTT(30) DEF Sorted
<1> QED
  BY <1>1, <1>6, <1>7, <1>8, <1>9

\* timer_tick takes out the head (timer.c:52-55).
LEMMA TailTakesOut ==
  ASSUME NEW q \in Seq(Timer), q # <<>>
  PROVE  TakenOut(Tail(q), q, 1) /\ Head(q) = q[1] /\ 1 \in DOMAIN q
<1>1. /\ Tail(q) \in Seq(Timer) /\ Len(Tail(q)) = Len(q) - 1
      /\ \A i \in 1 .. Len(Tail(q)) : Tail(q)[i] = q[i + 1]
  BY HeadTailProperties
<1>2. Len(q) \in Nat /\ Len(q) # 0 /\ Head(q) = q[1] /\ DOMAIN q = 1 .. Len(q)
  OBVIOUS
<1> QED
  BY <1>1, <1>2 DEF TakenOut

\* queue_insert of a timer that is not linked.
LEMMA InsertKeeps ==
  ASSUME NEW q \in Seq(Timer), Distinct(q), NEW t \in Timer, t \notin Members(q),
         NEW e \in [Timer -> Nat]
  PROVE  /\ queue_insert(q, t, e) \in Seq(Timer)
         /\ Members(queue_insert(q, t, e)) = Members(q) \cup {t}
         /\ Distinct(queue_insert(q, t, e))
         /\ Sorted(q, e) => Sorted(queue_insert(q, t, e), e)
<1>1. PICK k \in 0 .. Len(q) :
          /\ PutIn(queue_insert(q, t, e), q, k, t)
          /\ \A j \in 1 .. k : e[q[j]] <= e[t]
          /\ k < Len(q) => e[q[k + 1]] > e[t]
  BY InsertPutsIn
<1> DEFINE r == queue_insert(q, t, e)
<1> HIDE DEF r
<1>2. PutIn(r, q, k, t)
  BY <1>1 DEF r
<1>3. r \in Seq(Timer) /\ Members(r) = Members(q) \cup {t} /\ Distinct(r)
  BY <1>2, PutInMembers
<1>4. ASSUME Sorted(q, e) PROVE Sorted(r, e)
  <2>1. \A j \in 1 .. k : e[q[j]] <= e[t]
    BY <1>1
  <2>2. k < Len(q) => e[q[k + 1]] > e[t]
    BY <1>1
  <2> QED
    BY <1>2, <1>4, <2>1, <2>2, PutInSorted
<1> QED
  BY <1>3, <1>4 DEF r

\* queue_remove of any timer.
LEMMA RemoveKeeps ==
  ASSUME NEW q \in Seq(Timer), Distinct(q), NEW t
  PROVE  /\ queue_remove(q, t) \in Seq(Timer)
         /\ Members(queue_remove(q, t)) = Members(q) \ {t}
         /\ Distinct(queue_remove(q, t))
         /\ \A e : Sorted(q, e) => Sorted(queue_remove(q, t), e)
<1>1. CASE t \in Members(q)
  BY <1>1, RemoveTakesOut, TakenOutMembers
<1>2. CASE t \notin Members(q)
  <2>1. queue_remove(q, t) = q
    BY <1>2 DEF queue_remove, Members
  <2> QED
    BY <1>2, <2>1
<1> QED
  BY <1>1, <1>2

\* Taking the head off.
LEMMA TailKeeps ==
  ASSUME NEW q \in Seq(Timer), Distinct(q), q # <<>>
  PROVE  /\ Tail(q) \in Seq(Timer) /\ Members(Tail(q)) = Members(q) \ {Head(q)}
         /\ Distinct(Tail(q)) /\ Head(q) \in Members(q)
         /\ \A e : Sorted(q, e) => Sorted(Tail(q), e)
<1>1. TakenOut(Tail(q), q, 1) /\ Head(q) = q[1] /\ 1 \in DOMAIN q
  BY TailTakesOut
<1>2. Head(q) \in Members(q)
  BY <1>1 DEF Members
<1> QED
  BY <1>1, <1>2, TakenOutMembers
-----------------------------------------------------------------------------
(* The queue holds the active timers.                                      *)

\* An expiry is a tick.
LEMMA ExpiryIsTick ==
  ASSUME NEW d \in Nat, tick_count \in Tick
  PROVE  (tick_count + d) % TICK_MOD \in Tick /\ Tick \subseteq Nat
  BY TimersAssumption DEF Tick

\* The delays and periods are natural numbers below half the counter's range.
LEMMA DelaysSmall ==
  /\ \A d \in Delay \cup Period : d \in Nat /\ 2 * d < TICK_MOD
  /\ \A d \in Delay : AtLeastOne(d) \in Nat /\ AtLeastOne(d) > 0 /\ 2 * AtLeastOne(d) < TICK_MOD
  /\ TICK_MOD \in Nat /\ TICK_MOD > 2 /\ 0 \in Tick
  BY TimersAssumption DEF AtLeastOne, Tick

QueueInv == TimersTypeOK /\ QueueIsActiveTimers

\* The same invariant over the operators the lemmas speak of.
LEMMA QueueInvMeans ==
  ASSUME TimersTypeOK
  PROVE  QueueIsActiveTimers <=> /\ Members(timer_queue) = {t \in Timer : active[t]}
                                 /\ Distinct(timer_queue)
  BY DEF QueueIsActiveTimers, Queued, Members, Distinct

LEMMA QueueInvMeansNext ==
  ASSUME TimersTypeOK'
  PROVE  QueueIsActiveTimers' <=> /\ Members(timer_queue') = {t \in Timer : active'[t]}
                                  /\ Distinct(timer_queue')
  BY DEF QueueIsActiveTimers, Queued, Members, Distinct

\* The queue is empty and no timer active at first (timer.c:6).
LEMMA QueueInvInit == TimersInit => QueueInv
<1> SUFFICES ASSUME TimersInit PROVE QueueInv
  OBVIOUS
<1>1. timer_queue \in Seq(Timer) /\ DOMAIN timer_queue = {}
  BY DEF TimersInit
<1>2. TimersTypeOK
  <2>1. /\ tick_count = 0 /\ in_tick = FALSE
        /\ expires = [t \in Timer |-> 0] /\ period = [t \in Timer |-> 0]
        /\ active = [t \in Timer |-> FALSE] /\ left = [t \in Timer |-> 0]
    BY DEF TimersInit
  <2>2. 0 \in Tick
    BY DelaysSmall
  <2>3. /\ expires \in [Timer -> Tick] /\ period \in [Timer -> Period \cup {0}]
        /\ active \in [Timer -> BOOLEAN] /\ left \in [Timer -> Int]
    BY <2>1, <2>2
  <2> QED
    BY <1>1, <2>1, <2>2, <2>3 DEF TimersTypeOK
<1>3. Queued = {} /\ \A t \in Timer : ~active[t]
  BY <1>1 DEF Queued, TimersInit
<1> QED
  BY <1>1, <1>2, <1>3 DEF QueueInv, QueueIsActiveTimers

\* timer_add links the timer once, whether it was active or not (timer.c:100-116).
LEMMA AddEffect ==
  ASSUME QueueInv, NEW t \in Timer, NEW d \in Delay, timer_add(t, d)
  PROVE  /\ QueueInv'
         /\ Sorted(timer_queue, expires) => Sorted(timer_queue', expires')
<1> DEFINE q == IF active[t] THEN queue_remove(timer_queue, t) ELSE timer_queue
<1>1. /\ TimersTypeOK /\ timer_queue \in Seq(Timer)
      /\ Members(timer_queue) = {u \in Timer : active[u]} /\ Distinct(timer_queue)
  BY QueueInvMeans DEF QueueInv, TimersTypeOK
<1>2. /\ expires' = [expires EXCEPT ![t] = (tick_count + AtLeastOne(d)) % TICK_MOD]
      /\ timer_queue' = queue_insert(q, t, expires')
      /\ active' = [active EXCEPT ![t] = TRUE]
      /\ left' = [left EXCEPT ![t] = AtLeastOne(d)]
      /\ UNCHANGED <<tick_count, period, in_tick>>
  BY DEF timer_add
<1>3. expires' \in [Timer -> Tick] /\ expires' \in [Timer -> Nat]
  BY <1>1, <1>2, ExpiryIsTick, DelaysSmall DEF TimersTypeOK
<1>4. /\ q \in Seq(Timer) /\ Members(q) = {u \in Timer : active[u]} \ {t} /\ Distinct(q)
      /\ \A e : Sorted(timer_queue, e) => Sorted(q, e)
  BY <1>1, RemoveKeeps
<1> HIDE DEF q
<1>5. /\ timer_queue' \in Seq(Timer) /\ Members(timer_queue') = Members(q) \cup {t}
      /\ Distinct(timer_queue')
      /\ Sorted(q, expires') => Sorted(timer_queue', expires')
  BY <1>2, <1>3, <1>4, InsertKeeps
<1>6. TimersTypeOK'
  <2>1. active' \in [Timer -> BOOLEAN] /\ left' \in [Timer -> Int]
    BY <1>1, <1>2, DelaysSmall DEF TimersTypeOK
  <2> QED
    BY <1>1, <1>2, <1>3, <1>5, <2>1 DEF TimersTypeOK
<1>7. Members(timer_queue') = {u \in Timer : active'[u]}
  <2>1. active' = [u \in Timer |-> IF u = t THEN TRUE ELSE active[u]]
    BY <1>1, <1>2 DEF TimersTypeOK
  <2>2. \A u \in Timer : active'[u] <=> u = t \/ active[u]
    BY <2>1
  <2>3. Members(timer_queue') = ({u \in Timer : active[u]} \ {t}) \cup {t}
    BY <1>4, <1>5
  <2> QED
    BY <2>2, <2>3, Zenon
<1>8. QueueInv'
  BY <1>5, <1>6, <1>7, QueueInvMeansNext DEF QueueInv
<1>9. ASSUME Sorted(timer_queue, expires) PROVE Sorted(timer_queue', expires')
  <2>1. \A i \in DOMAIN q : q[i] \in Timer \ {t}
    BY <1>4 DEF Members
  <2>2. \A u \in Timer \ {t} : expires'[u] = expires[u]
    BY <1>1, <1>2 DEF TimersTypeOK
  <2>3. Sorted(q, expires)
    BY <1>4, <1>9
  <2>4. Sorted(q, expires')
    BY <2>1, <2>2, <2>3 DEF Sorted
  <2> QED
    BY <1>5, <2>4
<1> QED
  BY <1>8, <1>9

\* timer_cancel unlinks the timer if it is linked (timer.c:118-131).
LEMMA CancelEffect ==
  ASSUME QueueInv, NEW t \in Timer, timer_cancel(t)
  PROVE  QueueInv' /\ (Sorted(timer_queue, expires) => Sorted(timer_queue', expires'))
<1>1. /\ TimersTypeOK /\ timer_queue \in Seq(Timer)
      /\ Members(timer_queue) = {u \in Timer : active[u]} /\ Distinct(timer_queue)
  BY QueueInvMeans DEF QueueInv, TimersTypeOK
<1>2. /\ timer_queue' = IF active[t] THEN queue_remove(timer_queue, t) ELSE timer_queue
      /\ active' = [active EXCEPT ![t] = FALSE]
      /\ UNCHANGED <<tick_count, expires, period, in_tick, left>>
  BY DEF timer_cancel
<1>3. /\ timer_queue' \in Seq(Timer) /\ Members(timer_queue') = {u \in Timer : active[u]} \ {t}
      /\ Distinct(timer_queue')
      /\ Sorted(timer_queue, expires) => Sorted(timer_queue', expires')
  BY <1>1, <1>2, RemoveKeeps
<1>4. TimersTypeOK'
  BY <1>1, <1>2, <1>3 DEF TimersTypeOK
<1>5. Members(timer_queue') = {u \in Timer : active'[u]}
  <2>1. \A u \in Timer : active'[u] <=> u # t /\ active[u]
    BY <1>1, <1>2 DEF TimersTypeOK
  <2> QED
    BY <1>3, <2>1, Zenon
<1> QED
  BY <1>3, <1>4, <1>5, QueueInvMeansNext DEF QueueInv

\* timer_setup touches no linked timer (timer.c:87-98).
LEMMA SetupEffect ==
  ASSUME QueueInv, NEW t \in Timer, NEW p \in Period, timer_setup(t, p)
  PROVE  QueueInv' /\ (Sorted(timer_queue, expires) => Sorted(timer_queue', expires'))
<1>1. /\ TimersTypeOK /\ timer_queue \in Seq(Timer)
      /\ Members(timer_queue) = {u \in Timer : active[u]} /\ Distinct(timer_queue)
  BY QueueInvMeans DEF QueueInv, TimersTypeOK
<1>2. /\ ~active[t]
      /\ expires' = [expires EXCEPT ![t] = 0] /\ period' = [period EXCEPT ![t] = p]
      /\ active' = [active EXCEPT ![t] = FALSE]
      /\ UNCHANGED <<tick_count, timer_queue, in_tick, left>>
  BY DEF timer_setup
<1>3. active' = active
  BY <1>1, <1>2 DEF TimersTypeOK
<1>4. TimersTypeOK'
  BY <1>1, <1>2, <1>3, DelaysSmall DEF TimersTypeOK
<1>5. QueueInv'
  BY <1>1, <1>2, <1>3, <1>4, QueueInvMeansNext DEF QueueInv
<1>6. ASSUME Sorted(timer_queue, expires) PROVE Sorted(timer_queue', expires')
  <2>1. \A i \in DOMAIN timer_queue : timer_queue[i] \in Timer \ {t}
    BY <1>1, <1>2 DEF Members
  <2>2. \A u \in Timer \ {t} : expires'[u] = expires[u]
    BY <1>1, <1>2 DEF TimersTypeOK
  <2> QED
    BY <1>2, <1>6, <2>1, <2>2 DEF Sorted
<1> QED
  BY <1>5, <1>6

\* A pass of timer_tick's loop takes the head off and links it again only if it
\* stays active (timer.c:52-66).
LEMMA ExpireEffect ==
  ASSUME QueueInv, NEW t \in Timer, expire(t)
  PROVE  /\ QueueInv' /\ active[t]
         /\ Sorted(timer_queue, expires) => Sorted(timer_queue', expires')
<1>1. /\ TimersTypeOK /\ timer_queue \in Seq(Timer)
      /\ Members(timer_queue) = {u \in Timer : active[u]} /\ Distinct(timer_queue)
  BY QueueInvMeans DEF QueueInv, TimersTypeOK
<1>2. /\ timer_queue # <<>> /\ t = Head(timer_queue)
      /\ UNCHANGED <<tick_count, period, in_tick>>
  BY DEF expire, Due
<1> DEFINE q == Tail(timer_queue)
<1>3. /\ q \in Seq(Timer) /\ Members(q) = {u \in Timer : active[u]} \ {t} /\ Distinct(q)
      /\ \A e : Sorted(timer_queue, e) => Sorted(q, e)
      /\ active[t]
  BY <1>1, <1>2, TailKeeps
<1>4. CASE period[t] > 0
  <2>1. /\ expires' = [expires EXCEPT ![t] = (tick_count + period[t]) % TICK_MOD]
        /\ timer_queue' = queue_insert(q, t, expires')
        /\ left' = [left EXCEPT ![t] = period[t]]
        /\ active' = active
    BY <1>4 DEF expire
  <2> HIDE DEF q
  <2>2. period[t] \in Nat
    BY <1>1, DelaysSmall DEF TimersTypeOK
  <2>3. expires' \in [Timer -> Tick] /\ expires' \in [Timer -> Nat]
    BY <1>1, <2>1, <2>2, ExpiryIsTick DEF TimersTypeOK
  <2>4. /\ timer_queue' \in Seq(Timer) /\ Members(timer_queue') = Members(q) \cup {t}
        /\ Distinct(timer_queue')
        /\ Sorted(q, expires') => Sorted(timer_queue', expires')
    BY <1>3, <2>1, <2>3, InsertKeeps
  <2>5. TimersTypeOK'
    BY <1>1, <1>2, <2>1, <2>2, <2>3, <2>4 DEF TimersTypeOK
  <2>6. Members(timer_queue') = {u \in Timer : active'[u]}
    BY <1>3, <2>1, <2>4
  <2>7. QueueInv'
    BY <2>4, <2>5, <2>6, QueueInvMeansNext DEF QueueInv
  <2>8. ASSUME Sorted(timer_queue, expires) PROVE Sorted(timer_queue', expires')
    <3>1. \A i \in DOMAIN q : q[i] \in Timer \ {t}
      BY <1>3 DEF Members
    <3>2. \A u \in Timer \ {t} : expires'[u] = expires[u]
      BY <1>1, <2>1 DEF TimersTypeOK
    <3>3. Sorted(q, expires)
      BY <1>3, <2>8
    <3>4. Sorted(q, expires')
      BY <3>1, <3>2, <3>3 DEF Sorted
    <3> QED
      BY <2>4, <3>4
  <2> QED
    BY <1>3, <2>7, <2>8
<1>5. CASE ~(period[t] > 0)
  <2>1. /\ timer_queue' = q /\ active' = [active EXCEPT ![t] = FALSE]
        /\ UNCHANGED <<expires, left>>
    BY <1>5 DEF expire
  <2> HIDE DEF q
  <2>2. TimersTypeOK'
    BY <1>1, <1>2, <1>3, <2>1 DEF TimersTypeOK
  <2>3. Members(timer_queue') = {u \in Timer : active'[u]}
    <3>1. \A u \in Timer : active'[u] <=> u # t /\ active[u]
      BY <1>1, <2>1 DEF TimersTypeOK
    <3> QED
      BY <1>3, <2>1, <3>1, Zenon
  <2>4. QueueInv'
    BY <1>3, <2>1, <2>2, <2>3, QueueInvMeansNext DEF QueueInv
  <2>5. Sorted(timer_queue, expires) => Sorted(timer_queue', expires')
    BY <1>3, <2>1
  <2> QED
    BY <1>3, <2>4, <2>5
<1> QED
  BY <1>4, <1>5

\* The tick and the end of the interrupt leave the queue alone (pit.c:12-16).
LEMMA TickEffect ==
  ASSUME QueueInv, pit_handler \/ tick_done \/ UNCHANGED timerVars
  PROVE  QueueInv' /\ UNCHANGED <<timer_queue, expires, active>>
<1>1. CASE pit_handler
  <2>1. /\ tick_count' = (tick_count + 1) % TICK_MOD /\ in_tick' = TRUE
        /\ left' = [t \in Timer |-> IF active[t] THEN left[t] - 1 ELSE left[t]]
        /\ UNCHANGED <<timer_queue, expires, period, active>>
    BY <1>1 DEF pit_handler
  <2>2. tick_count' \in Tick /\ left' \in [Timer -> Int]
    BY <2>1, ExpiryIsTick DEF QueueInv, TimersTypeOK
  <2> QED
    BY <2>1, <2>2 DEF QueueInv, TimersTypeOK, QueueIsActiveTimers, Queued
<1>2. CASE tick_done \/ UNCHANGED timerVars
  <2>1. /\ UNCHANGED <<tick_count, timer_queue, expires, period, active, left>>
        /\ in_tick' \in {FALSE, in_tick}
    BY <1>2 DEF tick_done, timerVars
  <2>2. TimersTypeOK'
    BY <2>1 DEF QueueInv, TimersTypeOK
  <2>3. QueueIsActiveTimers'
    BY <2>1 DEF QueueInv, QueueIsActiveTimers, Queued
  <2> QED
    BY <2>1, <2>2, <2>3 DEF QueueInv
<1> QED
  BY <1>1, <1>2

\* Every step keeps the invariant.
LEMMA QueueInvNext == QueueInv /\ [TimersNext]_timerVars => QueueInv'
<1> SUFFICES ASSUME QueueInv, [TimersNext]_timerVars PROVE QueueInv'
  OBVIOUS
<1>1. CASE pit_handler \/ tick_done \/ UNCHANGED timerVars
  BY <1>1, TickEffect
<1>2. ASSUME NEW t \in Timer,
             \/ \E p \in Period : timer_setup(t, p)
             \/ \E d \in Delay : timer_add(t, d)
             \/ timer_cancel(t)
             \/ expire(t)
      PROVE  QueueInv'
  BY <1>2, SetupEffect, AddEffect, CancelEffect, ExpireEffect
<1> QED
  BY <1>1, <1>2 DEF TimersNext

\* The queue links the active timers, each once, and no other, for any number of
\* timers and across the wrap of the counter (timer.c:26-66 and 100-131).
THEOREM QueueLinksActive == TimersSpec => []QueueIsActiveTimers
<1>1. QueueInv => QueueIsActiveTimers
  BY DEF QueueInv
<1> QED
  BY QueueInvInit, QueueInvNext, <1>1, PTL DEF TimersSpec
-----------------------------------------------------------------------------
(* The counter's arithmetic.                                               *)

\* A tick some ticks from now, without the modulus.
LEMMA WrapValue ==
  ASSUME NEW x \in Tick, NEW l \in Tick
  PROVE  /\ (x + l) % TICK_MOD = (IF x + l < TICK_MOD THEN x + l ELSE x + l - TICK_MOD)
         /\ (x + l) % TICK_MOD \in Tick
  BY TimersAssumption DEF Tick

\* The distance between two ticks, without the modulus.
LEMMA DiffValue ==
  ASSUME NEW x \in Tick, NEW y \in Tick
  PROVE  (x - y) % TICK_MOD = (IF y <= x THEN x - y ELSE x - y + TICK_MOD)
  BY TimersAssumption DEF Tick

\* The signed difference recovers a distance below half the counter's range,
\* whether or not the counter wraps on the way (timer.c:52).
LEMMA SignedDiffOfDistance ==
  ASSUME NEW x \in Tick, NEW l \in Nat, 2 * l < TICK_MOD
  PROVE  SignedDiff((x + l) % TICK_MOD, x) = l
<1> DEFINE y == (x + l) % TICK_MOD
<1>1. l \in Tick /\ x \in Nat
  BY TimersAssumption DEF Tick
<1>2. y = (IF x + l < TICK_MOD THEN x + l ELSE x + l - TICK_MOD) /\ y \in Tick
  BY <1>1, WrapValue
<1>3. (y - x) % TICK_MOD = (IF x <= y THEN y - x ELSE y - x + TICK_MOD)
  BY <1>2, DiffValue
<1> HIDE DEF y
<1>4. (y - x) % TICK_MOD = l
  BY <1>1, <1>2, <1>3, TimersAssumption DEF Tick
<1>5. SignedDiff(y, x) = l
  BY <1>4, TimersAssumption DEF SignedDiff
<1> QED
  BY <1>5 DEF y

\* One tick on, the same tick is one tick nearer.
LEMMA OneTickNearer ==
  ASSUME NEW x \in Tick, NEW l \in Tick, l > 0
  PROVE  (x + l) % TICK_MOD = (((x + 1) % TICK_MOD) + (l - 1)) % TICK_MOD
<1>1. 1 \in Tick /\ l - 1 \in Tick
  BY TimersAssumption DEF Tick
<1>2. (x + 1) % TICK_MOD = (IF x + 1 < TICK_MOD THEN x + 1 ELSE x + 1 - TICK_MOD)
      /\ (x + 1) % TICK_MOD \in Tick
  BY <1>1, WrapValue
<1> DEFINE z == (x + 1) % TICK_MOD
<1>3. (z + (l - 1)) % TICK_MOD
        = (IF z + (l - 1) < TICK_MOD THEN z + (l - 1) ELSE z + (l - 1) - TICK_MOD)
  BY <1>1, <1>2, WrapValue
<1>4. (x + l) % TICK_MOD = (IF x + l < TICK_MOD THEN x + l ELSE x + l - TICK_MOD)
  BY WrapValue
<1> HIDE DEF z
<1>5. z = (IF x + 1 < TICK_MOD THEN x + 1 ELSE x + 1 - TICK_MOD)
  BY <1>2 DEF z
<1>6. (x + l) % TICK_MOD = (z + (l - 1)) % TICK_MOD
  BY <1>3, <1>4, <1>5, TimersAssumption DEF Tick
<1> QED
  BY <1>6 DEF z
-----------------------------------------------------------------------------
(* Every timer on its tick, before the counter wraps.                      *)

\* No expiry lies beyond the wrap: the counter stops early enough.
NoWrap == \A d \in {1} \cup Delay \cup Period : LAST_TICK + d < TICK_MOD

\* The expiry of each active timer says what is left to it; the queue is in the
\* order of the expiries; outside the interrupt nobody is due.
OnTimeInv ==
  /\ QueueInv
  /\ Sorted(timer_queue, expires)
  /\ tick_count <= LAST_TICK
  /\ \A t \in Timer : active[t] =>
       /\ expires[t] = tick_count + left[t]
       /\ left[t] >= 0 /\ 2 * left[t] < TICK_MOD
       /\ ~in_tick => left[t] > 0

\* The head is due exactly when no tick is left to it (timer.c:52).
LEMMA DueMeansNothingLeft ==
  ASSUME OnTimeInv, timer_queue # <<>>
  PROVE  /\ Head(timer_queue) \in Timer /\ active[Head(timer_queue)]
         /\ Due <=> left[Head(timer_queue)] = 0
<1> DEFINE h == Head(timer_queue)
<1>1. TimersTypeOK /\ Distinct(timer_queue) /\ Members(timer_queue) = {t \in Timer : active[t]}
  BY QueueInvMeans DEF OnTimeInv, QueueInv
<1>2. h \in Members(timer_queue)
  BY <1>1, TailKeeps DEF TimersTypeOK
<1>3. h \in Timer /\ active[h]
  BY <1>1, <1>2
<1> HIDE DEF h
<1>4. /\ expires[h] = tick_count + left[h] /\ left[h] \in Nat /\ 2 * left[h] < TICK_MOD
      /\ expires[h] \in Tick /\ tick_count \in Tick
  BY <1>1, <1>3 DEF OnTimeInv, TimersTypeOK
<1>5. (tick_count + left[h]) % TICK_MOD = expires[h]
  <2>1. TICK_MOD \in Nat /\ expires[h] \in 0 .. TICK_MOD - 1
    BY <1>4, TimersAssumption DEF Tick
  <2>2. expires[h] % TICK_MOD = expires[h]
    BY <2>1
  <2> QED
    BY <2>2, <1>4
<1>6. SignedDiff(expires[h], tick_count) = left[h]
  BY <1>4, <1>5, SignedDiffOfDistance
<1>7. (SignedDiff(expires[h], tick_count) <= 0) <=> left[h] = 0
  BY <1>4, <1>6
<1> QED
  BY <1>3, <1>7 DEF Due, h

\* When the head is not due nobody in the queue is.
LEMMA NotDueMeansTimeLeft ==
  ASSUME OnTimeInv, ~Due
  PROVE  \A t \in Timer : active[t] => left[t] > 0
<1> SUFFICES ASSUME NEW t \in Timer, active[t] PROVE left[t] > 0
  OBVIOUS
<1> DEFINE h == Head(timer_queue)
<1>1. /\ TimersTypeOK /\ Distinct(timer_queue)
      /\ Members(timer_queue) = {u \in Timer : active[u]}
  BY QueueInvMeans DEF OnTimeInv, QueueInv
<1>2. PICK i \in DOMAIN timer_queue : timer_queue[i] = t
  BY <1>1 DEF Members
<1>3. timer_queue # <<>> /\ h = timer_queue[1] /\ 1 \in DOMAIN timer_queue
  BY <1>1, <1>2, TailTakesOut DEF TimersTypeOK
<1>4. h \in Timer /\ active[h] /\ left[h] # 0
  BY <1>3, DueMeansNothingLeft
<1> HIDE DEF h
<1>5. expires[h] <= expires[t]
  <2>1. i = 1 \/ 1 < i
    BY <1>1, <1>2 DEF TimersTypeOK
  <2>2. expires[h] \in Int /\ expires[t] \in Int
    BY <1>1, <1>4 DEF TimersTypeOK, Tick
  <2> QED
    BY <1>2, <1>3, <2>1, <2>2 DEF OnTimeInv, Sorted
<1>6. /\ expires[h] = tick_count + left[h] /\ expires[t] = tick_count + left[t]
      /\ left[h] \in Nat /\ left[t] \in Int /\ tick_count \in Int
  BY <1>1, <1>4 DEF OnTimeInv, TimersTypeOK, Tick
<1> QED
  BY <1>4, <1>5, <1>6

\* A delay from now on before the wrap.
LEMMA NoWrapValue ==
  ASSUME NoWrap, TimersTypeOK, tick_count <= LAST_TICK,
         NEW d \in {1} \cup Delay \cup Period
  PROVE  /\ d \in Nat /\ (tick_count + d) % TICK_MOD = tick_count + d
         /\ d \in Delay => /\ AtLeastOne(d) \in {1} \cup Delay
                          /\ (tick_count + AtLeastOne(d)) % TICK_MOD = tick_count + AtLeastOne(d)
<1>1. tick_count \in Nat /\ LAST_TICK \in Nat /\ TICK_MOD \in Nat
  BY TimersAssumption DEF TimersTypeOK, Tick
<1>2. ASSUME NEW e \in {1} \cup Delay \cup Period
      PROVE  e \in Nat /\ (tick_count + e) % TICK_MOD = tick_count + e
  <2>1. e \in Nat /\ LAST_TICK + e < TICK_MOD
    BY DelaysSmall DEF NoWrap
  <2>2. tick_count + e \in 0 .. TICK_MOD - 1
    BY <1>1, <2>1
  <2> QED
    BY <1>1, <2>1, <2>2
<1>3. d \in Delay => AtLeastOne(d) \in {1} \cup Delay
  BY DEF AtLeastOne
<1> QED
  BY <1>2, <1>3

\* The calls keep the invariant (timer.c:87-131).
LEMMA CallsKeepOnTime ==
  ASSUME NoWrap, OnTimeInv, NEW t \in Timer,
         \/ \E p \in Period : timer_setup(t, p)
         \/ \E d \in Delay : timer_add(t, d)
         \/ timer_cancel(t)
  PROVE  OnTimeInv'
<1>1. QueueInv /\ TimersTypeOK /\ Sorted(timer_queue, expires) /\ tick_count <= LAST_TICK
  BY DEF OnTimeInv, QueueInv
<1>2. ASSUME NEW p \in Period, timer_setup(t, p) PROVE OnTimeInv'
  <2>1. QueueInv' /\ Sorted(timer_queue', expires')
    BY <1>1, <1>2, SetupEffect
  <2>2. /\ ~active[t] /\ expires' = [expires EXCEPT ![t] = 0]
        /\ active' = [active EXCEPT ![t] = FALSE]
        /\ UNCHANGED <<tick_count, in_tick, left>>
    BY <1>2 DEF timer_setup
  <2> QED
    BY <1>1, <2>1, <2>2 DEF OnTimeInv, TimersTypeOK
<1>3. ASSUME NEW d \in Delay, timer_add(t, d) PROVE OnTimeInv'
  <2>1. QueueInv' /\ Sorted(timer_queue', expires')
    BY <1>1, <1>3, AddEffect
  <2>2. /\ ~in_tick
        /\ expires' = [expires EXCEPT ![t] = (tick_count + AtLeastOne(d)) % TICK_MOD]
        /\ active' = [active EXCEPT ![t] = TRUE]
        /\ left' = [left EXCEPT ![t] = AtLeastOne(d)]
        /\ UNCHANGED <<tick_count, in_tick>>
    BY <1>3 DEF timer_add
  <2>3. (tick_count + AtLeastOne(d)) % TICK_MOD = tick_count + AtLeastOne(d)
    BY <1>1, NoWrapValue
  <2>4. AtLeastOne(d) \in Nat /\ AtLeastOne(d) > 0 /\ 2 * AtLeastOne(d) < TICK_MOD
    BY DelaysSmall
  <2> QED
    BY <1>1, <2>1, <2>2, <2>3, <2>4 DEF OnTimeInv, TimersTypeOK
<1>4. CASE timer_cancel(t)
  <2>1. QueueInv' /\ Sorted(timer_queue', expires')
    BY <1>1, <1>4, CancelEffect
  <2>2. /\ active' = [active EXCEPT ![t] = FALSE]
        /\ UNCHANGED <<tick_count, expires, in_tick, left>>
    BY <1>4 DEF timer_cancel
  <2> QED
    BY <1>1, <2>1, <2>2 DEF OnTimeInv, TimersTypeOK
<1> QED
  BY <1>2, <1>3, <1>4

\* The interrupt keeps the invariant: it counts the tick, and goes on until the
\* head is not due (timer.c:46-71, pit.c:12-16).
LEMMA InterruptKeepsOnTime ==
  ASSUME NoWrap, OnTimeInv,
         (\E t \in Timer : expire(t)) \/ pit_handler \/ tick_done \/ UNCHANGED timerVars
  PROVE  OnTimeInv'
<1>1. QueueInv /\ TimersTypeOK /\ Sorted(timer_queue, expires) /\ tick_count <= LAST_TICK
  BY DEF OnTimeInv, QueueInv
<1>2. ASSUME NEW t \in Timer, expire(t) PROVE OnTimeInv'
  <2>1. QueueInv' /\ Sorted(timer_queue', expires') /\ active[t]
    BY <1>1, <1>2, ExpireEffect
  <2>2. in_tick /\ UNCHANGED <<tick_count, in_tick, period>>
    BY <1>2 DEF expire
  <2>3. CASE period[t] > 0
    <3>1. /\ expires' = [expires EXCEPT ![t] = (tick_count + period[t]) % TICK_MOD]
          /\ left' = [left EXCEPT ![t] = period[t]]
          /\ active' = active
      BY <1>2, <2>3 DEF expire
    <3>2. period[t] \in Period /\ period[t] \in Nat /\ 2 * period[t] < TICK_MOD
      BY <1>1, <2>3, DelaysSmall DEF TimersTypeOK
    <3>3. (tick_count + period[t]) % TICK_MOD = tick_count + period[t]
      BY <1>1, <3>2, NoWrapValue
    <3> QED
      BY <1>1, <2>1, <2>2, <3>1, <3>2, <3>3 DEF OnTimeInv, TimersTypeOK
  <2>4. CASE ~(period[t] > 0)
    <3>1. active' = [active EXCEPT ![t] = FALSE] /\ UNCHANGED <<expires, left>>
      BY <1>2, <2>4 DEF expire
    <3> QED
      BY <1>1, <2>1, <2>2, <3>1 DEF OnTimeInv, TimersTypeOK
  <2> QED
    BY <2>3, <2>4
<1>3. CASE pit_handler
  <2>1. QueueInv' /\ UNCHANGED <<timer_queue, expires, active>>
    BY <1>1, <1>3, TickEffect
  <2>2. /\ ~in_tick /\ tick_count # LAST_TICK /\ tick_count' = (tick_count + 1) % TICK_MOD
        /\ in_tick' = TRUE
        /\ left' = [t \in Timer |-> IF active[t] THEN left[t] - 1 ELSE left[t]]
    BY <1>3 DEF pit_handler
  <2>3. tick_count' = tick_count + 1
    BY <1>1, <2>2, NoWrapValue
  <2>4. tick_count \in Nat /\ LAST_TICK \in Nat
    BY <1>1, TimersAssumption DEF TimersTypeOK, Tick
  <2>5. tick_count' <= LAST_TICK /\ Sorted(timer_queue', expires')
    BY <1>1, <2>1, <2>2, <2>3, <2>4
  <2>6. ASSUME NEW t \in Timer, active'[t]
        PROVE  expires'[t] = tick_count' + left'[t] /\ left'[t] >= 0 /\ 2 * left'[t] < TICK_MOD
    <3>1. /\ expires[t] = tick_count + left[t] /\ left[t] > 0 /\ 2 * left[t] < TICK_MOD
          /\ left[t] \in Int /\ left'[t] = left[t] - 1 /\ TICK_MOD \in Nat
      BY <1>1, <2>1, <2>2, <2>6, TimersAssumption DEF OnTimeInv, TimersTypeOK
    <3> QED
      BY <2>1, <2>3, <2>4, <3>1
  <2> QED
    BY <2>1, <2>2, <2>5, <2>6 DEF OnTimeInv
<1>4. CASE tick_done
  <2>1. QueueInv' /\ UNCHANGED <<timer_queue, expires, active>>
    BY <1>1, <1>4, TickEffect
  <2>2. UNCHANGED <<tick_count, left>> /\ ~Due
    BY <1>4 DEF tick_done
  <2>3. \A t \in Timer : active[t] => left[t] > 0
    BY <2>2, NotDueMeansTimeLeft
  <2> QED
    BY <1>1, <2>1, <2>2, <2>3 DEF OnTimeInv
<1>5. CASE UNCHANGED timerVars
  <2>1. QueueInv' /\ UNCHANGED <<timer_queue, expires, active, tick_count, left, in_tick>>
    BY <1>1, <1>5, TickEffect DEF timerVars
  <2> QED
    BY <1>1, <2>1 DEF OnTimeInv
<1> QED
  BY <1>2, <1>3, <1>4, <1>5

\* Nothing is queued at first.
LEMMA OnTimeInvInit == TimersInit => OnTimeInv
<1> SUFFICES ASSUME TimersInit PROVE OnTimeInv
  OBVIOUS
<1>1. timer_queue = <<>> /\ DOMAIN timer_queue = {} /\ tick_count = 0
      /\ active = [t \in Timer |-> FALSE]
  BY DEF TimersInit
<1>2. QueueInv /\ Sorted(timer_queue, expires)
  BY <1>1, QueueInvInit DEF Sorted
<1>3. 0 <= LAST_TICK
  BY TimersAssumption
<1> QED
  BY <1>1, <1>2, <1>3 DEF OnTimeInv

\* Every timer's function is called on its tick, none is left behind overdue, for
\* any number of timers, as long as the counter has not come so near its wrap
\* that an expiry lies behind it (timer.c:28 and 52): at 100 ticks a second and
\* 32 bits, for 497 days less the longest delay.
THEOREM TimersOnTime == ASSUME NoWrap PROVE TimersSpec => []OnTime
<1>1. OnTimeInv /\ [TimersNext]_timerVars => OnTimeInv'
  BY CallsKeepOnTime, InterruptKeepsOnTime DEF TimersNext
<1>2. OnTimeInv => OnTime
  <2> SUFFICES ASSUME OnTimeInv PROVE OnTime
    OBVIOUS
  <2>1. in_tick /\ Due => left[Head(timer_queue)] <= 0
    <3>1. Due => timer_queue # <<>>
      BY DEF Due
    <3> QED
      BY <3>1, DueMeansNothingLeft
  <2>2. \A t \in Queued : t \in Timer /\ active[t]
    BY DEF OnTimeInv, QueueInv, QueueIsActiveTimers
  <2> QED
    BY <2>1, <2>2 DEF OnTime, OnTimeInv
<1> QED
  BY OnTimeInvInit, <1>1, <1>2, PTL DEF TimersSpec
=============================================================================
