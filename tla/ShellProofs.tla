------------------------------ MODULE ShellProofs ------------------------------
(***************************************************************************)
(* Three parts of the shell, for every value of their constants.           *)
(*                                                                         *)
(* The timer command's arithmetic, for every number of seconds a user may  *)
(* give: what a run tries with a few words holds of all 2^32.  The proofs  *)
(* go by the number a word stands for: the operators on halves are shown   *)
(* to compute product, sum, quotient and order of those numbers, and the   *)
(* rest is about the numbers alone.                                        *)
(*                                                                         *)
(* The shutdown it schedules, for every set of delays and modes and every  *)
(* width of a tick counter that wraps.  The shutdown takes the timer queue *)
(* only through its operations, so that the lemmas of TimersProofs about   *)
(* their effects carry over; with one timer in the queue no assumption is  *)
(* needed on where the counter wraps.                                      *)
(*                                                                         *)
(* The line editor keeps within its arrays, for every length of the line   *)
(* and of the history, whatever characters come through the ring: nothing  *)
(* is assumed of what keys put there.  For every size of the screen the    *)
(* row of the cursor shows the line.  And the editor implements            *)
(* CommandLine: every step on the cells of the buffer, the circular array  *)
(* of commands and the decoder's state is one on texts, or none.           *)
(***************************************************************************)
EXTENDS ShutdownDelay, LineEditor, Shutdown, TimersProofs

-----------------------------------------------------------------------------
(* The timer command.                                                       *)

Half == {n \in Nat : n < 65536}
W32  == 4294967296

\* The word w holds the number n.
Holds(w, n) == \E h, l \in Half : w = <<h, l>> /\ n = h * 65536 + l

\* A word holds one number, below 2^32, and a number is held by one word.
LEMMA WordsAreNumbers ==
  /\ \A w \in Half \X Half : \E n \in Nat : Holds(w, n)
  /\ \A w : \A n : Holds(w, n) => w \in Half \X Half /\ n \in Nat /\ n < W32
  /\ \A w : \A m, n \in Nat : Holds(w, m) /\ Holds(w, n) => m = n
  /\ \A v, w : \A n \in Nat : Holds(v, n) /\ Holds(w, n) => v = w
<1>1. ASSUME NEW w \in Half \X Half PROVE \E n \in Nat : Holds(w, n)
  <2>1. PICK h \in Half, l \in Half : w = <<h, l>>
    OBVIOUS
  <2>2. h * 65536 + l \in Nat
    BY <2>1 DEF Half
  <2> QED
    BY <2>1, <2>2 DEF Holds
<1>2. ASSUME NEW w, NEW n, Holds(w, n) PROVE w \in Half \X Half /\ n \in Nat /\ n < W32
  <2>1. PICK h \in Half, l \in Half : w = <<h, l>> /\ n = h * 65536 + l
    BY <1>2 DEF Holds
  <2> QED
    BY <2>1 DEF Half, W32
<1>3. ASSUME NEW w, NEW m \in Nat, NEW n \in Nat, Holds(w, m), Holds(w, n) PROVE m = n
  <2>1. PICK h \in Half, l \in Half : w = <<h, l>> /\ m = h * 65536 + l
    BY <1>3 DEF Holds
  <2>2. PICK g \in Half, k \in Half : w = <<g, k>> /\ n = g * 65536 + k
    BY <1>3 DEF Holds
  <2>3. h = g /\ l = k
    BY <2>1, <2>2
  <2> QED
    BY <2>1, <2>2, <2>3
<1>4. ASSUME NEW v, NEW w, NEW n \in Nat, Holds(v, n), Holds(w, n) PROVE v = w
  <2>1. PICK h \in Half, l \in Half : v = <<h, l>> /\ n = h * 65536 + l
    BY <1>4 DEF Holds
  <2>2. PICK g \in Half, k \in Half : w = <<g, k>> /\ n = g * 65536 + k
    BY <1>4 DEF Holds
  <2>3. h = g /\ l = k
    BY <2>1, <2>2 DEF Half
  <2> QED
    BY <2>1, <2>2, <2>3
<1> QED
  BY <1>1, <1>2, <1>3, <1>4

\* A number that is two halves, put together from a quotient and a remainder.
LEMMA Halves ==
  ASSUME NEW n \in Nat
  PROVE  /\ n \div 65536 \in Nat /\ n % 65536 \in Half
         /\ n = (n \div 65536) * 65536 + (n % 65536)
BY DEF Half

\* A product and its carry out of the word, for the factors of the code
\* (timer.h:8, shutdown.c:105).
LEMMA MulHolds ==
  ASSUME NEW w, NEW n \in Nat, Holds(w, n), NEW k \in {100, 1000}
  PROVE  \E c, m \in Nat : /\ WideMul(w, k)[1] = c /\ Holds(Word(WideMul(w, k)), m)
                           /\ WideMul(w, k) = <<c, Mul(w, k)[1], Mul(w, k)[2]>>
                           /\ n * k = c * W32 + m
<1>1. PICK a \in Half, b \in Half : w = <<a, b>> /\ n = a * 65536 + b
  BY DEF Holds
<1> DEFINE lo == b * k
           d  == lo \div 65536
           l  == lo % 65536
           hi == a * k + d
           c  == hi \div 65536
           h  == hi % 65536
<1>2. WideMul(w, k) = <<c, h, l>>
  BY <1>1 DEF WideMul, HALF
<1>3. lo \in Nat /\ a * k \in Nat
  BY <1>1 DEF Half
<1>4. d \in Nat /\ l \in Half /\ lo = d * 65536 + l
  <2> HIDE DEF lo
  <2> QED
    BY <1>3, Halves
<1>5. hi \in Nat
  BY <1>3, <1>4
<1>6. c \in Nat /\ h \in Half /\ hi = c * 65536 + h
  <2> HIDE DEF hi
  <2> QED
    BY <1>5, Halves
<1>7. n * k = (a * k) * 65536 + lo
  BY <1>1 DEF Half
<1>8. hi = a * k + d
  OBVIOUS
<1> DEFINE m == h * 65536 + l
           p == a * k
<1> HIDE DEF lo, d, l, hi, c, h
<1>9. n * k = c * W32 + m /\ m \in Nat
  <2> HIDE DEF p
  <2>1. p \in Nat /\ hi = p + d /\ n * k = p * 65536 + lo
    BY <1>3, <1>7, <1>8 DEF p
  <2> QED
    BY <1>3, <1>4, <1>5, <1>6, <2>1 DEF Half, W32
<1>10. Word(WideMul(w, k)) = <<h, l>> /\ Mul(w, k) = <<h, l>>
  BY <1>2 DEF Word, Mul
<1> QED
  BY <1>2, <1>4, <1>6, <1>9, <1>10 DEF Holds

\* A sum that stays in the word.
LEMMA AddHolds ==
  ASSUME NEW w, NEW n \in Nat, Holds(w, n), NEW k \in {1, 999}
  PROVE  \E m \in Nat : Holds(Add(w, k), m) /\ (n + k < W32 => m = n + k)
<1>1. PICK a \in Half, b \in Half : w = <<a, b>> /\ n = a * 65536 + b
  BY DEF Holds
<1> DEFINE lo == b + k
           d  == lo \div 65536
           l  == lo % 65536
           hi == a + d
           c  == hi \div 65536
           h  == hi % 65536
<1>2. Add(w, k) = <<h, l>>
  BY <1>1 DEF Add, Word, WideAdd, HALF
<1>3. lo \in Nat /\ a \in Nat
  BY <1>1 DEF Half
<1>4. d \in Nat /\ l \in Half /\ lo = d * 65536 + l
  <2> HIDE DEF lo
  <2> QED
    BY <1>3, Halves
<1>5. hi \in Nat /\ hi = a + d
  BY <1>3, <1>4
<1>6. c \in Nat /\ h \in Half /\ hi = c * 65536 + h
  <2> HIDE DEF hi
  <2> QED
    BY <1>5, Halves
<1>7. lo = b + k
  OBVIOUS
<1> DEFINE m == h * 65536 + l
<1> HIDE DEF lo, d, l, hi, c, h
<1>8. n + k = c * W32 + m
  BY <1>1, <1>3, <1>4, <1>5, <1>6, <1>7 DEF Half, W32
<1>9. m \in Nat
  BY <1>4, <1>6 DEF Half
<1>10. n + k < W32 => m = n + k
  <2> HIDE DEF m
  <2> QED
    BY <1>6, <1>8, <1>9 DEF W32
<1> QED
  BY <1>2, <1>4, <1>6, <1>9, <1>10 DEF Holds

\* A quotient, for the divisors of the code.
LEMMA DivHolds ==
  ASSUME NEW w, NEW n \in Nat, Holds(w, n), NEW k \in {100, 1000}
  PROVE  \E m \in Nat : Holds(Div(w, k), m) /\ m * k <= n /\ n < m * k + k
<1>1. PICK a \in Half, b \in Half : w = <<a, b>> /\ n = a * 65536 + b
  BY DEF Holds
<1> DEFINE q == a \div k
           r == a % k
           x == r * 65536 + b
           y == x \div k
<1>2. Div(w, k) = <<q, y>>
  BY <1>1 DEF Div, HALF
<1>3. q \in Half /\ r \in Nat /\ r < k /\ a = q * k + r
  BY <1>1 DEF Half
<1>4. x = r * 65536 + b
  OBVIOUS
<1> HIDE DEF q, r, x
<1>5. x \in Nat /\ x < k * 65536
  BY <1>3, <1>4 DEF Half
<1>6. y \in Half /\ y * k <= x /\ x < y * k + k
  BY <1>5 DEF Half
<1> DEFINE m == q * 65536 + y
<1> HIDE DEF y
<1>7. m \in Nat /\ m * k <= n /\ n < m * k + k
  BY <1>1, <1>3, <1>4, <1>6 DEF Half
<1> QED
  BY <1>2, <1>3, <1>6, <1>7 DEF Holds

\* The order of words is the order of their numbers, and so is their difference.
LEMMA OrderHolds ==
  ASSUME NEW v, NEW w, NEW m \in Nat, NEW n \in Nat, Holds(v, m), Holds(w, n)
  PROVE  /\ Less(v, w) <=> m < n
         /\ m < n => Holds(Sub(w, v), n - m)
<1>1. PICK a \in Half, b \in Half : v = <<a, b>> /\ m = a * 65536 + b
  BY DEF Holds
<1>2. PICK c \in Half, d \in Half : w = <<c, d>> /\ n = c * 65536 + d
  BY DEF Holds
<1>3. Less(v, w) <=> (a < c \/ (a = c /\ b < d))
  BY <1>1, <1>2 DEF Less
<1>4. (a < c \/ (a = c /\ b < d)) <=> m < n
  BY <1>1, <1>2 DEF Half
<1>5. ASSUME m < n PROVE Holds(Sub(w, v), n - m)
  <2>1. CASE d < b
    <3>1. Sub(w, v) = <<(c - a - 1) % 65536, (d - b) % 65536>>
      BY <1>1, <1>2, <2>1 DEF Sub, HALF
    <3>2. (c - a - 1) % 65536 = c - a - 1 /\ (d - b) % 65536 = d - b + 65536
      BY <1>1, <1>2, <1>5, <2>1 DEF Half
    <3>3. c - a - 1 \in Half /\ d - b + 65536 \in Half
      BY <1>1, <1>2, <1>5, <2>1 DEF Half
    <3>4. n - m = (c - a - 1) * 65536 + (d - b + 65536)
      BY <1>1, <1>2 DEF Half
    <3> QED
      BY <3>1, <3>2, <3>3, <3>4 DEF Holds
  <2>2. CASE ~(d < b)
    <3>1. Sub(w, v) = <<(c - a - 0) % 65536, (d - b) % 65536>>
      BY <1>1, <1>2, <2>2 DEF Sub, HALF
    <3>2. (c - a - 0) % 65536 = c - a /\ (d - b) % 65536 = d - b
      BY <1>1, <1>2, <1>5, <2>2 DEF Half
    <3>3. c - a \in Half /\ d - b \in Half
      BY <1>1, <1>2, <1>5, <2>2 DEF Half
    <3>4. n - m = (c - a) * 65536 + (d - b)
      BY <1>1, <1>2 DEF Half
    <3> QED
      BY <3>1, <3>2, <3>3, <3>4 DEF Holds
  <2> QED
    BY <2>1, <2>2
<1> QED
  BY <1>3, <1>4, <1>5
-----------------------------------------------------------------------------
\* A number written as a word.
LEMMA SmallWords ==
  \A n \in Half : Holds(<<0, n>>, n)
BY DEF Holds, Half

\* A product below 2^32 keeps its value, one beyond it only its word.
LEMMA MulInWord ==
  ASSUME NEW w, NEW n \in Nat, Holds(w, n), NEW k \in {100, 1000}, n * k < W32
  PROVE  /\ WideMul(w, k) = <<0, Mul(w, k)[1], Mul(w, k)[2]>>
         /\ Holds(Mul(w, k), n * k) /\ Holds(Word(WideMul(w, k)), n * k)
<1>1. PICK c \in Nat, m \in Nat :
        /\ WideMul(w, k)[1] = c /\ Holds(Word(WideMul(w, k)), m)
        /\ WideMul(w, k) = <<c, Mul(w, k)[1], Mul(w, k)[2]>>
        /\ n * k = c * W32 + m
  <2>1. CASE k = 100
    BY <2>1, MulHolds
  <2>2. CASE k = 1000
    BY <2>2, MulHolds
  <2> QED
    BY <2>1, <2>2
<1> DEFINE p == n * k
<1>2. p \in Nat /\ p < W32 /\ p = c * W32 + m
  BY <1>1
<1> HIDE DEF p
<1>3. c = 0 /\ m = p
  BY <1>2 DEF W32
<1> QED
  BY <1>1, <1>3 DEF Mul, p

\* What MS_TO_TICKS makes of any number of milliseconds: never more ticks than
\* 2^32 / 1000, however much the product before the division lost (timer.h:8).
LEMMA TicksOfAnyWord ==
  ASSUME NEW w, NEW n \in Nat, Holds(w, n)
  PROVE  \E t \in Nat : /\ Holds(DelayTicks(w), t) /\ t <= 4294967
                        /\ n * 100 + 999 < W32 =>
                             t = (IF (n * 100 + 999) \div 1000 = 0 THEN 1
                                  ELSE (n * 100 + 999) \div 1000)
<1>1. PICK m \in Nat : Holds(Mul(w, 100), m) /\ (n * 100 < W32 => m = n * 100)
  <2>1. PICK c \in Nat, m \in Nat : /\ Holds(Word(WideMul(w, 100)), m)
                                    /\ n * 100 = c * W32 + m
    BY MulHolds
  <2>2. n * 100 < W32 => m = n * 100
    BY <2>1 DEF W32
  <2> QED
    BY <2>1, <2>2 DEF Mul
<1>2. PICK a \in Nat : /\ Holds(Add(Mul(w, 100), 999), a)
                       /\ m + 999 < W32 => a = m + 999
  BY <1>1, AddHolds
<1>3. PICK q \in Nat : /\ Holds(MS_TO_TICKS(w), q)
                       /\ q * 1000 <= a /\ a < q * 1000 + 1000
  BY <1>2, DivHolds DEF MS_TO_TICKS, PIT_HZ
<1>4. a < W32
  BY <1>2, WordsAreNumbers
<1>5. q <= 4294967
  BY <1>3, <1>4 DEF W32
<1>6. n * 100 + 999 < W32 => q = (n * 100 + 999) \div 1000
  BY <1>1, <1>2, <1>3 DEF W32
<1>7. Holds(Zero, 0) /\ Holds(<<0, 1>>, 1)
  BY SmallWords DEF Zero, Half
<1>8. CASE q = 0
  <2>1. MS_TO_TICKS(w) = Zero
    BY <1>3, <1>7, <1>8, WordsAreNumbers
  <2>2. DelayTicks(w) = <<0, 1>>
    BY <2>1 DEF DelayTicks, AtLeastOneTick
  <2> QED
    BY <1>6, <1>7, <1>8, <2>2
<1>9. CASE q # 0
  <2>1. MS_TO_TICKS(w) # Zero
    BY <1>3, <1>7, <1>9, WordsAreNumbers
  <2>2. DelayTicks(w) = MS_TO_TICKS(w)
    BY <2>1 DEF DelayTicks, AtLeastOneTick
  <2> QED
    BY <1>3, <1>5, <1>6, <1>9, <2>2
<1> QED
  BY <1>8, <1>9
-----------------------------------------------------------------------------
\* The inductive invariant: every variable is a word; the ticks are what the
\* announced seconds became when the shutdown was scheduled, and time has only
\* taken from them.
DelayWords ==
  /\ sd_default_secs \in Half \X Half
  /\ announced \in Half \X Half

DelayInv ==
  /\ DelayWords
  /\ ticks = DelayTicks(Mul(announced, 1000))
  /\ \E t, l \in Nat : Holds(ticks, t) /\ Holds(remains, l) /\ l <= t /\ t <= 4294967

\* The words of the constants are words.
LEMMA ConstantWords ==
  /\ Seconds \subseteq Half \X Half
  /\ Elapse \subseteq Half \X Half
<1>1. Half = 0 .. HALF - 1
  <2> DEFINE last == HALF - 1
  <2>1. last \in Nat /\ \A n \in Nat : n < 65536 <=> n <= last
    BY DEF HALF
  <2> HIDE DEF last
  <2>2. Half = 0 .. last
    BY <2>1 DEF Half
  <2> QED
    BY <2>2 DEF last
<1>2. Seconds \cup Elapse \subseteq Half \X Half
  BY <1>1, DelayAssumption
<1> QED
  BY <1>2

\* What a schedule leaves is within reach, whatever the seconds.
LEMMA ScheduleInReach ==
  ASSUME NEW w \in Half \X Half
  PROVE  \E t \in Nat : Holds(DelayTicks(Mul(w, 1000)), t) /\ t <= 4294967
<1>1. PICK n \in Nat : Holds(w, n)
  BY WordsAreNumbers
<1>2. PICK m \in Nat : Holds(Mul(w, 1000), m)
  BY <1>1, MulHolds DEF Mul
<1> QED
  BY <1>2, TicksOfAnyWord

LEMMA DelayInitially ==
  DelayInit => DelayInv
<1> SUFFICES ASSUME DelayInit PROVE DelayInv
  OBVIOUS
<1>1. <<0, 600>> \in Half \X Half
  BY DEF Half
<1>2. Mul(<<0, 600>>, 1000) = <<9, 10176>>
  BY DEF Mul, Word, WideMul, HALF
<1>3. PICK t \in Nat : Holds(ticks, t) /\ t <= 4294967
  BY <1>1, <1>2, ScheduleInReach DEF DelayInit
<1> QED
  BY <1>1, <1>2, <1>3 DEF DelayInit, DelayInv, DelayWords

LEMMA DelayStep ==
  DelayInv /\ [DelayNext]_delayVars => DelayInv'
<1> SUFFICES ASSUME DelayInv, [DelayNext]_delayVars
             PROVE  DelayInv'
  OBVIOUS
<1> USE DEF DelayInv, DelayWords
<1>1. ASSUME NEW w \in Half \X Half, Schedule(w), UNCHANGED sd_default_secs
      PROVE  DelayInv'
  <2>1. PICK t \in Nat : Holds(ticks', t) /\ t <= 4294967
    BY <1>1, ScheduleInReach DEF Schedule
  <2> QED
    BY <1>1, <2>1 DEF Schedule
<1>2. ASSUME NEW s \in Seconds, TimerSeconds(s) PROVE DelayInv'
  BY <1>1, <1>2, ConstantWords DEF TimerSeconds
<1>3. ASSUME NEW s \in Seconds, TimerSetDefault(s) PROVE DelayInv'
  BY <1>3, ConstantWords DEF TimerSetDefault
<1>4. CASE TimerDefault
  BY <1>1, <1>4 DEF TimerDefault
<1>5. CASE TimerCancel
  BY <1>5 DEF TimerCancel
<1>6. CASE TimerStatus
  BY <1>6 DEF TimerStatus
<1>7. ASSUME NEW n \in Elapse, Elapses(n) PROVE DelayInv'
  <2>1. PICK t \in Nat, l \in Nat : Holds(ticks, t) /\ Holds(remains, l) /\ l <= t /\ t <= 4294967
    OBVIOUS
  <2>2. PICK e \in Nat : Holds(n, e)
    BY ConstantWords, WordsAreNumbers
  <2>3. e < l /\ Holds(Sub(remains, n), l - e)
    BY <1>7, <2>1, <2>2, OrderHolds DEF Elapses
  <2>4. l - e \in Nat /\ l - e <= t
    BY <2>1, <2>3
  <2> QED
    BY <1>7, <2>1, <2>3, <2>4 DEF Elapses
<1>8. CASE UNCHANGED delayVars
  BY <1>8 DEF delayVars
<1> QED
  BY <1>2, <1>3, <1>4, <1>5, <1>6, <1>7, <1>8 DEF DelayNext

LEMMA DelayInductive ==
  DelaySpec => []DelayInv
<1> QED
  BY DelayInitially, DelayStep, PTL DEF DelaySpec
-----------------------------------------------------------------------------
\* Up to 42949 seconds the delay is the one announced.
LEMMA AnnouncedIsKept ==
  ASSUME DelayInv, ~Less(LONGEST, announced)
  PROVE  AnnouncedDelayIsReal
<1>1. PICK s \in Nat : Holds(announced, s)
  BY WordsAreNumbers DEF DelayInv, DelayWords
<1>2. s <= 42949
  <2>1. Holds(LONGEST, 42949)
    BY SmallWords DEF LONGEST, Half
  <2> QED
    BY <1>1, <2>1, OrderHolds
<1>3. Holds(Mul(announced, 1000), s * 1000)
  BY <1>1, <1>2, MulInWord DEF W32
<1>4. PICK t \in Nat : /\ Holds(ticks, t)
                       /\ t = (IF s = 0 THEN 1 ELSE s * 100)
  <2> DEFINE n == s * 1000
  <2>1. n \in Nat /\ n * 100 + 999 < W32
    BY <1>2 DEF W32
  <2>2. PICK t \in Nat : /\ Holds(DelayTicks(Mul(announced, 1000)), t)
                         /\ n * 100 + 999 < W32 =>
                              t = (IF (n * 100 + 999) \div 1000 = 0 THEN 1
                                   ELSE (n * 100 + 999) \div 1000)
    BY <1>3, <2>1, TicksOfAnyWord
  <2>3. (n * 100 + 999) \div 1000 = s * 100
    OBVIOUS
  <2> QED
    BY <1>2, <2>1, <2>2, <2>3 DEF DelayInv
<1>5. Holds(Zero, 0) /\ Holds(<<0, 1>>, 1)
  BY SmallWords DEF Zero, Half
<1>6. CASE announced = Zero
  <2>1. s = 0
    BY <1>1, <1>5, <1>6, WordsAreNumbers
  <2>2. ticks = <<0, 1>>
    BY <1>4, <1>5, <2>1, WordsAreNumbers
  <2> QED
    BY <1>6, <2>2 DEF AnnouncedDelayIsReal
<1>7. CASE announced # Zero
  <2>1. s # 0
    BY <1>1, <1>5, <1>7, WordsAreNumbers
  <2>2. /\ WideMul(announced, 100) = <<0, Mul(announced, 100)[1], Mul(announced, 100)[2]>>
        /\ Holds(Mul(announced, 100), s * 100)
    BY <1>1, <1>2, MulInWord DEF W32
  <2>3. s * 100 \in Nat
    OBVIOUS
  <2>4. Mul(announced, 100) = ticks
    BY <1>4, <2>1, <2>2, <2>3, WordsAreNumbers
  <2> QED
    BY <1>7, <2>2, <2>4 DEF AnnouncedDelayIsReal, PIT_HZ
<1> QED
  BY <1>6, <1>7

\* Whatever number of seconds the user gives, the delay is within what the signed
\* comparison of timer_tick can tell from the past; and up to 42949 seconds it is
\* exactly the delay the shell announces (shell.c:1018-1024, timer.h:8, timer.c:52).
THEOREM DelayStaysInReach ==
  DelaySpec => []DelayInReach
<1>1. DelayInv => DelayInReach
  <2> SUFFICES ASSUME DelayInv PROVE DelayInReach
    OBVIOUS
  <2>1. PICK t \in Nat : Holds(ticks, t) /\ t <= 4294967
    BY DEF DelayInv
  <2>2. PICK h \in Half, k \in Half : ticks = <<h, k>> /\ t = h * 65536 + k
    BY <2>1 DEF Holds
  <2>3. h < 32768
    BY <2>1, <2>2 DEF Half
  <2>4. ticks[1] < HALF \div 2
    BY <2>2, <2>3 DEF HALF
  <2> QED
    BY <2>4, AnnouncedIsKept DEF DelayInReach
<1> QED
  BY <1>1, DelayInductive, PTL

\* What timer status computes from the ticks left is those ticks in seconds,
\* rounded down.
LEMMA RemainingSeconds ==
  ASSUME NEW w, NEW l \in Nat, Holds(w, l), l <= 4294967
  PROVE  \E s \in Nat : /\ Holds(Div(shutdown_remaining_ms(w), 1000), s)
                        /\ s * 100 <= l /\ l < s * 100 + 100
<1>1. Holds(Mul(w, 1000), l * 1000)
  BY MulInWord DEF W32
<1>2. l * 1000 \in Nat
  OBVIOUS
<1>3. PICK p \in Nat : /\ Holds(shutdown_remaining_ms(w), p)
                       /\ p * 100 <= l * 1000 /\ l * 1000 < p * 100 + 100
  BY <1>1, <1>2, DivHolds DEF shutdown_remaining_ms, PIT_HZ
<1>4. PICK s \in Nat : /\ Holds(Div(shutdown_remaining_ms(w), 1000), s)
                       /\ s * 1000 <= p /\ p < s * 1000 + 1000
  BY <1>3, DivHolds
<1>5. s * 100 <= l /\ l < s * 100 + 100
  BY <1>3, <1>4
<1> QED
  BY <1>4, <1>5

\* The seconds timer status shows are the time left rounded down, for every delay
\* a shutdown can have: the product by 1000 never leaves the word
\* (shutdown.c:105, shell.c:1045).
THEOREM StatusIsTimeLeft ==
  DelaySpec => StatusTellsTimeLeft
<1> DEFINE from == WideMul(shown', PIT_HZ)
           to   == WideMul(Add(shown', 1), PIT_HZ)
           Told == shown' # shown => /\ from[1] = 0 /\ ~Less(remains, Word(from))
                                     /\ to[1] > 0 \/ Less(remains, Word(to))
<1>1. DelayInv /\ [DelayNext]_delayVars => [Told]_delayVars
  <2> SUFFICES ASSUME DelayInv, DelayNext, shown' # shown
               PROVE  /\ from[1] = 0 /\ ~Less(remains, Word(from))
                      /\ to[1] > 0 \/ Less(remains, Word(to))
    BY DEF delayVars
  <2>1. TimerStatus
    BY DEF DelayNext, TimerSeconds, TimerDefault, TimerSetDefault, TimerCancel, Elapses
  <2>2. PICK l \in Nat : Holds(remains, l) /\ l <= 4294967
    BY DEF DelayInv
  <2>3. PICK s \in Nat : Holds(shown', s) /\ s * 100 <= l /\ l < s * 100 + 100
    BY <2>1, <2>2, RemainingSeconds DEF TimerStatus
  <2>4. from[1] = 0 /\ Holds(Word(from), s * 100)
    <3>1. s * 100 < W32
      BY <2>2, <2>3 DEF W32
    <3> QED
      BY <2>3, <3>1, MulInWord DEF PIT_HZ
  <2>5. Holds(Add(shown', 1), s + 1)
    <3>1. s + 1 < W32
      BY <2>2, <2>3 DEF W32
    <3>2. PICK m \in Nat : Holds(Add(shown', 1), m) /\ (s + 1 < W32 => m = s + 1)
      BY <2>3, AddHolds
    <3> QED
      BY <3>1, <3>2
  <2>6. Holds(Word(to), (s + 1) * 100)
    <3>1. s + 1 \in Nat /\ (s + 1) * 100 < W32
      BY <2>2, <2>3 DEF W32
    <3> QED
      BY <2>5, <3>1, MulInWord DEF PIT_HZ
  <2>7. s * 100 \in Nat /\ (s + 1) * 100 \in Nat /\ ~(l < s * 100) /\ l < (s + 1) * 100
    BY <2>3
  <2>8. ~Less(remains, Word(from)) /\ Less(remains, Word(to))
    BY <2>2, <2>4, <2>6, <2>7, OrderHolds
  <2> QED
    BY <2>4, <2>8
<1> QED
  BY <1>1, DelayInductive, PTL DEF DelaySpec, StatusTellsTimeLeft
-----------------------------------------------------------------------------
(* The scheduled shutdown.                                                 *)

\* The flag and the timer at each step of a call: the foreground changes them
\* one after the other, the tick both at once.
FlagFollowsTimer ==
  /\ pc \in {"c_clear", "s_mode", "s_setup", "s_add"} => ~active[sd]
  /\ down = "none" =>
       /\ pc \in {"idle", "c_check"} => (sd_active <=> active[sd])
       /\ pc \in {"c_timer", "s_deadline"} => sd_active /\ active[sd]
       /\ pc \in {"c_clear", "s_setup", "s_add"} => sd_active
       /\ pc = "s_mode" => ~sd_active

\* The mode is the promised one until the call has set its own.
ModeKept ==
  down = "none" =>
    /\ sd_active /\ pc \in {"idle", "c_check", "c_timer", "c_clear"} => sd_mode = promise
    /\ pc \in {"s_setup", "s_add", "s_deadline"} => sd_mode = call.mode

\* The arguments a call of schedule_shutdown was given.
CallKept ==
  /\ pc \in {"s_mode", "s_setup", "s_add", "s_deadline"} => after = "s_mode"
  /\ after = "s_mode" => call.delay \in Delay

\* The expiry lies as many ticks ahead as remain, less than half the ring.
TimeLeft ==
  active[sd] =>
    /\ expires[sd] = (tick_count + left[sd]) % TICK_MOD
    /\ left[sd] >= 0 /\ 2 * left[sd] < TICK_MOD
    /\ ~in_tick => left[sd] > 0

\* The deadline, read from a later tick than the expiry, is not before it.
DeadlineAhead ==
  /\ pc = "s_deadline" /\ active[sd] => left[sd] <= AtLeastOne(call.delay)
  /\ pc = "idle" /\ down = "none" /\ active[sd] =>
       \E n \in Nat : /\ left[sd] <= n /\ 2 * n < TICK_MOD
                      /\ sd_deadline = (tick_count + n) % TICK_MOD

\* The timer is never periodic (shutdown.c:71).
OneShot == period[sd] = 0

\* The inductive invariant.
ShutdownInv ==
  /\ ShutdownTypeOK /\ QueueInv
  /\ FlagFollowsTimer /\ ModeKept /\ CallKept /\ OneShot /\ TimeLeft /\ DeadlineAhead
-----------------------------------------------------------------------------
(* The steps as steps of the timer queue.                                  *)

\* The shutdown's timer is the only one.
LEMMA OneTimer ==
  /\ sd \in Timer /\ Timer = {sd} /\ 0 \in Period
  /\ "poweroff" \in Mode /\ "none" \notin Mode
  BY ShutdownAssumption

\* Every step of the shutdown is an operation of the timer queue or leaves it
\* alone: timer_setup is called with no period, timer_add with the delay of the
\* call (shutdown.c:71-72).
LEMMA StepIsTimersStep ==
  ASSUME ShutdownInv, [ShutdownNext]_shutdownVars
  PROVE  [TimersNext]_timerVars
<1>1. CASE Calls \/ UNCHANGED shutdownVars
  BY <1>1 DEF Calls, schedule_default_shutdown, schedule_shutdown, cancel_shutdown, shutdownVars
<1>2. CASE CancelCheck \/ CancelClear \/ SetMode \/ SetDeadline
  BY <1>2 DEF CancelCheck, CancelClear, SetMode, SetDeadline
<1>3. CASE CancelTimer
  BY <1>3, OneTimer DEF CancelTimer, TimersNext
<1>4. CASE SetUpTimer
  BY <1>4, OneTimer DEF SetUpTimer, TimersNext
<1>5. CASE ArmTimer
  <2>1. call.delay \in Delay /\ timer_add(sd, call.delay)
    BY <1>5 DEF ArmTimer, At, ShutdownInv, CallKept
  <2> QED
    BY <2>1, OneTimer DEF TimersNext
<1>6. CASE TimerInterrupt
  BY <1>6 DEF TimerInterrupt, TimersNext
<1>7. CASE TimerExpires
  BY <1>7, OneTimer DEF TimerExpires, TimersNext
<1>8. CASE InterruptReturns
  BY <1>8 DEF InterruptReturns, TimersNext
<1> QED
  BY <1>1, <1>2, <1>3, <1>4, <1>5, <1>6, <1>7, <1>8 DEF ShutdownNext, Steps, Interrupt

\* A delay is kept as it is asked for, but for none, which is one tick.
LEMMA DelayLasts ==
  ASSUME NEW d \in Delay
  PROVE  /\ AtLeastOne(d) \in Nat /\ AtLeastOne(d) > 0 /\ 2 * AtLeastOne(d) < TICK_MOD
         /\ AtLeastOne(d) \in Tick
  BY DelaysSmall DEF Tick

\* A timer is due when no tick is left to it, and only then, wherever the
\* counter wraps (timer.c:52).
LEMMA DueWhenNothingLeft ==
  ASSUME ShutdownInv
  PROVE  Due <=> active[sd] /\ left[sd] = 0
<1>1. /\ TimersTypeOK /\ timer_queue \in Seq(Timer)
      /\ Members(timer_queue) = {u \in Timer : active[u]} /\ Distinct(timer_queue)
  BY QueueInvMeans DEF ShutdownInv, QueueInv, TimersTypeOK
<1>2. CASE timer_queue = <<>>
  <2>1. Members(timer_queue) = {}
    BY <1>2 DEF Members
  <2> QED
    BY <1>1, <1>2, <2>1, OneTimer DEF Due
<1>3. CASE timer_queue # <<>>
  <2>1. Head(timer_queue) = sd /\ active[sd]
    BY <1>1, <1>3, TailKeeps, OneTimer
  <2>2. /\ expires[sd] = (tick_count + left[sd]) % TICK_MOD
        /\ left[sd] \in Nat /\ 2 * left[sd] < TICK_MOD /\ tick_count \in Tick
    BY <1>1, <2>1, OneTimer DEF ShutdownInv, TimeLeft, TimersTypeOK
  <2>3. SignedDiff(expires[sd], tick_count) = left[sd]
    BY <2>2, SignedDiffOfDistance
  <2>4. (SignedDiff(expires[sd], tick_count) <= 0) <=> left[sd] = 0
    BY <2>2, <2>3
  <2> QED
    BY <1>3, <2>1, <2>4 DEF Due
<1> QED
  BY <1>2, <1>3
\* No step makes the timer periodic.
LEMMA StaysOneShot ==
  ASSUME ShutdownInv, [ShutdownNext]_shutdownVars
  PROVE  OneShot'
<1>1. CASE SetUpTimer
  BY <1>1, OneTimer DEF SetUpTimer, timer_setup, OneShot, ShutdownInv, QueueInv, TimersTypeOK
<1>2. CASE UNCHANGED period
  BY <1>2 DEF ShutdownInv, OneShot
<1>3. SetUpTimer \/ UNCHANGED period
  BY DEF ShutdownNext, Calls, Steps, Interrupt, shutdownVars, timerVars,
         schedule_default_shutdown, schedule_shutdown, cancel_shutdown, CancelCheck,
         CancelTimer, timer_cancel, CancelClear, SetMode, ArmTimer, timer_add, SetDeadline,
         TimerInterrupt, pit_handler, TimerExpires, expire, InterruptReturns, tick_done
<1> QED
  BY <1>1, <1>2, <1>3
-----------------------------------------------------------------------------
(* The calls.                                                              *)

\* A call begins (shutdown.c:37-39, 64-68 and 86-91).
LEMMA CallKeepsInv ==
  ASSUME ShutdownInv, QueueInv', OneShot', Calls
  PROVE  ShutdownInv'
<1>1. /\ At("idle") /\ pc' = "c_check"
      /\ IF_flag' \in BOOLEAN
      /\ UNCHANGED <<timerVars, sdVars, down, promise>>
      /\ \/ /\ after' = "s_mode"
            /\ \E m \in Mode, d \in Delay : call' = [mode |-> m, delay |-> d]
         \/ after' = "idle" /\ UNCHANGED call
  BY OneTimer DEF Calls, schedule_default_shutdown, schedule_shutdown, cancel_shutdown
<1>2. /\ UNCHANGED <<tick_count, timer_queue, expires, period, active, in_tick, left>>
      /\ UNCHANGED <<sd_active, sd_mode, sd_deadline>>
  BY <1>1 DEF timerVars, sdVars
<1>3. ShutdownTypeOK'
  <2>1. call' \in [mode : Mode, delay : Delay \cup {0}]
    BY <1>1 DEF ShutdownInv, ShutdownTypeOK
  <2> QED
    BY <1>1, <1>2, <2>1 DEF ShutdownInv, ShutdownTypeOK, QueueInv, Pc
<1>4. FlagFollowsTimer' /\ ModeKept'
  BY <1>1, <1>2 DEF ShutdownInv, FlagFollowsTimer, ModeKept, At
<1>5. CallKept'
  BY <1>1 DEF ShutdownInv, CallKept
<1>6. TimeLeft' /\ DeadlineAhead'
  BY <1>1, <1>2 DEF ShutdownInv, TimeLeft, DeadlineAhead
<1> QED
  BY <1>3, <1>4, <1>5, <1>6 DEF ShutdownInv

\* The steps of cancel_shutdown (shutdown.c:37-42).
LEMMA CancelKeepsInv ==
  ASSUME ShutdownInv, QueueInv', OneShot', CancelCheck \/ CancelTimer \/ CancelClear
  PROVE  ShutdownInv'
<1>1. CASE CancelCheck
  <2>1. /\ At("c_check") /\ pc' = IF sd_active THEN "c_timer" ELSE after
        /\ UNCHANGED <<tick_count, timer_queue, expires, period, active, in_tick, left>>
        /\ UNCHANGED <<sd_active, sd_mode, sd_deadline, after, call, IF_flag, down, promise>>
    BY <1>1 DEF CancelCheck, timerVars, sdVars
  <2>2. ShutdownTypeOK'
    BY <2>1 DEF ShutdownInv, ShutdownTypeOK, QueueInv, Pc
  <2>3. FlagFollowsTimer' /\ ModeKept'
    BY <2>1 DEF ShutdownInv, FlagFollowsTimer, ModeKept, At, ShutdownTypeOK
  <2>4. CallKept' /\ TimeLeft'
    BY <2>1 DEF ShutdownInv, CallKept, TimeLeft, ShutdownTypeOK
  <2>5. DeadlineAhead'
    BY <2>1 DEF ShutdownInv, DeadlineAhead, FlagFollowsTimer, At, ShutdownTypeOK
  <2> QED
    BY <2>2, <2>3, <2>4, <2>5 DEF ShutdownInv
<1>2. CASE CancelTimer
  <2>1. /\ At("c_timer") /\ pc' = "c_clear"
        /\ active' = [active EXCEPT ![sd] = FALSE]
        /\ UNCHANGED <<sd_active, sd_mode, sd_deadline, after, call, IF_flag, down, promise>>
    BY <1>2 DEF CancelTimer, timer_cancel, sdVars
  <2>2. ~active'[sd]
    BY <2>1, OneTimer DEF ShutdownInv, QueueInv, TimersTypeOK
  <2>3. ShutdownTypeOK'
    BY <2>1 DEF ShutdownInv, ShutdownTypeOK, QueueInv, Pc
  <2>4. FlagFollowsTimer' /\ ModeKept'
    BY <2>1, <2>2 DEF ShutdownInv, FlagFollowsTimer, ModeKept, At
  <2>5. CallKept' /\ TimeLeft' /\ DeadlineAhead'
    BY <2>1, <2>2 DEF ShutdownInv, CallKept, TimeLeft, DeadlineAhead
  <2> QED
    BY <2>3, <2>4, <2>5 DEF ShutdownInv
<1>3. CASE CancelClear
  <2>1. /\ At("c_clear") /\ sd_active' = FALSE /\ pc' = after
        /\ promise' = IF after = "idle" THEN "none" ELSE promise
        /\ UNCHANGED <<tick_count, timer_queue, expires, period, active, in_tick, left>>
        /\ UNCHANGED <<sd_mode, sd_deadline, after, call, IF_flag, down>>
    BY <1>3 DEF CancelClear, timerVars
  <2>2. ~active'[sd]
    BY <2>1 DEF ShutdownInv, FlagFollowsTimer, At
  <2>3. ShutdownTypeOK'
    BY <2>1 DEF ShutdownInv, ShutdownTypeOK, QueueInv, Pc
  <2>4. FlagFollowsTimer' /\ ModeKept'
    BY <2>1, <2>2 DEF ShutdownInv, FlagFollowsTimer, ModeKept, ShutdownTypeOK
  <2>5. CallKept' /\ TimeLeft' /\ DeadlineAhead'
    BY <2>1, <2>2 DEF ShutdownInv, ShutdownTypeOK, CallKept, TimeLeft, DeadlineAhead
  <2> QED
    BY <2>3, <2>4, <2>5 DEF ShutdownInv
<1> QED
  BY <1>1, <1>2, <1>3

\* The steps of schedule_shutdown that follow (shutdown.c:69-83).
LEMMA ScheduleKeepsInv ==
  ASSUME ShutdownInv, QueueInv', OneShot', SetMode \/ SetUpTimer \/ ArmTimer \/ SetDeadline
  PROVE  ShutdownInv'
<1>1. CASE SetMode
  <2>1. /\ At("s_mode") /\ pc' = "s_setup" /\ sd_active' = TRUE /\ sd_mode' = call.mode
        /\ UNCHANGED <<tick_count, timer_queue, expires, period, active, in_tick, left>>
        /\ UNCHANGED <<sd_deadline, after, call, IF_flag, down, promise>>
    BY <1>1 DEF SetMode, timerVars
  <2>2. ~active'[sd]
    BY <2>1 DEF ShutdownInv, FlagFollowsTimer, At
  <2>3. ShutdownTypeOK'
    BY <2>1 DEF ShutdownInv, ShutdownTypeOK, QueueInv, Pc
  <2>4. FlagFollowsTimer' /\ ModeKept'
    BY <2>1, <2>2 DEF FlagFollowsTimer, ModeKept
  <2>5. CallKept' /\ TimeLeft' /\ DeadlineAhead'
    BY <2>1, <2>2 DEF ShutdownInv, CallKept, TimeLeft, DeadlineAhead, At
  <2> QED
    BY <2>3, <2>4, <2>5 DEF ShutdownInv
<1>2. CASE SetUpTimer
  <2>1. /\ At("s_setup") /\ pc' = "s_add"
        /\ ~active[sd] /\ active' = [active EXCEPT ![sd] = FALSE]
        /\ UNCHANGED <<sd_active, sd_mode, sd_deadline, after, call, IF_flag, down, promise>>
    BY <1>2 DEF SetUpTimer, timer_setup, sdVars
  <2>2. ~active'[sd]
    BY <2>1, OneTimer DEF ShutdownInv, QueueInv, TimersTypeOK
  <2>3. ShutdownTypeOK'
    BY <2>1 DEF ShutdownInv, ShutdownTypeOK, QueueInv, Pc
  <2>4. FlagFollowsTimer' /\ ModeKept'
    BY <2>1, <2>2 DEF ShutdownInv, FlagFollowsTimer, ModeKept, At
  <2>5. CallKept' /\ TimeLeft' /\ DeadlineAhead'
    BY <2>1, <2>2 DEF ShutdownInv, CallKept, TimeLeft, DeadlineAhead, At
  <2> QED
    BY <2>3, <2>4, <2>5 DEF ShutdownInv
<1>3. CASE ArmTimer
  <2> DEFINE n == AtLeastOne(call.delay)
  <2>1. /\ At("s_add") /\ pc' = "s_deadline" /\ ~in_tick
        /\ expires' = [expires EXCEPT ![sd] = (tick_count + n) % TICK_MOD]
        /\ active' = [active EXCEPT ![sd] = TRUE]
        /\ left' = [left EXCEPT ![sd] = n]
        /\ UNCHANGED <<tick_count, period, in_tick>>
        /\ UNCHANGED <<sd_active, sd_mode, sd_deadline, after, call, IF_flag, down, promise>>
    BY <1>3 DEF ArmTimer, timer_add, sdVars
  <2>2. call.delay \in Delay
    BY <2>1 DEF ShutdownInv, CallKept, At
  <2>3. n \in Nat /\ n > 0 /\ 2 * n < TICK_MOD
    BY <2>2, DelayLasts
  <2> HIDE DEF n
  <2>4. active'[sd] /\ left'[sd] = n /\ expires'[sd] = (tick_count' + n) % TICK_MOD
    BY <2>1, OneTimer DEF ShutdownInv, QueueInv, TimersTypeOK
  <2>5. ShutdownTypeOK'
    BY <2>1 DEF ShutdownInv, ShutdownTypeOK, QueueInv, Pc
  <2>6. FlagFollowsTimer' /\ ModeKept'
    BY <2>1, <2>4 DEF ShutdownInv, FlagFollowsTimer, ModeKept, At
  <2>7. CallKept' /\ TimeLeft'
    BY <2>1, <2>3, <2>4 DEF ShutdownInv, CallKept, TimeLeft, At
  <2>8. DeadlineAhead'
    BY <2>1, <2>3, <2>4 DEF DeadlineAhead, n
  <2> QED
    BY <2>5, <2>6, <2>7, <2>8 DEF ShutdownInv
<1>4. CASE SetDeadline
  <2> DEFINE n == AtLeastOne(call.delay)
  <2>1. /\ At("s_deadline") /\ pc' = "idle" /\ promise' = call.mode
        /\ sd_deadline' = (tick_count + n) % TICK_MOD
        /\ UNCHANGED <<tick_count, timer_queue, expires, period, active, in_tick, left>>
        /\ UNCHANGED <<sd_active, sd_mode, after, call, IF_flag, down>>
    BY <1>4 DEF SetDeadline, Deadline, timerVars
  <2>2. call.delay \in Delay
    BY <2>1 DEF ShutdownInv, CallKept, At
  <2>3. n \in Nat /\ 2 * n < TICK_MOD /\ sd_deadline' \in Tick
    BY <2>1, <2>2, DelayLasts, ExpiryIsTick DEF ShutdownInv, QueueInv, TimersTypeOK
  <2>4. ShutdownTypeOK'
    BY <2>1, <2>3 DEF ShutdownInv, ShutdownTypeOK, QueueInv, Pc
  <2>5. FlagFollowsTimer' /\ ModeKept'
    BY <2>1 DEF ShutdownInv, FlagFollowsTimer, ModeKept, At
  <2>6. CallKept' /\ TimeLeft'
    BY <2>1 DEF ShutdownInv, CallKept, TimeLeft
  <2>7. DeadlineAhead'
    <3>1. left[sd] <= n
      BY <2>1 DEF ShutdownInv, DeadlineAhead, FlagFollowsTimer, At
    <3> HIDE DEF n
    <3>2. pc' # "s_deadline"
      BY <2>1
    <3> QED
      BY <2>1, <2>3, <3>1, <3>2 DEF DeadlineAhead
  <2> QED
    BY <2>4, <2>5, <2>6, <2>7 DEF ShutdownInv
<1> QED
  BY <1>1, <1>2, <1>3, <1>4
-----------------------------------------------------------------------------
(* The interrupt.                                                          *)

\* A tick takes one from what remains to the expiry and to the deadline alike.
LEMMA TickKeepsInv ==
  ASSUME ShutdownInv, QueueInv', OneShot', TimerInterrupt
  PROVE  ShutdownInv'
<1>1. /\ ~in_tick /\ in_tick' = TRUE /\ tick_count' = (tick_count + 1) % TICK_MOD
      /\ left' = [t \in Timer |-> IF active[t] THEN left[t] - 1 ELSE left[t]]
      /\ UNCHANGED <<timer_queue, expires, period, active>>
      /\ UNCHANGED <<sd_active, sd_mode, sd_deadline, pc, after, call, IF_flag, down, promise>>
  BY DEF TimerInterrupt, pit_handler, sdVars, callVars
<1>2. ShutdownTypeOK'
  BY <1>1 DEF ShutdownInv, ShutdownTypeOK, QueueInv
<1>3. FlagFollowsTimer' /\ ModeKept' /\ CallKept'
  BY <1>1 DEF ShutdownInv, FlagFollowsTimer, ModeKept, CallKept
<1>4. ASSUME active[sd]
      PROVE  TimeLeft' /\ DeadlineAhead'
  <2>1. /\ left[sd] \in Int /\ left[sd] > 0 /\ 2 * left[sd] < TICK_MOD
        /\ expires[sd] = (tick_count + left[sd]) % TICK_MOD /\ tick_count \in Tick
    BY <1>1, <1>4, OneTimer DEF ShutdownInv, TimeLeft, QueueInv, TimersTypeOK
  <2>2. left'[sd] = left[sd] - 1
    BY <1>1, <1>4, OneTimer
  <2>3. ASSUME NEW n \in Nat, n > 0, 2 * n < TICK_MOD
        PROVE  (tick_count + n) % TICK_MOD = (tick_count' + (n - 1)) % TICK_MOD
    <3>1. n \in Tick
      BY <2>3, TimersAssumption DEF Tick
    <3> QED
      BY <1>1, <2>1, <2>3, <3>1, OneTickNearer
  <2>4. TimeLeft'
    <3>1. expires'[sd] = (tick_count' + left'[sd]) % TICK_MOD
      BY <1>1, <2>1, <2>2, <2>3
    <3>2. left'[sd] >= 0 /\ 2 * left'[sd] < TICK_MOD
      BY <2>1, <2>2, TimersAssumption
    <3> QED
      BY <1>1, <3>1, <3>2 DEF TimeLeft
  <2>5. pc' = "s_deadline" => left'[sd] <= AtLeastOne(call'.delay)
    <3> SUFFICES ASSUME pc = "s_deadline" PROVE left'[sd] <= AtLeastOne(call.delay)
      BY <1>1
    <3>1. left[sd] <= AtLeastOne(call.delay)
      BY <1>4 DEF ShutdownInv, DeadlineAhead
    <3>2. AtLeastOne(call.delay) \in Nat
      BY DelayLasts DEF ShutdownInv, CallKept
    <3> QED
      BY <2>1, <2>2, <3>1, <3>2
  <2>6. ASSUME pc = "idle", down = "none"
        PROVE  \E n \in Nat : /\ left'[sd] <= n /\ 2 * n < TICK_MOD
                              /\ sd_deadline' = (tick_count' + n) % TICK_MOD
    <3>1. PICK n \in Nat : /\ left[sd] <= n /\ 2 * n < TICK_MOD
                           /\ sd_deadline = (tick_count + n) % TICK_MOD
      BY <1>4, <2>6 DEF ShutdownInv, DeadlineAhead
    <3>2. n > 0 /\ n - 1 \in Nat /\ left'[sd] <= n - 1 /\ 2 * (n - 1) < TICK_MOD
      BY <2>1, <2>2, <3>1, TimersAssumption
    <3>3. sd_deadline' = (tick_count' + (n - 1)) % TICK_MOD
      BY <1>1, <2>3, <3>1, <3>2
    <3> QED
      BY <3>2, <3>3
  <2>7. DeadlineAhead'
    BY <1>1, <2>5, <2>6 DEF DeadlineAhead
  <2> QED
    BY <2>4, <2>7
<1>5. ~active[sd] => TimeLeft' /\ DeadlineAhead'
  BY <1>1 DEF TimeLeft, DeadlineAhead
<1> QED
  BY <1>2, <1>3, <1>4, <1>5 DEF ShutdownInv

\* The timer expires with a shutdown pending, and the machine goes down
\* (shutdown.c:50-62): the timer is not periodic, since it was set up with none.
LEMMA ExpiryShutsDown ==
  ASSUME ShutdownInv, TimerExpires
  PROVE  /\ active[sd] /\ left[sd] = 0 /\ down = "none"
         /\ sd_active /\ ~sd_active' /\ down' = sd_mode /\ down' # "none"
<1>1. /\ down = "none" /\ Due /\ shutdown_fire
  BY DEF TimerExpires, expire
<1>2. active[sd] /\ left[sd] = 0
  BY <1>1, DueWhenNothingLeft
<1>3. sd_active
  BY <1>1, <1>2 DEF ShutdownInv, FlagFollowsTimer, ShutdownTypeOK, Pc
<1>4. sd_mode # "none"
  BY OneTimer DEF ShutdownInv, ShutdownTypeOK
<1> QED
  BY <1>1, <1>2, <1>3, <1>4 DEF shutdown_fire

\* The machine is down and nothing is pending.
LEMMA ExpiryKeepsInv ==
  ASSUME ShutdownInv, QueueInv', OneShot', TimerExpires
  PROVE  ShutdownInv'
<1>1. /\ active[sd] /\ left[sd] = 0 /\ down = "none"
      /\ sd_active /\ ~sd_active' /\ down' = sd_mode /\ down' # "none"
  BY ExpiryShutsDown
<1>2. /\ UNCHANGED <<sd_mode, sd_deadline, pc, after, call, IF_flag, promise>>
      /\ expire(sd)
  BY DEF TimerExpires, callVars
<1>3. active' = [active EXCEPT ![sd] = FALSE]
  BY <1>2 DEF expire, ShutdownInv, OneShot
<1>4. ~active'[sd]
  BY <1>3, OneTimer DEF ShutdownInv, QueueInv, TimersTypeOK
<1>5. sd_active' = FALSE
  BY <1>1 DEF TimerExpires, shutdown_fire
<1>6. ShutdownTypeOK'
  BY <1>1, <1>2, <1>5 DEF ShutdownInv, ShutdownTypeOK, QueueInv
<1>7. FlagFollowsTimer' /\ ModeKept' /\ CallKept'
  BY <1>1, <1>2, <1>4 DEF ShutdownInv, FlagFollowsTimer, ModeKept, CallKept
<1>8. TimeLeft' /\ DeadlineAhead'
  BY <1>4 DEF TimeLeft, DeadlineAhead
<1> QED
  BY <1>6, <1>7, <1>8 DEF ShutdownInv

\* The interrupt returns when nothing is due, or nothing happens.
LEMMA ReturnKeepsInv ==
  ASSUME ShutdownInv, QueueInv', OneShot', InterruptReturns \/ UNCHANGED shutdownVars
  PROVE  ShutdownInv'
<1>1. /\ UNCHANGED <<tick_count, timer_queue, expires, period, active, left>>
      /\ UNCHANGED <<sd_active, sd_mode, sd_deadline, pc, after, call, IF_flag, down, promise>>
      /\ in_tick' = in_tick \/ ~Due
  BY DEF InterruptReturns, tick_done, shutdownVars, timerVars, sdVars, callVars
<1>2. ShutdownTypeOK'
  BY <1>1 DEF ShutdownInv, ShutdownTypeOK, QueueInv
<1>3. FlagFollowsTimer' /\ ModeKept' /\ CallKept' /\ DeadlineAhead'
  BY <1>1 DEF ShutdownInv, FlagFollowsTimer, ModeKept, CallKept, DeadlineAhead
<1>4. TimeLeft'
  <2>1. left[sd] \in Int
    BY OneTimer DEF ShutdownInv, QueueInv, TimersTypeOK
  <2>2. ~Due /\ active[sd] => left[sd] > 0
    BY <2>1, DueWhenNothingLeft DEF ShutdownInv, TimeLeft
  <2> QED
    BY <1>1, <2>2 DEF ShutdownInv, TimeLeft
<1> QED
  BY <1>2, <1>3, <1>4 DEF ShutdownInv
-----------------------------------------------------------------------------
(* The invariant and what follows from it.                                 *)

\* At first nothing is pending and no call under way (shutdown.c:10-13).
LEMMA ShutdownInvInit == ShutdownInit => ShutdownInv
<1> SUFFICES ASSUME ShutdownInit PROVE ShutdownInv
  OBVIOUS
<1>1. /\ sd_active = FALSE /\ sd_mode = "poweroff" /\ sd_deadline = 0
      /\ pc = "idle" /\ after = "idle" /\ call = [mode |-> sd_mode, delay |-> 0]
      /\ IF_flag = TRUE /\ down = "none" /\ promise = "none"
      /\ period = [t \in Timer |-> 0] /\ active = [t \in Timer |-> FALSE]
      /\ TimersInit
  BY DEF ShutdownInit, TimersInit
<1>2. QueueInv
  BY <1>1, QueueInvInit
<1>3. ~active[sd] /\ OneShot
  BY <1>1, OneTimer DEF OneShot
<1>4. ShutdownTypeOK
  BY <1>1, <1>2, OneTimer, DelaysSmall DEF ShutdownTypeOK, QueueInv, Pc
<1>5. FlagFollowsTimer /\ ModeKept /\ CallKept /\ TimeLeft /\ DeadlineAhead
  BY <1>1, <1>3 DEF FlagFollowsTimer, ModeKept, CallKept, TimeLeft, DeadlineAhead
<1> QED
  BY <1>2, <1>3, <1>4, <1>5 DEF ShutdownInv

\* Every step of the foreground and of the tick keeps it.
LEMMA ShutdownInvNext == ShutdownInv /\ [ShutdownNext]_shutdownVars => ShutdownInv'
<1> SUFFICES ASSUME ShutdownInv, [ShutdownNext]_shutdownVars PROVE ShutdownInv'
  OBVIOUS
<1>1. QueueInv'
  BY StepIsTimersStep, QueueInvNext DEF ShutdownInv
<1>2. OneShot'
  BY StaysOneShot
<1>3. CASE Calls
  BY <1>1, <1>2, <1>3, CallKeepsInv
<1>4. CASE CancelCheck \/ CancelTimer \/ CancelClear
  BY <1>1, <1>2, <1>4, CancelKeepsInv
<1>5. CASE SetMode \/ SetUpTimer \/ ArmTimer \/ SetDeadline
  BY <1>1, <1>2, <1>5, ScheduleKeepsInv
<1>6. CASE TimerInterrupt
  BY <1>1, <1>2, <1>6, TickKeepsInv
<1>7. CASE TimerExpires
  BY <1>1, <1>2, <1>7, ExpiryKeepsInv
<1>8. CASE InterruptReturns \/ UNCHANGED shutdownVars
  BY <1>1, <1>2, <1>8, ReturnKeepsInv
<1> QED
  BY <1>3, <1>4, <1>5, <1>6, <1>7, <1>8 DEF ShutdownNext, Steps, Interrupt

\* The shutdown uses the timer queue only as timer.c allows: every behaviour is
\* one of the timer queue, in which timer_setup meets no linked timer
\* (shutdown.c:37-83 and timer.c:87-131).
THEOREM ShutdownUsesTimers == ShutdownSpec => TimersSpec
<1>1. ShutdownInit => TimersInit
  BY DEF ShutdownInit
<1>2. ShutdownInv /\ [ShutdownNext]_shutdownVars => [TimersNext]_timerVars
  BY StepIsTimersStep
<1> QED
  BY ShutdownInvInit, ShutdownInvNext, <1>1, <1>2, PTL DEF ShutdownSpec, TimersSpec

\* Between calls a shutdown is pending exactly when its timer is queued, whatever
\* the tick did between two steps of a call; and timer_setup never finds the
\* timer queued (shutdown.c:39-42, 64-77 and 86-91).
THEOREM PendingShutdownIsArmed == ShutdownSpec => []PendingIsArmed
<1>1. ShutdownInv => PendingIsArmed
  <2> SUFFICES ASSUME ShutdownInv PROVE PendingIsArmed
    OBVIOUS
  <2>1. sd \in Queued <=> active[sd]
    BY OneTimer DEF ShutdownInv, QueueInv, QueueIsActiveTimers
  <2> QED
    BY <2>1 DEF ShutdownInv, FlagFollowsTimer, PendingIsArmed, Idle
<1> QED
  BY ShutdownInvInit, ShutdownInvNext, <1>1, PTL DEF ShutdownSpec

\* A pending shutdown's status says that time is left, although its deadline is
\* computed from a tick counter read later than the timer's, and although the
\* counter wraps (shutdown.c:77-83 and 100-102).
THEOREM PendingShutdownHasTimeLeft == ShutdownSpec => []PendingHasTimeLeft
<1>1. ShutdownInv => PendingHasTimeLeft
  <2> SUFFICES ASSUME ShutdownInv, Idle, sd_active
               PROVE  SignedDiff(sd_deadline, tick_count) > 0
    BY DEF PendingHasTimeLeft
  <2>1. pc = "idle" /\ down = "none" /\ ~in_tick /\ active[sd]
    BY DEF Idle, ShutdownInv, FlagFollowsTimer
  <2>2. PICK n \in Nat : /\ left[sd] <= n /\ 2 * n < TICK_MOD
                         /\ sd_deadline = (tick_count + n) % TICK_MOD
    BY <2>1 DEF ShutdownInv, DeadlineAhead
  <2>3. left[sd] \in Int /\ left[sd] > 0 /\ tick_count \in Tick
    BY <2>1, OneTimer DEF ShutdownInv, TimeLeft, QueueInv, TimersTypeOK
  <2>4. SignedDiff(sd_deadline, tick_count) = n
    BY <2>2, <2>3, SignedDiffOfDistance
  <2> QED
    BY <2>2, <2>3, <2>4
<1> QED
  BY ShutdownInvInit, ShutdownInvNext, <1>1, PTL DEF ShutdownSpec

\* The machine goes down only as a call asked, in its mode and on its tick, and
\* never after a cancel_shutdown has returned (shutdown.c:37-91).
THEOREM MachineGoesDownAsPromised == ShutdownSpec => GoesDownAsPromised
<1> DEFINE Asked == /\ down' \in {promise, call.mode} \ {"none"}
                    /\ pc = "idle" => down' = promise
                    /\ left[sd] = 0
<1>1. ASSUME ShutdownInv, [ShutdownNext]_shutdownVars, down' # down
      PROVE  Asked
  <2>1. TimerExpires
    BY <1>1 DEF ShutdownNext, Calls, Steps, Interrupt, shutdownVars,
                schedule_default_shutdown, schedule_shutdown, cancel_shutdown, CancelCheck,
                CancelTimer, CancelClear, SetMode, SetUpTimer, ArmTimer, SetDeadline,
                TimerInterrupt, InterruptReturns
  <2>2. /\ active[sd] /\ left[sd] = 0 /\ down = "none" /\ sd_active
        /\ down' = sd_mode /\ down' # "none"
    BY <1>1, <2>1, ExpiryShutsDown
  <2>3. pc \in {"idle", "c_check", "c_timer", "s_deadline"}
    BY <1>1, <2>2 DEF ShutdownInv, FlagFollowsTimer, ShutdownTypeOK, Pc
  <2> QED
    BY <1>1, <2>2, <2>3 DEF ShutdownInv, ModeKept
<1>2. ShutdownInv /\ [ShutdownNext]_shutdownVars => [down' # down => Asked]_shutdownVars
  BY <1>1
<1> QED
  BY ShutdownInvInit, ShutdownInvNext, <1>2, PTL DEF ShutdownSpec, GoesDownAsPromised
-----------------------------------------------------------------------------
(* The line editor.                                                         *)

Symbols == Printable \cup {NUL}

\* The characters that come through the ring, whatever they are.
FromKeys == UNION {Range(KeyChars[k]) : k \in DOMAIN KeyChars}
Char == FromKeys \cup {ESC}

\* A string that ends within its array.
Ends(s) == \E n \in Cell : s[n] = NUL

\* The inductive invariant: LineInBounds, the entries are arrays as the line is, and
\* the buffers of characters are sequences; the bracket of a sequence is its second
\* character, so that it cannot be the one that overruns the decoder's buffer.
BoundsInv ==
  /\ LineInBounds
  /\ history_count \in Nat
  /\ history \in [0 .. HISTORY_SIZE - 1 -> [Cell -> Symbols]]
  /\ esc_buf \in Seq(Char) /\ todo \in Seq(Char)
  /\ esc_state = "start" => esc_pos = 1

\* What is known of the sizes.
LEMMA Sizes ==
  /\ MAX_CMD_LEN \in Nat \ {0} /\ HISTORY_SIZE \in Nat \ {0}
  /\ 0 \in Cell
BY LineEditorAssumption DEF Cell

\* The length of a string that ends: the first terminator is within its array.
LEMMA StrLenIs ==
  ASSUME NEW s, Ends(s)
  PROVE  /\ StrLen(s) \in Cell /\ StrLen(s) \in Nat /\ s[StrLen(s)] = NUL
         /\ \A m \in Cell : m < StrLen(s) => s[m] # NUL
<1> DEFINE EndsAt(n) == s[n] = NUL /\ \A m \in 0 .. n - 1 : s[m] # NUL
           S == {n \in Cell : s[n] = NUL}
<1>1. S \in SUBSET Nat /\ S # {}
  BY DEF Ends, Cell
<1>2. PICK n \in S : \A m \in S : n <= m
  BY <1>1, LeastNatural
<1>3. \A m \in 0 .. n - 1 : s[m] # NUL
  <2> SUFFICES ASSUME NEW m \in 0 .. n - 1, s[m] = NUL PROVE FALSE
    OBVIOUS
  <2>1. n \in Nat /\ n \in Cell /\ MAX_CMD_LEN \in Nat
    BY Sizes DEF Cell
  <2>2. m \in Cell /\ ~(n <= m)
    BY <2>1 DEF Cell
  <2> QED
    BY <1>2, <2>2
<1>4. \E k \in Cell : EndsAt(k)
  BY <1>2, <1>3
<1> HIDE DEF EndsAt
<1>5. (CHOOSE k \in Cell : EndsAt(k)) \in Cell /\ EndsAt(CHOOSE k \in Cell : EndsAt(k))
  BY <1>4
<1>6. StrLen(s) \in Cell /\ EndsAt(StrLen(s))
  BY <1>5 DEF StrLen, EndsAt
<1> DEFINE end == StrLen(s)
<1>7. end \in Cell /\ s[end] = NUL /\ \A m \in 0 .. end - 1 : s[m] # NUL
  BY <1>6 DEF EndsAt
<1> HIDE DEF end
<1>8. end \in Nat /\ \A m \in Cell : m < end => m \in 0 .. end - 1
  BY <1>7, Sizes DEF Cell
<1> QED
  BY <1>7, <1>8 DEF end

\* A copy of a string that ends is an array that ends.
LEMMA CopyEnds ==
  ASSUME NEW d \in [Cell -> Symbols], NEW s \in [Cell -> Symbols], Ends(s)
  PROVE  StrCpy(d, s) \in [Cell -> Symbols] /\ Ends(StrCpy(d, s))
<1>1. StrLen(s) \in Cell /\ s[StrLen(s)] = NUL
  BY StrLenIs
<1> DEFINE end == StrLen(s)
<1>2. end <= end
  <2>1. end \in Int
    BY <1>1, Sizes DEF Cell
  <2> HIDE DEF end
  <2> QED
    BY <2>1
<1>3. StrCpy(d, s)[StrLen(s)] = NUL
  BY <1>1, <1>2 DEF StrCpy
<1>4. StrCpy(d, s) \in [Cell -> Symbols]
  BY DEF StrCpy
<1> QED
  BY <1>1, <1>3, <1>4 DEF Ends
-----------------------------------------------------------------------------
(* Each operation on the line keeps it within its array.                   *)

LineOK ==
  /\ cmd_buffer \in [Cell -> Symbols]
  /\ cmd_len \in Cell /\ cmd_pos \in 0 .. cmd_len

LEMMA SetLineKeeps ==
  ASSUME NEW buf \in [Cell -> Symbols], NEW len \in Cell, NEW pos \in 0 .. len,
         SetLine(buf, pos, len)
  PROVE  LineOK'
BY DEF SetLine, LineOK

LEMMA KeepKeeps ==
  ASSUME LineOK, Keep
  PROVE  LineOK'
BY DEF Keep, LineOK, bufVars

LEMMA InsertedCells ==
  ASSUME LineOK, NEW c \in Symbols
  PROVE  Inserted(c) \in [Cell -> Symbols]
<1> SUFFICES ASSUME NEW n \in Cell
             PROVE  (CASE n = cmd_pos -> c
                       [] n \in cmd_pos + 1 .. cmd_len -> cmd_buffer[n - 1]
                       [] OTHER -> cmd_buffer[n]) \in Symbols
  BY DEF Inserted
<1>1. cmd_pos \in Nat /\ cmd_len \in Nat /\ n \in Nat /\ MAX_CMD_LEN \in Nat
  BY Sizes DEF LineOK, Cell
<1>2. n \in cmd_pos + 1 .. cmd_len => n - 1 \in Cell
  BY <1>1 DEF Cell
<1>3. n \in cmd_pos + 1 .. cmd_len => cmd_buffer[n - 1] \in Symbols
  BY <1>2 DEF LineOK
<1>4. cmd_buffer[n] \in Symbols
  BY DEF LineOK
<1> QED
  BY <1>3, <1>4

LEMMA InsertKeepsCells ==
  ASSUME LineOK, NEW c \in Symbols, shell_insert_char(c)
  PROVE  LineOK'
<1>1. Inserted(c) \in [Cell -> Symbols]
  BY InsertedCells
<1>2. CASE cmd_len >= MAX_CMD_LEN - 1
  BY <1>2, KeepKeeps DEF shell_insert_char
<1>3. CASE ~(cmd_len >= MAX_CMD_LEN - 1)
  <2>1. cmd_len + 1 \in Cell /\ cmd_pos + 1 \in 0 .. cmd_len + 1
    BY <1>3, Sizes DEF LineOK, Cell
  <2>2. SetLine(Inserted(c), cmd_pos + 1, cmd_len + 1)
    BY <1>3 DEF shell_insert_char
  <2> QED
    BY <1>1, <2>1, <2>2, SetLineKeeps
<1> QED
  BY <1>2, <1>3

\* The characters that move to the front come from within the line.
LEMMA ClosedIsLine ==
  ASSUME LineOK, NEW from \in Nat
  PROVE  Closed(from) \in [Cell -> Symbols]
<1> SUFFICES ASSUME NEW n \in Cell
             PROVE  (IF n \in from .. cmd_len - 2 THEN cmd_buffer[n + 1]
                     ELSE cmd_buffer[n]) \in Symbols
  BY DEF Closed
<1>1. cmd_len \in Nat /\ n \in Nat /\ MAX_CMD_LEN \in Nat /\ cmd_len < MAX_CMD_LEN
  BY Sizes DEF LineOK, Cell
<1>2. n \in from .. cmd_len - 2 => n + 1 \in Cell
  BY <1>1 DEF Cell
<1> QED
  BY <1>2 DEF LineOK

LEMMA DeleteKeeps ==
  ASSUME LineOK, shell_delete_char_before \/ shell_delete_char_at
  PROVE  LineOK'
<1>1. cmd_len \in Nat /\ cmd_pos \in Nat /\ cmd_pos <= cmd_len
      /\ MAX_CMD_LEN \in Nat /\ cmd_len < MAX_CMD_LEN
  BY Sizes DEF LineOK, Cell
<1>2. CASE Keep
  BY <1>2, KeepKeeps
<1>3. CASE cmd_pos # 0 /\ SetLine(Closed(cmd_pos - 1), cmd_pos - 1, cmd_len - 1)
  <2>1. cmd_pos - 1 \in Nat /\ cmd_len - 1 \in Cell /\ cmd_pos - 1 \in 0 .. cmd_len - 1
    BY <1>1, <1>3 DEF Cell
  <2> QED
    BY <1>3, <2>1, ClosedIsLine, SetLineKeeps
<1>4. CASE ~(cmd_pos >= cmd_len) /\ SetLine(Closed(cmd_pos), cmd_pos, cmd_len - 1)
  <2>1. cmd_len - 1 \in Cell /\ cmd_pos \in 0 .. cmd_len - 1
    BY <1>1, <1>4 DEF Cell
  <2> QED
    BY <1>1, <1>4, <2>1, ClosedIsLine, SetLineKeeps
<1> QED
  BY <1>2, <1>3, <1>4 DEF shell_delete_char_before, shell_delete_char_at

LEMMA MoveKeeps ==
  ASSUME LineOK, shell_move_left \/ shell_move_right \/ shell_move_home \/ shell_move_end
  PROVE  LineOK'
<1>1. cmd_len \in Nat /\ cmd_pos \in Nat /\ cmd_pos <= cmd_len
  BY Sizes DEF LineOK, Cell
<1>2. CASE Keep
  BY <1>2, KeepKeeps
<1>3. ASSUME NEW pos \in 0 .. cmd_len, MoveTo(pos) PROVE LineOK'
  BY <1>3, SetLineKeeps DEF MoveTo, LineOK
<1>4. /\ 0 \in 0 .. cmd_len /\ cmd_len \in 0 .. cmd_len
      /\ cmd_pos > 0 => cmd_pos - 1 \in 0 .. cmd_len
      /\ cmd_pos < cmd_len => cmd_pos + 1 \in 0 .. cmd_len
  BY <1>1
<1> QED
  BY <1>2, <1>3, <1>4 DEF shell_move_left, shell_move_right, shell_move_home, shell_move_end
-----------------------------------------------------------------------------
(* The history and the decoder.                                            *)

HistoryOK ==
  /\ history_count \in Nat /\ history_index \in -1 .. history_count - 1
  /\ history \in [0 .. HISTORY_SIZE - 1 -> [Cell -> Symbols]]
  /\ \A h \in DOMAIN history : Ends(history[h])

DecoderOK ==
  /\ esc_buf \in Seq(Char) /\ esc_pos < ESC_BUF
  /\ esc_state = "none" <=> esc_buf = <<>>
  /\ esc_state = "start" => esc_pos = 1

LEMMA InvParts ==
  BoundsInv <=> LineOK /\ HistoryOK /\ DecoderOK /\ todo \in Seq(Char)
BY DEF BoundsInv, LineInBounds, LineOK, HistoryOK, DecoderOK, Ends, Symbols, esc_pos

LEMMA PartsKept ==
  ASSUME LineOK', HistoryOK', DecoderOK', todo' \in Seq(Char)
  PROVE  BoundsInv'
BY DEF BoundsInv, LineInBounds, LineOK, HistoryOK, DecoderOK, Ends, Symbols, esc_pos

LEMMA HistoryStays ==
  ASSUME HistoryOK, UNCHANGED histVars
  PROVE  HistoryOK'
BY DEF HistoryOK, histVars, Ends

\* Every index of the history finds an array that ends.
LEMMA EntryEnds ==
  ASSUME HistoryOK, NEW i \in Nat
  PROVE  Entry(i) \in [Cell -> Symbols] /\ Ends(Entry(i))
<1>1. i % HISTORY_SIZE \in 0 .. HISTORY_SIZE - 1
  BY Sizes
<1> QED
  BY <1>1 DEF HistoryOK, Entry

LEMMA LineFromKeeps ==
  ASSUME LineOK, NEW s \in [Cell -> Symbols], Ends(s), LineFrom(s)
  PROVE  LineOK'
<1>1. StrLen(s) \in Cell /\ StrCpy(cmd_buffer, s) \in [Cell -> Symbols]
  BY StrLenIs, CopyEnds DEF LineOK
<1>2. StrLen(s) \in 0 .. StrLen(s)
  <2> DEFINE end == StrLen(s)
  <2>1. end \in Nat
    BY <1>1, Sizes DEF Cell
  <2> HIDE DEF end
  <2>2. end \in 0 .. end
    BY <2>1
  <2> QED
    BY <2>2 DEF end
<1> QED
  BY <1>1, <1>2, SetLineKeeps DEF LineFrom

LEMMA UpKeeps ==
  ASSUME LineOK, HistoryOK, HistoryUp
  PROVE  LineOK' /\ HistoryOK'
<1>1. CASE history_count = 0
  BY <1>1, KeepKeeps, HistoryStays DEF HistoryUp
<1>2. CASE history_count # 0
  <2>1. /\ history_index' = CASE history_index = -1 -> history_count - 1
                              [] history_index > 0  -> history_index - 1
                              [] OTHER              -> history_index
        /\ LineFrom(Entry(history_index')) /\ KeepHistory
    BY <1>2 DEF HistoryUp
  <2>2. history_index' \in Nat /\ history_index' \in -1 .. history_count - 1
    BY <1>2, <2>1 DEF HistoryOK
  <2>3. LineOK'
    BY <2>1, <2>2, EntryEnds, LineFromKeeps
  <2>4. HistoryOK'
    BY <2>1, <2>2 DEF HistoryOK, KeepHistory, Ends
  <2> QED
    BY <2>3, <2>4
<1> QED
  BY <1>1, <1>2

LEMMA DownKeeps ==
  ASSUME LineOK, HistoryOK, HistoryDown
  PROVE  LineOK' /\ HistoryOK'
<1>1. CASE history_index = -1
  BY <1>1, KeepKeeps, HistoryStays DEF HistoryDown
<1>2. CASE history_index # -1 /\ history_index < history_count - 1
  <2>1. history_index' = history_index + 1 /\ LineFrom(Entry(history_index')) /\ KeepHistory
    BY <1>2 DEF HistoryDown
  <2>2. history_index' \in Nat /\ history_index' \in -1 .. history_count - 1
    BY <1>2, <2>1 DEF HistoryOK
  <2>3. LineOK'
    BY <2>1, <2>2, EntryEnds, LineFromKeeps
  <2>4. HistoryOK'
    BY <2>1, <2>2 DEF HistoryOK, KeepHistory, Ends
  <2> QED
    BY <2>3, <2>4
<1>3. CASE history_index # -1 /\ ~(history_index < history_count - 1)
  <2>1. /\ history_index' = -1 /\ KeepHistory
        /\ SetLine([cmd_buffer EXCEPT ![0] = NUL], 0, 0)
    BY <1>3 DEF HistoryDown
  <2>2. [cmd_buffer EXCEPT ![0] = NUL] \in [Cell -> Symbols]
    BY DEF LineOK, Symbols
  <2>3. LineOK'
    <3>1. 0 \in 0 .. 0
      OBVIOUS
    <3> QED
      BY <2>1, <2>2, <3>1, Sizes, SetLineKeeps
  <2>4. -1 \in -1 .. history_count - 1
    BY DEF HistoryOK
  <2>5. HistoryOK'
    BY <2>1, <2>4 DEF HistoryOK, KeepHistory, Ends
  <2> QED
    BY <2>3, <2>5
<1> QED
  BY <1>1, <1>2, <1>3

\* Enter hands the line over with its terminator, so the entry it becomes ends.
LEMMA EnterKeeps ==
  ASSUME LineOK, HistoryOK, Enter
  PROVE  LineOK' /\ HistoryOK'
<1>1. cmd_len' = 0 /\ cmd_pos' = 0 /\ history_index' = -1
  BY DEF Enter, Prompt
<1>2. CASE cmd_len > 0
  <2>1. cmd_buffer' = [cmd_buffer EXCEPT ![cmd_len] = NUL] /\ shell_add_history(cmd_buffer')
    BY <1>2 DEF Enter
  <2>2. cmd_buffer' \in [Cell -> Symbols] /\ Ends(cmd_buffer')
    BY <2>1 DEF LineOK, Symbols, Ends
  <2>3. LineOK'
    BY <1>1, <2>2, Sizes DEF LineOK
  <2>4. CASE KeepHistory
    <3>1. -1 \in -1 .. history_count - 1
      BY DEF HistoryOK
    <3> QED
      BY <1>1, <2>4, <3>1, <2>3 DEF HistoryOK, KeepHistory, Ends
  <2>5. CASE /\ history' = [history EXCEPT ![history_count % HISTORY_SIZE] =
                                              StrCpy(@, cmd_buffer')]
             /\ history_count' = history_count + 1
    <3> DEFINE i == history_count % HISTORY_SIZE
    <3>1. i \in 0 .. HISTORY_SIZE - 1 /\ history_count' \in Nat
      BY <2>5, Sizes DEF HistoryOK
    <3> DEFINE count == history_count'
    <3>2. StrCpy(history[i], cmd_buffer') \in [Cell -> Symbols]
          /\ Ends(StrCpy(history[i], cmd_buffer'))
      BY <2>2, <3>1, CopyEnds DEF HistoryOK
    <3> HIDE DEF i
    <3>3. history' = [history EXCEPT ![i] = StrCpy(history[i], cmd_buffer')]
      BY <2>5 DEF i
    <3>4. /\ history' \in [0 .. HISTORY_SIZE - 1 -> [Cell -> Symbols]]
          /\ \A h \in DOMAIN history' : Ends(history'[h])
      BY <3>1, <3>2, <3>3 DEF HistoryOK
    <3>5. -1 \in -1 .. count - 1
      <4>1. count \in Nat
        BY <3>1
      <4> HIDE DEF count
      <4> QED
        BY <4>1
    <3> QED
      BY <1>1, <2>3, <3>1, <3>4, <3>5 DEF HistoryOK, Ends
  <2> QED
    BY <2>1, <2>4, <2>5 DEF shell_add_history
<1>3. CASE ~(cmd_len > 0)
  <2>1. KeepHistory /\ UNCHANGED cmd_buffer
    BY <1>3 DEF Enter
  <2>2. LineOK'
    BY <1>1, <2>1, Sizes DEF LineOK
  <2>3. -1 \in -1 .. history_count - 1
    BY DEF HistoryOK
  <2> QED
    BY <1>1, <2>1, <2>2, <2>3 DEF HistoryOK, KeepHistory, Ends
<1> QED
  BY <1>2, <1>3
-----------------------------------------------------------------------------
(* shell_feed_char.                                                        *)

\* A sequence of the decoder, finished or not, keeps everything within bounds.
LEMMA EscapeKeeps ==
  ASSUME LineOK, HistoryOK, NEW c \in {"A", "B", "C", "D", "H", "F", "~"}, NEW buf,
         shell_handle_escape(c, buf)
  PROVE  LineOK' /\ HistoryOK'
<1>1. CASE c = "A"
  BY <1>1, UpKeeps DEF shell_handle_escape
<1>2. CASE c = "B"
  BY <1>2, DownKeeps DEF shell_handle_escape
<1>3. CASE c = "C"
  BY <1>3, MoveKeeps, HistoryStays DEF shell_handle_escape
<1>4. CASE c = "D"
  BY <1>4, MoveKeeps, HistoryStays DEF shell_handle_escape
<1>5. CASE c = "H"
  BY <1>5, MoveKeeps, HistoryStays DEF shell_handle_escape
<1>6. CASE c = "F"
  BY <1>6, MoveKeeps, HistoryStays DEF shell_handle_escape
<1>7. CASE c = "~"
  BY <1>7, DeleteKeeps, KeepKeeps, HistoryStays DEF shell_handle_escape
<1> QED
  BY <1>1, <1>2, <1>3, <1>4, <1>5, <1>6, <1>7

\* A character within a sequence; the decoder's buffer is given up before it is full.
LEMMA InEscapeKeeps ==
  ASSUME LineOK, HistoryOK, DecoderOK, NEW c \in Char, esc_state # "none",
         InEscape(c)
  PROVE  LineOK' /\ HistoryOK' /\ DecoderOK'
<1> DEFINE buf == Append(esc_buf, c)
<1>1. /\ buf \in Seq(Char) /\ buf # <<>> /\ Len(buf) \in Nat
      /\ <<>> \in Seq(Char) /\ Len(<<>>) < ESC_BUF
  BY DEF DecoderOK, ESC_BUF, esc_pos
<1> HIDE DEF buf
<1>2. CASE esc_state = "start"
  <2>1. /\ esc_state' = (IF c = "[" THEN "bracket" ELSE "none")
        /\ esc_buf' = (IF c = "[" THEN buf ELSE <<>>)
        /\ Keep /\ UNCHANGED histVars
    BY <1>2 DEF InEscape, buf
  <2>2. Len(buf) = 2
    <3>1. esc_buf \in Seq(Char) /\ Len(esc_buf) = 1
      BY <1>2 DEF DecoderOK, esc_pos
    <3>2. Len(Append(esc_buf, c)) = Len(esc_buf) + 1
      BY <3>1
    <3> QED
      BY <3>1, <3>2 DEF buf
  <2>3. CASE c = "["
    <3>1. esc_state' = "bracket" /\ esc_buf' = buf
      BY <2>1, <2>3
    <3>2. DecoderOK'
      <4>1. esc_buf' \in Seq(Char) /\ esc_buf' # <<>>
        BY <1>1, <3>1
      <4>2. esc_pos' = 2
        BY <2>2, <3>1 DEF esc_pos
      <4>3. esc_state' # "none" /\ esc_state' # "start"
        BY <3>1
      <4> QED
        BY <4>1, <4>2, <4>3 DEF DecoderOK, ESC_BUF
    <3> QED
      BY <2>1, <3>2, KeepKeeps, HistoryStays
  <2>4. CASE c # "["
    <3>1. esc_state' = "none" /\ esc_buf' = <<>>
      BY <2>1, <2>4
    <3>2. DecoderOK'
      BY <1>1, <3>1 DEF DecoderOK, ESC_BUF, esc_pos
    <3> QED
      BY <2>1, <3>2, KeepKeeps, HistoryStays
  <2> QED
    BY <2>3, <2>4
<1>3. CASE esc_state # "start" /\ c \in {"A", "B", "C", "D", "H", "F", "~"}
  <2>1. shell_handle_escape(c, buf) /\ esc_state' = "none" /\ esc_buf' = <<>>
    BY <1>3 DEF InEscape, buf
  <2>2. DecoderOK'
    BY <1>1, <2>1 DEF DecoderOK, ESC_BUF, esc_pos
  <2> QED
    BY <1>3, <2>1, <2>2, EscapeKeeps
<1>4. CASE esc_state # "start" /\ c \notin {"A", "B", "C", "D", "H", "F", "~"}
  <2>1. /\ IF Len(buf) < ESC_BUF - 1
           THEN esc_buf' = buf /\ UNCHANGED esc_state
           ELSE esc_state' = "none" /\ esc_buf' = <<>>
        /\ Keep /\ UNCHANGED histVars
    BY <1>4 DEF InEscape, buf
  <2>2. CASE Len(buf) < ESC_BUF - 1
    <3>1. esc_state' = esc_state /\ esc_buf' = buf
      BY <2>1, <2>2
    <3>2. DecoderOK'
      BY <1>1, <1>4, <2>2, <3>1 DEF DecoderOK, ESC_BUF, esc_pos, InEscape
    <3> QED
      BY <2>1, <3>2, KeepKeeps, HistoryStays
  <2>3. CASE ~(Len(buf) < ESC_BUF - 1)
    <3>1. esc_state' = "none" /\ esc_buf' = <<>>
      BY <2>1, <2>3
    <3>2. DecoderOK'
      BY <1>1, <3>1 DEF DecoderOK, ESC_BUF, esc_pos
    <3> QED
      BY <2>1, <3>2, KeepKeeps, HistoryStays
  <2> QED
    BY <2>2, <2>3
<1> QED
  BY <1>2, <1>3, <1>4

LEMMA PlainKeeps ==
  ASSUME LineOK, HistoryOK, DecoderOK, NEW c \in Char, esc_state = "none", Plain(c)
  PROVE  LineOK' /\ HistoryOK' /\ DecoderOK'
<1>1. DecoderOK'
  <2>1. /\ esc_state' = (IF c = ESC THEN "start" ELSE "none")
        /\ esc_buf' = (IF c = ESC THEN <<ESC>> ELSE esc_buf)
    BY DEF Plain
  <2>2. CASE c = ESC
    <3> DEFINE buf == <<ESC>>
    <3>1. ESC \in Char
      BY DEF Char
    <3>2. buf \in Seq(Char) /\ Len(buf) = 1 /\ buf # <<>>
      BY <3>1
    <3>3. esc_state' = "start" /\ esc_buf' = buf
      BY <2>1, <2>2
    <3> HIDE DEF buf
    <3> QED
      BY <3>2, <3>3 DEF DecoderOK, ESC_BUF, esc_pos
  <2>3. CASE c # ESC
    BY <2>1, <2>3 DEF DecoderOK, ESC_BUF, esc_pos
  <2> QED
    BY <2>2, <2>3
<1>2. \/ Enter
      \/ (shell_delete_char_before \/ Keep) /\ UNCHANGED histVars
      \/ c \in Printable /\ shell_insert_char(c) /\ UNCHANGED histVars
  BY DEF Plain
<1> QED
  BY <1>1, <1>2, EnterKeeps, DeleteKeeps, InsertKeepsCells, KeepKeeps, HistoryStays DEF Symbols

LEMMA BoundsInitially ==
  shell_init => BoundsInv
<1> SUFFICES ASSUME shell_init PROVE BoundsInv
  OBVIOUS
<1>1. LineOK
  <2>1. cmd_buffer \in [Cell -> Symbols]
    BY DEF shell_init, Symbols
  <2> QED
    BY <2>1, Sizes DEF shell_init, LineOK
<1>2. HistoryOK
  <2>1. \A h \in 0 .. HISTORY_SIZE - 1 : history[h] = [n \in Cell |-> NUL]
    BY DEF shell_init
  <2>2. history \in [0 .. HISTORY_SIZE - 1 -> [Cell -> Symbols]]
    BY DEF shell_init, Symbols
  <2>3. \A h \in 0 .. HISTORY_SIZE - 1 : Ends(history[h])
    BY <2>1, Sizes DEF Ends
  <2>4. history_count = 0 /\ history_index = -1 /\ -1 \in -1 .. 0 - 1
    BY DEF shell_init
  <2> QED
    BY <2>2, <2>3, <2>4 DEF HistoryOK
<1>3. DecoderOK /\ todo \in Seq(Char)
  <2>1. <<>> \in Seq(Char) /\ Len(<<>>) = 0
    OBVIOUS
  <2> QED
    BY <2>1 DEF shell_init, DecoderOK, ESC_BUF, esc_pos
<1> QED
  BY <1>1, <1>2, <1>3, InvParts

LEMMA BoundsStep ==
  BoundsInv /\ [EditorNext]_editorVars => BoundsInv'
<1> SUFFICES ASSUME BoundsInv, [EditorNext]_editorVars PROVE BoundsInv'
  OBVIOUS
<1>1. LineOK /\ HistoryOK /\ DecoderOK /\ todo \in Seq(Char)
  BY InvParts
<1>2. CASE UNCHANGED <<bufVars, histVars, escVars>> /\ todo' \in Seq(Char)
  <2>1. LineOK' /\ HistoryOK' /\ DecoderOK'
    <3>1. LineOK'
      BY <1>1, <1>2 DEF LineOK, bufVars
    <3>2. HistoryOK'
      BY <1>1, <1>2, HistoryStays
    <3>3. DecoderOK'
      BY <1>1, <1>2 DEF DecoderOK, escVars, esc_pos
    <3> QED
      BY <3>1, <3>2, <3>3
  <2> QED
    BY <1>2, <2>1, PartsKept
<1>3. CASE Feed
  <2>1. Head(todo) \in Char /\ todo' \in Seq(Char)
    BY <1>1, <1>3 DEF Feed
  <2>2. LineOK' /\ HistoryOK' /\ DecoderOK'
    <3>1. shell_feed_char(Head(todo))
      BY <1>3 DEF Feed
    <3> QED
      BY <1>1, <2>1, <3>1, InEscapeKeeps, PlainKeeps DEF shell_feed_char
  <2> QED
    BY <2>1, <2>2, PartsKept
<1>4. ASSUME NEW k \in DOMAIN KeyChars, NEW n \in DOMAIN KeyChars[k], Type(k, n)
      PROVE  BoundsInv'
  <2>1. KeyChars[k] \in Seq(Char)
    <3>1. KeyChars[k] \in Seq(Range(KeyChars[k]))
      BY LineEditorAssumption
    <3>2. Range(KeyChars[k]) \subseteq Char
      BY DEF Char, FromKeys
    <3> HIDE DEF Char
    <3> QED
      BY <3>1, <3>2
  <2>2. SubSeq(KeyChars[k], 1, n) \in Seq(Char)
    BY <2>1
  <2> QED
    BY <1>2, <1>4, <2>2 DEF Type
<1>5. CASE UNCHANGED editorVars
  BY <1>1, <1>2, <1>5 DEF editorVars
<1> QED
  BY <1>3, <1>4, <1>5 DEF EditorNext

\* No key, and no piece of a key cut short, takes the line, the cursor, an entry of
\* the history, its index or the decoder's buffer out of its array, for every size
\* of the arrays (shell.c:187-395).
THEOREM LineStaysInBounds ==
  EditorSpec => []LineInBounds
<1>1. BoundsInv => LineInBounds
  BY DEF BoundsInv
<1> QED
  BY <1>1, BoundsInitially, BoundsStep, PTL DEF EditorSpec
-----------------------------------------------------------------------------
(* The screen: printing character by character, as a fold.                 *)

\* How a fold takes characters, the first ones before the last.
PrintedBy(g, base, seq) ==
  g = [s \in SUBSET DOMAIN seq |->
         IF s = {} THEN base ELSE cprint(g[s \ {Max(s)}], seq[Max(s)])]

PrintedAll(base, seq) == FoldLeft(cprint, base, seq)

\* The library's fold is the value of such a function.
LEMMA PrintedFold ==
  ASSUME NEW seq, NEW base, NEW it, PrintedBy(it, base, seq)
  PROVE  \E g : PrintedAll(base, seq) = g[DOMAIN seq] /\ PrintedBy(g, base, seq)
BY DEF FoldLeft, MapThenFoldSet, PrintedBy, PrintedAll

\* The screens on the way, one for each character that is printed.
LEMMA PrintTurns ==
  ASSUME NEW T, NEW base \in T, NEW S, NEW seq \in Seq(S),
         \A v \in T : \A i \in 1 .. Len(seq) : cprint(v, seq[i]) \in T
  PROVE  \E f \in [0 .. Len(seq) -> T] :
           /\ f[0] = base
           /\ \A n \in 1 .. Len(seq) : f[n] = cprint(f[n - 1], seq[n])
           /\ PrintedAll(base, seq) = f[Len(seq)]
<1> DEFINE N == Len(seq)
           step == [x \in T \X (1 .. N) |-> cprint(x[1], seq[x[2]])]
<1>1. N \in Nat /\ DOMAIN seq = 1 .. N
  OBVIOUS
<1>2. step \in [T \X (1 .. N) -> T]
  OBVIOUS
<1> HIDE DEF N
<1>3. PICK it \in [SUBSET (1 .. N) -> T] : FoldsBy(it, N, base, step)
  <2> HIDE DEF step
  <2> QED
    BY <1>1, <1>2, FoldExists
<1>4. PrintedBy(it, base, seq)
  <2>1. ASSUME NEW s \in SUBSET (1 .. N), s # {}
        PROVE  step[<<it[s \ {Max(s)}], Max(s)>>] = cprint(it[s \ {Max(s)}], seq[Max(s)])
    <3>1. Max(s) \in 1 .. N /\ s \ {Max(s)} \in SUBSET (1 .. N)
      BY <1>1, <2>1, LargestOf
    <3>2. <<it[s \ {Max(s)}], Max(s)>> \in T \X (1 .. N)
      BY <3>1
    <3> QED
      BY <3>2
  <2> HIDE DEF step
  <2> QED
    BY <1>1, <1>3, <2>1 DEF FoldsBy, PrintedBy
<1>5. PICK g : PrintedAll(base, seq) = g[DOMAIN seq] /\ PrintedBy(g, base, seq)
  BY <1>4, PrintedFold
<1> DEFINE f == [n \in 0 .. N |-> g[1 .. n]]
<1>6. f[0] = base
  BY <1>1, <1>5, FirstN DEF PrintedBy
<1>7. ASSUME NEW n \in 1 .. N PROVE f[n] = cprint(f[n - 1], seq[n])
  <2>1. /\ 1 .. n \in SUBSET (1 .. N) /\ 1 .. n # {}
        /\ Max(1 .. n) = n /\ (1 .. n) \ {n} = 1 .. n - 1
    BY <1>1, FirstN
  <2>2. g[1 .. n] = cprint(g[1 .. n - 1], seq[n])
    BY <1>1, <1>5, <2>1 DEF PrintedBy
  <2>3. f[n] = g[1 .. n] /\ f[n - 1] = g[1 .. n - 1]
    BY <1>1
  <2> QED
    BY <2>2, <2>3
<1>8. \A n \in 0 .. N : n \in {m \in 0 .. N : f[m] \in T}
  <2> DEFINE Good == {m \in 0 .. N : f[m] \in T}
  <2> HIDE DEF f
  <2>1. 0 \in Good
    BY <1>1, <1>6
  <2>2. ASSUME NEW n \in 0 .. N - 1, n \in Good PROVE n + 1 \in Good
    <3>1. n + 1 \in 1 .. N /\ (n + 1) - 1 = n /\ f[n] \in T
      BY <1>1, <2>2
    <3> QED
      BY <1>7, <3>1 DEF N
  <2> HIDE DEF Good
  <2>3. \A n \in 0 .. N : n \in Good
    BY <1>1, <2>1, <2>2, UpTo
  <2> QED
    BY <2>3 DEF Good
<1>9. f \in [0 .. N -> T]
  BY <1>8
<1>10. PrintedAll(base, seq) = f[N]
  <2>1. f[N] = g[1 .. N]
    BY <1>1
  <2> QED
    BY <1>1, <1>5, <2>1
<1> HIDE DEF f
<1> QED
  BY <1>6, <1>7, <1>9, <1>10 DEF N

-----------------------------------------------------------------------------
(* Screens.                                                                *)

\* What the cells hold.
Glyph == Printable \cup {NUL, " ", "\n", ">"} \cup UNION {Range(out) : out \in Output}

Screens == [video : [Rows -> [Columns -> Glyph]], row : Nat, col : Columns]

\* The rows below the cursor are blank.
BlankBelow(s) == s.row \in Rows /\ \A y \in Rows : y > s.row => s.video[y] = Blank

\* And so is the row of the cursor, from the cursor on.
BlankAhead(s) ==
  BlankBelow(s) /\ \A x \in Columns : x >= s.col => s.video[s.row][x] = " "

LEMMA ScreenSizes ==
  /\ SCREEN_WIDTH \in Nat \ {0} /\ SCREEN_HEIGHT \in Nat \ {0}
  /\ 2 < SCREEN_WIDTH /\ 0 \in Columns /\ 0 \in Rows
  /\ Blank \in [Columns -> Glyph]
BY ScreenAssumption, LineEditorAssumption DEF Columns, Rows, Blank, Glyph, PROMPT_LEN

\* Whole turns and a rest: the quotient and the remainder of their sum.
LEMMA RestOfTurns ==
  ASSUME NEW w \in Nat \ {0}, NEW y \in Nat, NEW x \in Nat
  PROVE  /\ (y * w + x) \div w \in Nat /\ (y * w + x) \div w >= y
         /\ (y * w + x) % w \in 0 .. w - 1
         /\ x < w => (y * w + x) \div w = y /\ (y * w + x) % w = x
<1> DEFINE n == y * w + x
           q == n \div w
           r == n % w
<1>1. n \in Nat
  OBVIOUS
<1> HIDE DEF n
<1>2. q \in Int /\ r \in 0 .. w - 1 /\ n = w * q + r
  BY <1>1
<1> HIDE DEF q, r
<1>3. q >= y
  <2> SUFFICES ASSUME q + 1 <= y PROVE FALSE
    BY <1>2
  <2>1. w * (q + 1) <= w * y
    BY <1>2
  <2>2. w * (q + 1) = w * q + w /\ w * y = y * w
    BY <1>2
  <2>3. n >= y * w
    BY DEF n
  <2> QED
    BY <1>2, <2>1, <2>2, <2>3
<1>4. ASSUME x < w PROVE q = y /\ r = x
  <2>1. q <= y
    <3> SUFFICES ASSUME y + 1 <= q PROVE FALSE
      BY <1>2
    <3>1. w * (y + 1) <= w * q
      BY <1>2
    <3>2. w * (y + 1) = y * w + w
      OBVIOUS
    <3>3. n < y * w + w
      BY <1>4 DEF n
    <3> QED
      BY <1>1, <1>2, <3>1, <3>2, <3>3
  <2>2. q = y
    BY <1>2, <1>3, <2>1
  <2>3. w * q = y * w
    BY <2>2
  <2> QED
    BY <1>2, <2>2, <2>3 DEF n
<1>5. q \in Nat
  BY <1>2, <1>3
<1> QED
  BY <1>2, <1>3, <1>4, <1>5 DEF n, q, r

LEMMA RestIsRemainder ==
  ASSUME NEW w \in Nat \ {0}, NEW y \in Nat, NEW x \in Nat, x < w
  PROVE  (y * w + x) % w = x
BY RestOfTurns

\* A cell's place in the video memory gives its row and its column back.
LEMMA PlaceOfCell ==
  ASSUME NEW x \in Nat, NEW y \in Nat
  PROVE  /\ (y * SCREEN_WIDTH + x) \div SCREEN_WIDTH \in Nat
         /\ (y * SCREEN_WIDTH + x) \div SCREEN_WIDTH >= y
         /\ (y * SCREEN_WIDTH + x) % SCREEN_WIDTH \in Columns
         /\ x < SCREEN_WIDTH => /\ (y * SCREEN_WIDTH + x) \div SCREEN_WIDTH = y
                                /\ (y * SCREEN_WIDTH + x) % SCREEN_WIDTH = x
BY RestOfTurns, ScreenSizes DEF Columns

\* The cursor goes to a cell of the row, or below.
LEMMA CursorPlaced ==
  ASSUME NEW s \in Screens, NEW x \in Nat, NEW y \in Nat
  PROVE  /\ set_cursor_position(s, x, y) \in Screens
         /\ set_cursor_position(s, x, y).video = s.video
         /\ set_cursor_position(s, x, y).row >= y
         /\ x < SCREEN_WIDTH => /\ set_cursor_position(s, x, y).row = y
                                /\ set_cursor_position(s, x, y).col = x
<1> DEFINE q == (y * SCREEN_WIDTH + x) \div SCREEN_WIDTH
           r == (y * SCREEN_WIDTH + x) % SCREEN_WIDTH
<1>1. /\ q \in Nat /\ q >= y /\ r \in Columns
      /\ x < SCREEN_WIDTH => q = y /\ r = x
  BY PlaceOfCell
<1>2. set_cursor_position(s, x, y) = [s EXCEPT !.row = q, !.col = r]
  BY DEF set_cursor_position
<1> HIDE DEF q, r
<1> QED
  BY <1>1, <1>2 DEF Screens

LEMMA ScrollEffect ==
  ASSUME NEW s \in Screens
  PROVE  /\ scroll(s) \in Screens /\ BlankAhead(scroll(s)) /\ scroll(s).col = 0
         /\ scroll(s).row = SCREEN_HEIGHT - 1
<1>1. /\ scroll(s).row = SCREEN_HEIGHT - 1 /\ scroll(s).col = 0
      /\ scroll(s).video =
           [y \in Rows |-> IF y + 1 \in Rows THEN s.video[y + 1] ELSE Blank]
  BY DEF scroll
<1>2. SCREEN_HEIGHT - 1 \in Rows /\ SCREEN_HEIGHT - 1 \in Nat
      /\ SCREEN_HEIGHT - 1 + 1 \notin Rows
      /\ \A y \in Rows : ~(y > SCREEN_HEIGHT - 1)
  BY ScreenSizes DEF Rows
<1>3. scroll(s).video[SCREEN_HEIGHT - 1] = Blank
  BY <1>1, <1>2
<1>4. scroll(s).video \in [Rows -> [Columns -> Glyph]]
  BY <1>1, ScreenSizes DEF Screens
<1>5. scroll(s) \in Screens
  BY <1>1, <1>2, <1>4, ScreenSizes DEF Screens, scroll
<1>6. BlankAhead(scroll(s))
  BY <1>1, <1>2, <1>3 DEF BlankAhead, BlankBelow, Blank
<1> QED
  BY <1>1, <1>5, <1>6

\* A cell is written.
LEMMA WriteEffect ==
  ASSUME NEW s \in Screens, NEW c \in Glyph, s.row \in Rows
  PROVE  /\ Write(s, c) \in Screens
         /\ Write(s, c).row = s.row /\ Write(s, c).col = s.col
         /\ Write(s, c).video =
              [s.video EXCEPT ![s.row] = [s.video[s.row] EXCEPT ![s.col] = c]]
<1> DEFINE line == [s.video[s.row] EXCEPT ![s.col] = c]
           cells == [s.video EXCEPT ![s.row] = line]
<1>1. line \in [Columns -> Glyph]
  BY DEF Screens
<1> HIDE DEF line
<1>2. cells \in [Rows -> [Columns -> Glyph]]
  BY <1>1 DEF Screens
<1>3. Write(s, c) = [s EXCEPT !.video = cells]
  BY DEF Write, line
<1> HIDE DEF cells
<1>4. /\ Write(s, c) \in Screens /\ Write(s, c).video = cells
      /\ Write(s, c).row = s.row /\ Write(s, c).col = s.col
  BY <1>2, <1>3 DEF Screens
<1> QED
  BY <1>4 DEF cells, line

\* A character that leaves the cursor in its row.
LEMMA PrintInRow ==
  ASSUME NEW s \in Screens, NEW c \in Glyph, c # "\n", s.row \in Rows,
         s.col + 1 < SCREEN_WIDTH
  PROVE  /\ cprint(s, c) \in Screens
         /\ cprint(s, c).row = s.row /\ cprint(s, c).col = s.col + 1
         /\ cprint(s, c).video =
              [s.video EXCEPT ![s.row] = [s.video[s.row] EXCEPT ![s.col] = c]]
<1> DEFINE w == Write(s, c)
           t == [w EXCEPT !.col = w.col + 1]
<1>1. cprint(s, c) = Scrolled(t)
  BY DEF cprint
<1>2. /\ w \in Screens /\ w.row = s.row /\ w.col = s.col
      /\ w.video = [s.video EXCEPT ![s.row] = [s.video[s.row] EXCEPT ![s.col] = c]]
  BY WriteEffect
<1> HIDE DEF w
<1>3. s.col + 1 \in Columns
  BY ScreenSizes DEF Screens, Columns
<1>4. t \in Screens /\ t.row = s.row /\ t.col = s.col + 1 /\ t.video = w.video
  BY <1>2, <1>3 DEF Screens
<1> HIDE DEF t
<1>5. Scrolled(t) = t
  BY <1>4, ScreenSizes DEF Scrolled, Rows
<1> QED
  BY <1>1, <1>2, <1>4, <1>5

\* The cursor goes to the next row, which may be off the screen before it scrolls.
LEMMA NextRow ==
  ASSUME NEW s \in Screens, NEW t \in Screens,
         t.row = s.row + 1, t.col = 0, BlankBelow(s),
         \A y \in Rows : y > s.row => t.video[y] = s.video[y]
  PROVE  BlankAhead(Scrolled(t))
<1>1. CASE t.row >= SCREEN_HEIGHT
  BY <1>1, ScrollEffect DEF Scrolled
<1>2. CASE ~(t.row >= SCREEN_HEIGHT)
  <2>1. /\ Scrolled(t) = t /\ s.row \in Nat /\ t.row \in Rows /\ t.row > s.row
        /\ \A y \in Rows : y > t.row => y > s.row
    BY <1>2, ScreenSizes DEF Scrolled, Rows, Screens
  <2>2. \A y \in Rows : y >= t.row => t.video[y] = Blank
    BY <2>1, ScreenSizes DEF BlankBelow, Rows
  <2>3. t.row >= t.row /\ \A y \in Rows : y > t.row => y >= t.row
    BY <2>1 DEF Rows
  <2>4. BlankBelow(t)
    BY <2>1, <2>2, <2>3 DEF BlankBelow
  <2>5. t.video[t.row] = Blank
    BY <2>1, <2>2, <2>3
  <2>6. \A x \in Columns : t.video[t.row][x] = " "
    BY <2>5 DEF Blank
  <2> QED
    BY <2>1, <2>4, <2>6 DEF BlankAhead
<1> QED
  BY <1>1, <1>2

LEMMA ScrolledOnScreen ==
  ASSUME NEW t \in Screens
  PROVE  /\ Scrolled(t) \in Screens /\ Scrolled(t).row \in Rows
         /\ t.col = 0 => Scrolled(t).col = 0
<1>1. SCREEN_HEIGHT - 1 \in Rows
  BY ScreenSizes DEF Rows
<1>2. t.row \in Nat
  BY DEF Screens
<1> QED
  BY <1>1, <1>2, ScrollEffect, ScreenSizes DEF Scrolled, Rows

\* A newline leaves the cursor at the start of a row.
LEMMA NewlineEffect ==
  ASSUME NEW s \in Screens
  PROVE  /\ cprint(s, "\n") \in Screens
         /\ cprint(s, "\n").row \in Rows /\ cprint(s, "\n").col = 0
         /\ BlankBelow(s) => BlankAhead(cprint(s, "\n"))
<1> DEFINE next == s.row + 1
           t == [s EXCEPT !.row = next, !.col = 0]
<1>1. cprint(s, "\n") = Scrolled(t)
  BY DEF cprint
<1>2. next \in Nat /\ next = s.row + 1
  BY DEF Screens
<1> HIDE DEF next
<1>3. t \in Screens /\ t.row = next /\ t.col = 0 /\ t.video = s.video
  BY <1>2, ScreenSizes DEF Screens
<1> HIDE DEF t
<1>4. BlankBelow(s) => BlankAhead(Scrolled(t))
  BY <1>2, <1>3, NextRow
<1> QED
  BY <1>1, <1>3, <1>4, ScrolledOnScreen

\* Any character leaves the cursor on the screen, and what is ahead of it blank.
LEMMA PrintEffect ==
  ASSUME NEW s \in Screens, NEW c \in Glyph
  PROVE  /\ cprint(s, c) \in Screens /\ cprint(s, c).row \in Rows
         /\ BlankAhead(s) => BlankAhead(cprint(s, c))
<1>1. CASE c = "\n"
  BY <1>1, NewlineEffect DEF BlankAhead
<1>2. CASE c # "\n" /\ s.col + 1 < SCREEN_WIDTH /\ s.row \in Rows
  <2>1. /\ cprint(s, c) \in Screens
        /\ cprint(s, c).row = s.row /\ cprint(s, c).col = s.col + 1
        /\ cprint(s, c).video =
             [s.video EXCEPT ![s.row] = [s.video[s.row] EXCEPT ![s.col] = c]]
    BY <1>2, PrintInRow
  <2> DEFINE p == cprint(s, c)
  <2> HIDE DEF p
  <2>2. ASSUME BlankAhead(s) PROVE BlankAhead(p)
    <3>1. \A y \in Rows : y > s.row => p.video[y] = s.video[y]
      BY <1>2, <2>1 DEF p, Rows, Screens
    <3>2. s.video[s.row] \in [Columns -> Glyph] /\ s.col \in Columns
      BY <1>2 DEF Screens
    <3>3. p.video[s.row] = [s.video[s.row] EXCEPT ![s.col] = c]
      BY <1>2, <2>1 DEF p, Screens
    <3>4. \A x \in Columns : x >= s.col + 1 => x >= s.col /\ x # s.col
      BY <3>2, ScreenSizes DEF Columns
    <3>5. \A x \in Columns : x >= s.col + 1 => p.video[s.row][x] = " "
      BY <2>2, <3>2, <3>3, <3>4 DEF BlankAhead
    <3>6. p.row = s.row /\ p.col = s.col + 1
      BY <2>1 DEF p
    <3> QED
      BY <2>2, <3>1, <3>5, <3>6 DEF BlankAhead, BlankBelow
  <2> QED
    BY <1>2, <2>1, <2>2 DEF p
<1>3. CASE c # "\n" /\ ~(s.col + 1 < SCREEN_WIDTH)
  <2> DEFINE w == Write(s, c)
             next == w.row + 1
             t == [w EXCEPT !.col = 0, !.row = next]
  <2>1. cprint(s, c) = Scrolled(t)
    BY <1>3 DEF cprint
  <2>2. w \in Screens /\ w.row = s.row
    BY WriteEffect DEF Write
  <2>3. \A y \in Rows : y > s.row => w.video[y] = s.video[y]
    <3>1. CASE s.row \in Rows
      <4>1. w.video = [s.video EXCEPT ![s.row] = [s.video[s.row] EXCEPT ![s.col] = c]]
        BY <3>1, WriteEffect
      <4>2. \A y \in Rows : y > s.row => y # s.row
        BY <3>1 DEF Rows
      <4> QED
        BY <4>1, <4>2 DEF Screens
    <3>2. CASE s.row \notin Rows
      BY <3>2 DEF Write
    <3> QED
      BY <3>1, <3>2
  <2> HIDE DEF w
  <2>4. next \in Nat /\ next = s.row + 1
    BY <2>2 DEF Screens
  <2> HIDE DEF next
  <2>5. t \in Screens /\ t.row = s.row + 1 /\ t.col = 0 /\ t.video = w.video
    BY <2>2, <2>4, ScreenSizes DEF Screens
  <2> HIDE DEF t
  <2>6. \A y \in Rows : y > s.row => t.video[y] = s.video[y]
    BY <2>3, <2>5
  <2>7. BlankBelow(s) => BlankAhead(Scrolled(t))
    BY <2>5, <2>6, NextRow
  <2> QED
    BY <2>1, <2>5, <2>7, ScrolledOnScreen DEF BlankAhead
<1>4. CASE c # "\n" /\ s.col + 1 < SCREEN_WIDTH /\ s.row \notin Rows
  <2> DEFINE t == [s EXCEPT !.col = s.col + 1]
  <2>1. cprint(s, c) = Scrolled(t)
    BY <1>4 DEF cprint, Write
  <2>2. t \in Screens
    BY <1>4, ScreenSizes DEF Screens, Columns
  <2>3. ~BlankAhead(s)
    BY <1>4 DEF BlankAhead, BlankBelow
  <2> QED
    BY <2>1, <2>2, <2>3, ScrolledOnScreen
<1> QED
  BY <1>1, <1>2, <1>3, <1>4
-----------------------------------------------------------------------------
(* Printing a string.                                                      *)

\* The screens on the way are screens.
LEMMA ScreensOnTheWay ==
  ASSUME NEW s \in Screens, NEW text \in Seq(Glyph)
  PROVE  \E f \in [0 .. Len(text) -> Screens] :
           /\ f[0] = s
           /\ \A n \in 1 .. Len(text) : f[n] = cprint(f[n - 1], text[n])
           /\ viprint(s, text) = f[Len(text)]
<1>1. viprint(s, text) = PrintedAll(s, text)
  BY DEF viprint, PrintedAll
<1>2. \A v \in Screens : \A i \in 1 .. Len(text) : cprint(v, text[i]) \in Screens
  BY PrintEffect
<1> QED
  BY <1>1, <1>2, PrintTurns

LEMMA ViprintEffect ==
  ASSUME NEW s \in Screens, NEW text \in Seq(Glyph)
  PROVE  /\ viprint(s, text) \in Screens
         /\ s.row \in Rows \/ text # <<>> => viprint(s, text).row \in Rows
         /\ BlankAhead(s) => BlankAhead(viprint(s, text))
         /\ text # <<>> /\ Last(text) = "\n" => viprint(s, text).col = 0
<1> DEFINE N == Len(text)
<1>1. N \in Nat /\ \A i \in 1 .. N : text[i] \in Glyph
  OBVIOUS
<1>2. viprint(s, text) = PrintedAll(s, text)
  BY DEF viprint, PrintedAll
<1>3. PICK f \in [0 .. N -> Screens] :
        /\ f[0] = s
        /\ \A n \in 1 .. N : f[n] = cprint(f[n - 1], text[n])
        /\ viprint(s, text) = f[N]
  BY ScreensOnTheWay
<1>4. CASE text = <<>>
  BY <1>2, <1>3, <1>4
<1>5. ASSUME BlankAhead(s) PROVE BlankAhead(viprint(s, text))
  <2> DEFINE T == {v \in Screens : BlankAhead(v)}
  <2>1. \A v \in T : \A i \in 1 .. N : cprint(v, text[i]) \in T
    BY <1>1, PrintEffect
  <2>2. s \in T
    BY <1>5
  <2> HIDE DEF T
  <2>3. PICK g \in [0 .. N -> T] : PrintedAll(s, text) = g[N]
    BY <2>1, <2>2, PrintTurns
  <2>4. g[N] \in T
    BY <1>1, <2>3
  <2> QED
    BY <1>2, <2>3, <2>4 DEF T
<1>6. CASE text # <<>>
  <2>1. N \in 1 .. N /\ N - 1 \in 0 .. N
    BY <1>1, <1>6
  <2>2. f[N] = cprint(f[N - 1], text[N]) /\ f[N - 1] \in Screens /\ text[N] \in Glyph
    BY <1>1, <1>3, <2>1
  <2>3. Last(text) = "\n" => text[N] = "\n"
    BY DEF Last
  <2> HIDE DEF N
  <2> QED
    BY <1>2, <1>3, <1>5, <2>2, <2>3, PrintEffect, NewlineEffect
<1> QED
  BY <1>4, <1>6

\* The cells of a row that begins with a string.
RowOf(text) == [x \in Columns |-> IF x < Len(text) THEN text[x + 1] ELSE " "]

\* A string that leaves a cell of the row free is printed in the row.
LEMMA RowPrinted ==
  ASSUME NEW s \in Screens, s.row \in Rows, s.col = 0, s.video[s.row] = Blank,
         NEW text \in Seq(Glyph), Len(text) < SCREEN_WIDTH,
         \A i \in 1 .. Len(text) : text[i] # "\n"
  PROVE  /\ viprint(s, text).row = s.row /\ viprint(s, text).col = Len(text)
         /\ viprint(s, text).video = [s.video EXCEPT ![s.row] = RowOf(text)]
<1> DEFINE N == Len(text)
           Begun(n) == [x \in Columns |-> IF x < n THEN text[x + 1] ELSE " "]
<1>1. N \in Nat /\ N < SCREEN_WIDTH /\ \A i \in 1 .. N : text[i] \in Glyph /\ text[i] # "\n"
  OBVIOUS
<1>3. PICK f \in [0 .. N -> Screens] :
        /\ f[0] = s
        /\ \A n \in 1 .. N : f[n] = cprint(f[n - 1], text[n])
        /\ viprint(s, text) = f[N]
  BY ScreensOnTheWay
<1> DEFINE Printed == {n \in 0 .. N :
                         /\ f[n].row = s.row /\ f[n].col = n
                         /\ f[n].video = [s.video EXCEPT ![s.row] = Begun(n)]}
<1>4. 0 \in Printed
  <2>1. Begun(0) = Blank
    <3>1. \A x \in Columns : ~(x < 0)
      BY ScreenSizes DEF Columns
    <3> QED
      BY <3>1 DEF Blank
  <2>2. [s.video EXCEPT ![s.row] = Blank] = s.video
    BY DEF Screens
  <2> HIDE DEF Begun
  <2> QED
    BY <1>1, <1>3, <2>1, <2>2
<1>5. ASSUME NEW n \in 0 .. N - 1, n \in Printed PROVE n + 1 \in Printed
  <2> DEFINE m == n + 1
             c == text[m]
             u == f[n]
  <2>1. m \in 1 .. N /\ m \in 0 .. N /\ m - 1 = n /\ n \in 0 .. N /\ n \in Columns
    BY <1>1, ScreenSizes DEF Columns
  <2>2. f[m] = cprint(u, c) /\ c \in Glyph /\ c # "\n" /\ u \in Screens
    BY <1>1, <1>3, <2>1
  <2>3. u.row = s.row /\ u.col = n /\ u.video = [s.video EXCEPT ![s.row] = Begun(n)]
    BY <1>5
  <2>4. n + 1 < SCREEN_WIDTH
    BY <1>1, ScreenSizes
  <2>5. [Begun(n) EXCEPT ![n] = c] = Begun(m)
    <3>1. \A x \in Columns : x # n => (x < n <=> x < m)
      BY <2>1 DEF Columns
    <3>2. n < m /\ c = text[n + 1]
      BY <2>1
    <3> HIDE DEF m, c
    <3> QED
      BY <2>1, <3>1, <3>2
  <2> HIDE DEF m, c, u, Begun
  <2>6. f[m].row = s.row /\ f[m].col = n + 1
        /\ f[m].video = [u.video EXCEPT ![s.row] = [u.video[s.row] EXCEPT ![n] = c]]
    <3>1. u.row \in Rows /\ u.col + 1 < SCREEN_WIDTH
      BY <2>3, <2>4
    <3>2. /\ cprint(u, c).row = u.row /\ cprint(u, c).col = u.col + 1
          /\ cprint(u, c).video =
               [u.video EXCEPT ![u.row] = [u.video[u.row] EXCEPT ![u.col] = c]]
      BY <2>2, <3>1, PrintInRow
    <3> QED
      BY <2>2, <2>3, <3>2
  <2>7. u.video[s.row] = Begun(n)
    BY <2>3 DEF Screens
  <2>8. f[m].video = [s.video EXCEPT ![s.row] = Begun(m)]
    BY <2>3, <2>5, <2>6, <2>7 DEF Screens
  <2> QED
    BY <2>1, <2>6, <2>8 DEF m
<1>6. N \in Printed
  <2> HIDE DEF Printed, N
  <2>1. \A n \in 0 .. N : n \in Printed
    BY <1>1, <1>4, <1>5, UpTo
  <2> QED
    BY <1>1, <2>1
<1>7. Begun(N) = RowOf(text)
  BY DEF RowOf
<1> QED
  BY <1>3, <1>6, <1>7
-----------------------------------------------------------------------------
(* The line on the screen.                                                 *)

\* The inductive invariant: LineShown, and below the cursor the screen is blank unless
\* a line has run over since the screen was cleared.
ShownInv ==
  /\ screen \in Screens
  /\ overrun \in {"never", "earlier", "now"}
  /\ overrun = "never" => BlankBelow(screen)
  /\ LineShown

\* A text of two characters, and two texts put together.
LEMMA TwoCharacters ==
  ASSUME NEW S, NEW a \in S, NEW b \in S, a # "\n", b # "\n"
  PROVE  /\ <<a, b>> \in Seq(S) /\ Len(<<a, b>>) = 2 /\ <<a, b>> # <<>>
         /\ \A i \in 1 .. Len(<<a, b>>) : <<a, b>>[i] # "\n"
OBVIOUS

LEMMA TwoTexts ==
  ASSUME NEW S, NEW a \in Seq(S), NEW b \in Seq(S)
  PROVE  /\ a \o b \in Seq(S) /\ Len(a \o b) = Len(a) + Len(b)
         /\ \A i \in 1 .. Len(a) + Len(b) :
              (a \o b)[i] = IF i <= Len(a) THEN a[i] ELSE b[i - Len(a)]
OBVIOUS

LEMMA PromptText ==
  /\ PROMPT \in Seq(Glyph) /\ Len(PROMPT) = 2 /\ PROMPT # <<>>
  /\ \A i \in 1 .. Len(PROMPT) : PROMPT[i] # "\n"
<1>1. ">" \in Glyph /\ " " \in Glyph /\ ">" # "\n" /\ " " # "\n"
  BY DEF Glyph
<1> QED
  BY <1>1, TwoCharacters, Zenon DEF PROMPT

\* What is printed for a line.
LEMMA PrintedLine ==
  ASSUME NEW buf \in [Cell -> Symbols], NEW len \in Cell
  PROVE  /\ PROMPT \o Chars(buf, len) \in Seq(Glyph)
         /\ Len(PROMPT \o Chars(buf, len)) = PROMPT_LEN + len
         /\ \A i \in 1 .. PROMPT_LEN + len : (PROMPT \o Chars(buf, len))[i] # "\n"
         /\ \A i \in 1 .. 2 : (PROMPT \o Chars(buf, len))[i] = PROMPT[i]
<1> DEFINE chars == Chars(buf, len)
<1>1. len \in Nat /\ \A n \in 1 .. len : n - 1 \in Cell
  BY Sizes DEF Cell
<1>2. chars = [n \in 1 .. len |-> buf[n - 1]]
  BY DEF Chars
<1>3. \A n \in 1 .. len : buf[n - 1] \in Symbols
  BY <1>1
<1> HIDE DEF chars
<1>4. chars \in Seq(Symbols) /\ Len(chars) = len
  BY <1>1, <1>2, <1>3
<1>5. /\ PROMPT \in Seq(Glyph) /\ Len(PROMPT) = 2
      /\ \A i \in 1 .. 2 : PROMPT[i] # "\n"
  BY PromptText
<1>6. Symbols \subseteq Glyph /\ "\n" \notin Symbols
  BY LineEditorAssumption DEF Symbols, Glyph, Printable, NUL
<1>7. chars \in Seq(Glyph)
  BY <1>4, <1>6
<1> DEFINE text == PROMPT \o chars
<1> HIDE DEF text
<1>8. /\ text \in Seq(Glyph) /\ Len(text) = Len(PROMPT) + Len(chars)
      /\ \A i \in 1 .. Len(PROMPT) + Len(chars) :
           text[i] = IF i <= Len(PROMPT) THEN PROMPT[i] ELSE chars[i - Len(PROMPT)]
  <2>1. PROMPT \in Seq(Glyph)
    BY <1>5
  <2> QED
    BY <1>7, <2>1, TwoTexts, Zenon DEF text
<1>9. /\ Len(text) = 2 + len
      /\ \A i \in 1 .. 2 + len : text[i] = IF i <= 2 THEN PROMPT[i] ELSE chars[i - 2]
  BY <1>4, <1>5, <1>8
<1>10. ASSUME NEW i \in 1 .. 2 + len PROVE text[i] # "\n"
  <2>1. CASE i <= 2
    <3>1. i \in 1 .. 2
      BY <1>1, <2>1
    <3> QED
      BY <1>5, <1>9, <2>1, <3>1
  <2>2. CASE ~(i <= 2)
    <3>1. i - 2 \in 1 .. len
      BY <1>1, <2>2
    <3>2. chars[i - 2] \in Symbols
      BY <1>4, <3>1
    <3> QED
      BY <1>6, <1>9, <2>2, <3>2
  <2> QED
    BY <2>1, <2>2
<1>11. ASSUME NEW i \in 1 .. 2 PROVE text[i] = PROMPT[i]
  <2>1. i \in 1 .. 2 + len /\ i <= 2
    BY <1>1
  <2> QED
    BY <1>9, <2>1
<1> QED
  BY <1>8, <1>9, <1>10, <1>11 DEF PROMPT_LEN, text, chars

\* The line is printed again: whatever the row showed before, it shows the line.
LEMMA RedrawShows ==
  ASSUME ShownInv, LineOK', SetLine(cmd_buffer', cmd_pos', cmd_len')
  PROVE  ShownInv'
<1> DEFINE buf  == cmd_buffer'
           len  == cmd_len'
           pos  == cmd_pos'
           r    == screen.row
           text == PROMPT \o Chars(buf, len)
           blank   == clear_screen_row(screen, r)
           cleared == set_cursor_position(blank, 0, r)
           printed == viprint(cleared, text)
<1>1. /\ screen' = set_cursor_position(printed, PROMPT_LEN + pos, r)
      /\ overrun' = IF PROMPT_LEN + len < SCREEN_WIDTH THEN overrun ELSE "now"
  BY DEF SetLine, shell_redraw_line
<1>2. buf \in [Cell -> Symbols] /\ len \in Cell /\ pos \in 0 .. len
  BY DEF LineOK
<1> HIDE DEF buf, len, pos
<1>3. /\ text \in Seq(Glyph) /\ Len(text) = PROMPT_LEN + len
      /\ \A i \in 1 .. Len(text) : text[i] # "\n"
  BY <1>2, PrintedLine
<1>4. len \in Nat /\ pos \in Nat /\ pos <= len /\ r \in Nat /\ PROMPT_LEN = 2
  BY <1>2, Sizes DEF Cell, ShownInv, Screens, PROMPT_LEN
<1>5. /\ blank \in Screens
      /\ r \in Rows => blank.video = [screen.video EXCEPT ![r] = Blank]
  <2>1. [screen.video EXCEPT ![r] = Blank] \in [Rows -> [Columns -> Glyph]]
    BY ScreenSizes DEF ShownInv, Screens
  <2> DEFINE cells == [screen.video EXCEPT ![r] = Blank]
  <2>2. blank = IF r \in Rows THEN [screen EXCEPT !.video = cells] ELSE screen
    BY DEF clear_screen_row
  <2> HIDE DEF cells, blank
  <2> QED
    BY <2>1, <2>2 DEF ShownInv, Screens, cells
<1>6. /\ cleared \in Screens /\ cleared.row = r /\ cleared.col = 0
      /\ cleared.video = blank.video
  <2>1. 0 \in Nat /\ 0 < SCREEN_WIDTH
    BY ScreenSizes
  <2> HIDE DEF blank, r
  <2> QED
    BY <1>4, <1>5, <2>1, CursorPlaced
<1> HIDE DEF blank, cleared, text
<1>7. printed \in Screens
  BY <1>3, <1>6, ViprintEffect
<1>8. ASSUME r \in Rows, PROMPT_LEN + len < SCREEN_WIDTH
      PROVE  printed.video = [screen.video EXCEPT ![r] = RowOf(text)]
  <2>1. cleared.video[cleared.row] = Blank
    BY <1>5, <1>6, <1>8 DEF ShownInv, Screens
  <2>2. printed.video = [cleared.video EXCEPT ![r] = RowOf(text)]
    BY <1>3, <1>6, <1>8, <2>1, RowPrinted
  <2> QED
    BY <1>5, <1>6, <1>8, <2>2 DEF ShownInv, Screens
<1> HIDE DEF printed
<1>9. /\ screen' \in Screens /\ screen'.video = printed.video /\ screen'.row >= r
      /\ PROMPT_LEN + len < SCREEN_WIDTH =>
           screen'.row = r /\ screen'.col = PROMPT_LEN + pos
  <2>1. PROMPT_LEN + pos \in Nat
        /\ (PROMPT_LEN + len < SCREEN_WIDTH => PROMPT_LEN + pos < SCREEN_WIDTH)
    BY <1>4, ScreenSizes
  <2> QED
    BY <1>1, <1>4, <1>7, <2>1, CursorPlaced
<1>10. overrun' \in {"never", "earlier", "now"}
  BY <1>1 DEF ShownInv
<1>11. ASSUME overrun' # "now" PROVE screen'.row \in Rows
  BY <1>1, <1>9, <1>11 DEF ShownInv, LineShown
<1>12. ASSUME overrun' = "never" PROVE BlankBelow(screen')
  <2>1. PROMPT_LEN + len < SCREEN_WIDTH /\ BlankBelow(screen)
    BY <1>1, <1>12 DEF ShownInv
  <2>2. r \in Rows /\ screen'.row = r
    BY <1>9, <2>1 DEF BlankBelow
  <2>3. \A y \in Rows : y > r => screen'.video[y] = screen.video[y]
    <3>1. \A y \in Rows : y > r => y # r
      BY <1>4 DEF Rows
    <3> QED
      BY <1>8, <1>9, <2>1, <2>2, <3>1 DEF ShownInv, Screens
  <2> QED
    BY <2>1, <2>2, <2>3 DEF BlankBelow
<1>13. ASSUME screen'.row \in Rows, PROMPT_LEN + len < SCREEN_WIDTH
       PROVE  screen'.col = PROMPT_LEN + pos /\ screen'.video[screen'.row] = RowOf(text)
  BY <1>8, <1>9, <1>13 DEF ShownInv, Screens
<1>14. LineShown'
  BY <1>11, <1>13 DEF LineShown, RowOf, text, buf, len, pos
<1> QED
  BY <1>9, <1>10, <1>12, <1>14 DEF ShownInv

\* A prompt in a row that begins blank.
LEMMA PromptShows ==
  ASSUME LineOK', overrun \in {"never", "earlier", "now"},
         NEW s \in Screens, s.row \in Rows, s.col = 0,
         s = clear_screen \/ overrun = "never" => BlankAhead(s),
         Prompt(s)
  PROVE  ShownInv'
<1>1. /\ screen' = viprint(s, PROMPT) /\ cmd_len' = 0 /\ cmd_pos' = 0
      /\ overrun' = IF s = clear_screen \/ overrun = "never" THEN "never" ELSE "earlier"
  BY DEF Prompt
<1>2. /\ PROMPT \in Seq(Glyph) /\ Len(PROMPT) = 2 /\ PROMPT # <<>>
      /\ \A i \in 1 .. Len(PROMPT) : PROMPT[i] # "\n"
  BY PromptText
<1>3. screen' \in Screens /\ screen'.row \in Rows
  BY <1>1, <1>2, ViprintEffect
<1>4. ASSUME overrun' = "never"
      PROVE  /\ BlankBelow(screen')
             /\ screen'.col = 2 /\ screen'.video[screen'.row] = RowOf(PROMPT)
  <2>1. BlankAhead(s)
    BY <1>1, <1>4
  <2>2. BlankAhead(screen')
    BY <1>1, <1>2, <2>1, ViprintEffect
  <2>3. s.video[s.row] = Blank
    <3>1. \A x \in Columns : x >= 0
      BY ScreenSizes DEF Columns
    <3>2. \A x \in Columns : s.video[s.row][x] = " "
      BY <2>1, <3>1 DEF BlankAhead
    <3>3. s.video[s.row] \in [Columns -> Glyph]
      BY DEF Screens
    <3> QED
      BY <3>2, <3>3 DEF Blank
  <2>4. /\ screen'.row = s.row /\ screen'.col = 2
        /\ screen'.video = [s.video EXCEPT ![s.row] = RowOf(PROMPT)]
    BY <1>1, <1>2, <2>3, ScreenSizes, RowPrinted
  <2> QED
    BY <2>2, <2>4 DEF BlankAhead, Screens
<1>5. overrun' \in {"never", "earlier"}
  BY <1>1
<1>6. LineShown'
  <2> DEFINE text == PROMPT \o Chars(cmd_buffer', cmd_len')
  <2>1. Len(text) = 2 /\ \A i \in 1 .. 2 : text[i] = PROMPT[i]
    BY <1>1, PrintedLine, Sizes DEF LineOK, PROMPT_LEN
  <2> HIDE DEF text
  <2>2. RowOf(text) = RowOf(PROMPT)
    <3>1. \A x \in Columns : x < 2 => x + 1 \in 1 .. 2
      BY ScreenSizes DEF Columns
    <3> QED
      BY <1>2, <2>1, <3>1 DEF RowOf
  <2>3. ~(cmd_len' > 0) /\ PROMPT_LEN + cmd_pos' = 2
    BY <1>1 DEF PROMPT_LEN
  <2> QED
    BY <1>3, <1>4, <1>5, <2>2, <2>3 DEF LineShown, RowOf, text
<1> QED
  BY <1>3, <1>4, <1>5, <1>6 DEF ShownInv

LEMMA ClearScreenEffect ==
  /\ clear_screen \in Screens /\ BlankAhead(clear_screen)
  /\ clear_screen.row = 0 /\ clear_screen.col = 0
<1>1. /\ clear_screen.row = 0 /\ clear_screen.col = 0
      /\ clear_screen.video = [y \in Rows |-> Blank]
  BY DEF clear_screen
<1>2. clear_screen \in Screens
  BY ScreenSizes DEF clear_screen, Screens
<1>3. BlankBelow(clear_screen) /\ clear_screen.video[0] = Blank
  BY <1>1, ScreenSizes DEF BlankBelow
<1>4. \A x \in Columns : clear_screen.video[0][x] = " "
  BY <1>3 DEF Blank
<1> QED
  BY <1>1, <1>2, <1>3, <1>4 DEF BlankAhead

\* What a command leaves: the cursor at the start of a row, and nothing ahead of it
\* where there was nothing.
LEMMA CommandEffect ==
  ASSUME NEW below \in Screens, below.row \in Rows, below.col = 0,
         NEW s \in AfterCommand(below)
  PROVE  /\ s \in Screens /\ s.row \in Rows /\ s.col = 0
         /\ s = clear_screen \/ BlankAhead(below) => BlankAhead(s)
<1>1. CASE s = clear_screen
  BY <1>1, ClearScreenEffect, ScreenSizes
<1>2. ASSUME NEW out \in Output, s = viprint(below, out), s # clear_screen
      PROVE  /\ s \in Screens /\ s.row \in Rows /\ s.col = 0
             /\ BlankAhead(below) => BlankAhead(s)
  <2>1. out \in Seq(Range(out)) /\ (out # <<>> => Last(out) = "\n")
    BY LineEditorAssumption
  <2>2. Range(out) \subseteq Glyph
    BY DEF Glyph
  <2>3. out \in Seq(Glyph)
    BY <2>1, <2>2
  <2>4. CASE out # <<>>
    BY <1>2, <2>1, <2>3, <2>4, ViprintEffect
  <2>5. CASE out = <<>>
    <3>1. viprint(below, out) = below
      <4>1. PICK f \in [0 .. Len(out) -> Screens] :
              f[0] = below /\ viprint(below, out) = f[Len(out)]
        BY <2>3, ScreensOnTheWay
      <4> QED
        BY <2>5, <4>1
    <3> QED
      BY <1>2, <3>1
  <2> QED
    BY <2>4, <2>5
<1> QED
  BY <1>1, <1>2 DEF AfterCommand

\* Enter begins a row, which is blank unless a line has run into it.
LEMMA EnterShows ==
  ASSUME ShownInv, LineOK', Enter
  PROVE  ShownInv'
<1> DEFINE below == cprint(screen, "\n")
<1>1. /\ below \in Screens /\ below.row \in Rows /\ below.col = 0
      /\ overrun = "never" => BlankAhead(below)
  BY NewlineEffect DEF ShownInv
<1>2. overrun \in {"never", "earlier", "now"}
  BY DEF ShownInv
<1>3. \/ \E s \in AfterCommand(below) : Prompt(s)
      \/ ~(cmd_len > 0) /\ Prompt(below)
  BY DEF Enter
<1> HIDE DEF below
<1>4. ASSUME NEW s \in AfterCommand(below), Prompt(s) PROVE ShownInv'
  <2>1. /\ s \in Screens /\ s.row \in Rows /\ s.col = 0
        /\ s = clear_screen \/ overrun = "never" => BlankAhead(s)
    BY <1>1, CommandEffect
  <2> QED
    BY <1>2, <1>4, <2>1, PromptShows
<1>5. CASE Prompt(below)
  <2>1. below = clear_screen => BlankAhead(below)
    BY ClearScreenEffect
  <2> QED
    BY <1>1, <1>2, <1>5, <2>1, PromptShows
<1> QED
  BY <1>3, <1>4, <1>5

LEMMA KeepShows ==
  ASSUME ShownInv, Keep
  PROVE  ShownInv'
BY DEF ShownInv, LineShown, Keep, bufVars

\* Every key but Enter leaves the line alone or prints it again.
Redrawn == Keep \/ SetLine(cmd_buffer', cmd_pos', cmd_len')

LEMMA SetLineRedraws ==
  ASSUME NEW buf, NEW pos, NEW len, SetLine(buf, pos, len)
  PROVE  Redrawn
BY DEF SetLine, shell_redraw_line, Redrawn

LEMMA LineKeysRedraw ==
  /\ \A c : shell_insert_char(c) => Redrawn
  /\ shell_delete_char_before => Redrawn
  /\ shell_delete_char_at => Redrawn
  /\ shell_move_left => Redrawn
  /\ shell_move_right => Redrawn
  /\ shell_move_home => Redrawn
  /\ shell_move_end => Redrawn
<1>1. ASSUME Keep PROVE Redrawn
  BY <1>1 DEF Redrawn
<1>2. ASSUME NEW c, shell_insert_char(c) PROVE Redrawn
  BY <1>1, <1>2, SetLineRedraws DEF shell_insert_char
<1>3. ASSUME shell_delete_char_before \/ shell_delete_char_at PROVE Redrawn
  BY <1>1, <1>3, SetLineRedraws DEF shell_delete_char_before, shell_delete_char_at
<1>4. ASSUME NEW pos, MoveTo(pos) PROVE Redrawn
  BY <1>4, SetLineRedraws DEF MoveTo
<1>5. ASSUME shell_move_left \/ shell_move_right \/ shell_move_home \/ shell_move_end
      PROVE  Redrawn
  BY <1>1, <1>4, <1>5
     DEF shell_move_left, shell_move_right, shell_move_home, shell_move_end
<1> QED
  BY <1>2, <1>3, <1>5

LEMMA HistoryKeysRedraw ==
  /\ HistoryUp => Redrawn
  /\ HistoryDown => Redrawn
<1>1. ASSUME Keep PROVE Redrawn
  BY <1>1 DEF Redrawn
<1>2. ASSUME NEW s, LineFrom(s) PROVE Redrawn
  BY <1>2, SetLineRedraws DEF LineFrom
<1>3. ASSUME HistoryUp PROVE Redrawn
  BY <1>1, <1>2, <1>3 DEF HistoryUp
<1>4. ASSUME HistoryDown PROVE Redrawn
  BY <1>1, <1>2, <1>4, SetLineRedraws DEF HistoryDown
<1> QED
  BY <1>3, <1>4

LEMMA CharsRedraw ==
  ASSUME NEW c, shell_feed_char(c)
  PROVE  Redrawn \/ Enter
<1>1. ASSUME Keep PROVE Redrawn
  BY <1>1 DEF Redrawn
<1>2. ASSUME NEW d \in {"A", "B", "C", "D", "H", "F", "~"}, NEW buf,
             shell_handle_escape(d, buf)
      PROVE  Redrawn
  BY <1>1, <1>2, LineKeysRedraw, HistoryKeysRedraw DEF shell_handle_escape
<1>3. ASSUME InEscape(c) PROVE Redrawn
  BY <1>1, <1>2, <1>3 DEF InEscape
<1>4. ASSUME Plain(c) PROVE Redrawn \/ Enter
  BY <1>1, <1>4, LineKeysRedraw DEF Plain
<1> QED
  BY <1>3, <1>4 DEF shell_feed_char

LEMMA ShownInitially ==
  shell_init => ShownInv
<1> SUFFICES ASSUME shell_init PROVE ShownInv
  OBVIOUS
<1>1. /\ screen = viprint(clear_screen, PROMPT)
      /\ cmd_len = 0 /\ cmd_pos = 0 /\ overrun = "never"
  BY DEF shell_init
<1>2. LineOK
  BY BoundsInitially, InvParts
<1>3. /\ PROMPT \in Seq(Glyph) /\ Len(PROMPT) = 2 /\ PROMPT # <<>>
      /\ \A i \in 1 .. Len(PROMPT) : PROMPT[i] # "\n"
  BY PromptText
<1>4. screen \in Screens /\ screen.row \in Rows /\ BlankBelow(screen)
  BY <1>1, <1>3, ClearScreenEffect, ViprintEffect DEF BlankAhead
<1>5. screen.col = 2 /\ screen.video[screen.row] = RowOf(PROMPT)
  <2>1. clear_screen.video[clear_screen.row] = Blank
    BY ClearScreenEffect, ScreenSizes DEF clear_screen
  <2>2. /\ screen.row = clear_screen.row /\ screen.col = 2
        /\ screen.video = [clear_screen.video EXCEPT ![clear_screen.row] = RowOf(PROMPT)]
    BY <1>1, <1>3, <2>1, ClearScreenEffect, ScreenSizes, RowPrinted
  <2> QED
    BY <2>2, ClearScreenEffect, ScreenSizes DEF Screens
<1>6. LineShown
  <2> DEFINE text == PROMPT \o Chars(cmd_buffer, cmd_len)
  <2>1. Len(text) = 2 /\ \A i \in 1 .. 2 : text[i] = PROMPT[i]
    BY <1>1, <1>2, PrintedLine, Sizes DEF LineOK, PROMPT_LEN
  <2> HIDE DEF text
  <2>2. RowOf(text) = RowOf(PROMPT)
    <3>1. \A x \in Columns : x < 2 => x + 1 \in 1 .. 2
      BY ScreenSizes DEF Columns
    <3> QED
      BY <1>3, <2>1, <3>1 DEF RowOf
  <2>3. PROMPT_LEN + cmd_pos = 2
    BY <1>1 DEF PROMPT_LEN
  <2> QED
    BY <1>4, <1>5, <2>2, <2>3 DEF LineShown, RowOf, text
<1> QED
  BY <1>1, <1>4, <1>6 DEF ShownInv

LEMMA ShownStep ==
  ShownInv /\ LineOK' /\ [EditorNext]_editorVars => ShownInv'
<1> SUFFICES ASSUME ShownInv, LineOK', [EditorNext]_editorVars PROVE ShownInv'
  OBVIOUS
<1>1. ASSUME Redrawn PROVE ShownInv'
  BY <1>1, KeepShows, RedrawShows DEF Redrawn
<1>2. CASE Feed
  <2>1. shell_feed_char(Head(todo))
    BY <1>2 DEF Feed
  <2>2. Redrawn \/ Enter
    BY <2>1, CharsRedraw
  <2> QED
    BY <1>1, <2>2, EnterShows
<1>3. ASSUME NEW k \in DOMAIN KeyChars, NEW n \in DOMAIN KeyChars[k], Type(k, n)
      PROVE  ShownInv'
  BY <1>3, KeepShows DEF Type, Keep
<1>4. CASE UNCHANGED editorVars
  BY <1>4, KeepShows DEF editorVars, Keep
<1> QED
  BY <1>2, <1>3, <1>4 DEF EditorNext

\* The line the user sees is the line the shell holds, with the cursor where the next
\* character goes, for every size of the screen and of the line and whatever the
\* commands print; and no key moves the cursor off the screen before a line fills its
\* row (shell.c:248-259, 272-280, screen.c:57-109).
THEOREM LineIsShown ==
  EditorSpec => []LineShown
<1>1. BoundsInv => LineOK
  BY InvParts
<1>2. BoundsInv' => LineOK'
  BY <1>1, PTL
<1>3. ShownInv => LineShown
  BY DEF ShownInv
<1> QED
  BY BoundsInitially, BoundsStep, ShownInitially, ShownStep, <1>2, <1>3, PTL DEF EditorSpec

-----------------------------------------------------------------------------
(* What the user asks of the line: texts.                                  *)

\* The line is a text, and its characters are the cells of the buffer.
LEMMA TextOfCells ==
  ASSUME NEW buf \in [Cell -> Symbols], NEW len \in Cell
  PROVE  /\ Chars(buf, len) \in Seq(Symbols) /\ Len(Chars(buf, len)) = len
         /\ \A n \in 1 .. len : Chars(buf, len)[n] = buf[n - 1]
<1> DEFINE chars == Chars(buf, len)
<1>1. len \in Nat /\ \A n \in 1 .. len : n - 1 \in Cell
  BY Sizes DEF Cell
<1>2. chars = [n \in 1 .. len |-> buf[n - 1]]
  BY DEF Chars
<1>3. \A n \in 1 .. len : buf[n - 1] \in Symbols
  BY <1>1
<1> HIDE DEF chars
<1> QED
  BY <1>1, <1>2, <1>3 DEF chars

\* A text with a character put in or taken out, by its characters.
LEMMA TextPutIn ==
  ASSUME NEW S, NEW s \in Seq(S), NEW i \in 1 .. Len(s) + 1, NEW e \in S
  PROVE  /\ InsertAt(s, i, e) \in Seq(S) /\ Len(InsertAt(s, i, e)) = Len(s) + 1
         /\ \A n \in 1 .. Len(s) + 1 : /\ n < i => InsertAt(s, i, e)[n] = s[n]
                                       /\ n = i => InsertAt(s, i, e)[n] = e
                                       /\ n > i => InsertAt(s, i, e)[n] = s[n - 1]
<1> DEFINE a == SubSeq(s, 1, i - 1)
           b == SubSeq(s, i, Len(s))
           one == <<e>>
<1>1. Len(s) \in Nat /\ i \in Nat /\ \A n \in 1 .. Len(s) : s[n] \in S
  BY ElementOfSeq, LenProperties
<1>2. a \in Seq(S) /\ Len(a) = i - 1 /\ \A n \in 1 .. i - 1 : a[n] = s[n]
  <2>1. 1 \in Int /\ i - 1 \in Int /\ \A n \in 1 .. i - 1 : s[n] \in S
    BY <1>1
  <2>2. /\ a \in Seq(S) /\ Len(a) = IF 1 <= i - 1 THEN i - 1 - 1 + 1 ELSE 0
        /\ \A n \in 1 .. i - 1 - 1 + 1 : a[n] = s[1 + n - 1]
    BY <2>1, SubSeqProperties
  <2> QED
    BY <1>1, <2>2
<1>3. /\ b \in Seq(S) /\ Len(b) = Len(s) + 1 - i
      /\ \A n \in 1 .. Len(s) + 1 - i : b[n] = s[i + n - 1]
  <2>1. i \in Int /\ Len(s) \in Int /\ \A n \in i .. Len(s) : s[n] \in S
    BY <1>1
  <2>2. /\ b \in Seq(S) /\ Len(b) = IF i <= Len(s) THEN Len(s) - i + 1 ELSE 0
        /\ \A n \in 1 .. Len(s) - i + 1 : b[n] = s[i + n - 1]
    BY <2>1, SubSeqProperties
  <2> QED
    BY <1>1, <2>2
<1>4. one \in Seq(S) /\ Len(one) = 1 /\ one[1] = e
  OBVIOUS
<1> DEFINE front == a \o one
           all == front \o b
<1>5. InsertAt(s, i, e) = all
  BY DEF InsertAt
<1> HIDE DEF a, b, one, front, all
<1>6. /\ front \in Seq(S) /\ Len(front) = Len(a) + Len(one)
      /\ \A n \in 1 .. Len(a) + Len(one) :
           front[n] = IF n <= Len(a) THEN a[n] ELSE one[n - Len(a)]
  BY <1>2, <1>4, TwoTexts, Zenon DEF front
<1>7. /\ all \in Seq(S) /\ Len(all) = Len(front) + Len(b)
      /\ \A n \in 1 .. Len(front) + Len(b) :
           all[n] = IF n <= Len(front) THEN front[n] ELSE b[n - Len(front)]
  <2>1. front \in Seq(S) /\ b \in Seq(S)
    BY <1>3, <1>6
  <2> QED
    BY <2>1, TwoTexts, Zenon DEF all
<1>8. Len(front) = i
  BY <1>1, <1>2, <1>4, <1>6
<1>9. \A n \in 1 .. i : front[n] = IF n < i THEN s[n] ELSE e
  BY <1>1, <1>2, <1>4, <1>6
<1>10. Len(all) = Len(s) + 1
  BY <1>1, <1>3, <1>7, <1>8
<1>11. ASSUME NEW n \in 1 .. Len(s) + 1
       PROVE  /\ n < i => all[n] = s[n]
              /\ n = i => all[n] = e
              /\ n > i => all[n] = s[n - 1]
  <2>1. CASE n <= i
    <3>1. n \in 1 .. i /\ n \in 1 .. Len(front) + Len(b)
      BY <1>1, <1>3, <1>8, <2>1
    <3> QED
      BY <1>7, <1>8, <1>9, <2>1, <3>1
  <2>2. CASE ~(n <= i)
    <3>1. /\ n - i \in 1 .. Len(s) + 1 - i /\ i + (n - i) - 1 = n - 1
          /\ n \in 1 .. Len(front) + Len(b)
      BY <1>1, <1>3, <1>8, <2>2
    <3>2. b[n - i] = s[n - 1]
      BY <1>3, <3>1
    <3> QED
      BY <1>1, <1>7, <1>8, <2>2, <3>1, <3>2
  <2> QED
    BY <2>1, <2>2
<1> QED
  BY <1>5, <1>7, <1>10, <1>11

LEMMA TextTakenOut ==
  ASSUME NEW S, NEW s \in Seq(S), NEW i \in 1 .. Len(s)
  PROVE  /\ RemoveAt(s, i) \in Seq(S) /\ Len(RemoveAt(s, i)) = Len(s) - 1
         /\ \A n \in 1 .. Len(s) - 1 : RemoveAt(s, i)[n] = IF n < i THEN s[n] ELSE s[n + 1]
<1> DEFINE a == SubSeq(s, 1, i - 1)
           b == SubSeq(s, i + 1, Len(s))
<1>1. Len(s) \in Nat /\ i \in Nat /\ \A n \in 1 .. Len(s) : s[n] \in S
  BY ElementOfSeq, LenProperties
<1>2. a \in Seq(S) /\ Len(a) = i - 1 /\ \A n \in 1 .. i - 1 : a[n] = s[n]
  <2>1. 1 \in Int /\ i - 1 \in Int /\ \A n \in 1 .. i - 1 : s[n] \in S
    BY <1>1
  <2>2. /\ a \in Seq(S) /\ Len(a) = IF 1 <= i - 1 THEN i - 1 - 1 + 1 ELSE 0
        /\ \A n \in 1 .. i - 1 - 1 + 1 : a[n] = s[1 + n - 1]
    BY <2>1, SubSeqProperties
  <2> QED
    BY <1>1, <2>2
<1>3. /\ b \in Seq(S) /\ Len(b) = Len(s) - i
      /\ \A n \in 1 .. Len(s) - i : b[n] = s[i + n]
  <2>1. i + 1 \in Int /\ Len(s) \in Int /\ \A n \in i + 1 .. Len(s) : s[n] \in S
    BY <1>1
  <2>2. /\ b \in Seq(S) /\ Len(b) = IF i + 1 <= Len(s) THEN Len(s) - (i + 1) + 1 ELSE 0
        /\ \A n \in 1 .. Len(s) - (i + 1) + 1 : b[n] = s[i + 1 + n - 1]
    BY <2>1, SubSeqProperties
  <2> QED
    BY <1>1, <2>2
<1> DEFINE all == a \o b
<1>4. RemoveAt(s, i) = all
  BY DEF RemoveAt
<1> HIDE DEF a, b, all
<1>5. /\ all \in Seq(S) /\ Len(all) = Len(a) + Len(b)
      /\ \A n \in 1 .. Len(a) + Len(b) :
           all[n] = IF n <= Len(a) THEN a[n] ELSE b[n - Len(a)]
  BY <1>2, <1>3, TwoTexts, Zenon DEF all
<1>6. Len(all) = Len(s) - 1
  BY <1>1, <1>2, <1>3, <1>5
<1>7. ASSUME NEW n \in 1 .. Len(s) - 1
      PROVE  all[n] = IF n < i THEN s[n] ELSE s[n + 1]
  <2>0. n \in 1 .. Len(a) + Len(b)
    BY <1>1, <1>2, <1>3
  <2>1. CASE n < i
    <3>1. n \in 1 .. i - 1 /\ n <= Len(a)
      BY <1>1, <1>2, <2>1
    <3> QED
      BY <1>2, <1>5, <2>0, <2>1, <3>1
  <2>2. CASE ~(n < i)
    <3>1. n - (i - 1) \in 1 .. Len(s) - i /\ i + (n - (i - 1)) = n + 1 /\ ~(n <= Len(a))
      BY <1>1, <1>2, <2>2
    <3>2. b[n - (i - 1)] = s[n + 1]
      BY <1>3, <3>1
    <3> QED
      BY <1>1, <1>2, <1>5, <2>0, <2>2, <3>1, <3>2
  <2> QED
    BY <2>1, <2>2
<1> QED
  BY <1>4, <1>5, <1>6, <1>7
-----------------------------------------------------------------------------
\* A character put in at the cursor is put into the text there, and the others with it.
LEMMA InsertedText ==
  ASSUME LineOK, cmd_len + 1 \in Cell, NEW c \in Symbols
  PROVE  Chars(Inserted(c), cmd_len + 1) =
           InsertAt(Chars(cmd_buffer, cmd_len), cmd_pos + 1, c)
<1> DEFINE text == Chars(cmd_buffer, cmd_len)
           new == InsertAt(text, cmd_pos + 1, c)
           buf == Inserted(c)
           got == Chars(buf, cmd_len + 1)
<1>1. /\ cmd_len \in Nat /\ cmd_pos \in Nat /\ cmd_pos <= cmd_len /\ cmd_len \in Cell
      /\ MAX_CMD_LEN \in Nat
  BY Sizes DEF LineOK, Cell
<1>2. /\ text \in Seq(Symbols) /\ Len(text) = cmd_len
      /\ \A n \in 1 .. cmd_len : text[n] = cmd_buffer[n - 1]
  BY TextOfCells DEF LineOK
<1> HIDE DEF text
<1>3. /\ new \in Seq(Symbols) /\ Len(new) = cmd_len + 1
      /\ \A n \in 1 .. cmd_len + 1 : /\ n < cmd_pos + 1 => new[n] = text[n]
                                     /\ n = cmd_pos + 1 => new[n] = c
                                     /\ n > cmd_pos + 1 => new[n] = text[n - 1]
  <2> DEFINE i == cmd_pos + 1
             put == InsertAt(text, i, c)
  <2>1. i \in 1 .. Len(text) + 1 /\ text \in Seq(Symbols)
    BY <1>1, <1>2
  <2> HIDE DEF i
  <2>2. put \in Seq(Symbols)
    BY <2>1, TextPutIn
  <2>3. Len(put) = Len(text) + 1
    BY <2>1, TextPutIn
  <2>4. \A n \in 1 .. Len(text) + 1 : n < i => put[n] = text[n]
    BY <2>1, TextPutIn
  <2>5. \A n \in 1 .. Len(text) + 1 : n = i => put[n] = c
    BY <2>1, TextPutIn
  <2>6. \A n \in 1 .. Len(text) + 1 : n > i => put[n] = text[n - 1]
    BY <2>1, TextPutIn
  <2> QED
    BY <1>2, <2>2, <2>3, <2>4, <2>5, <2>6 DEF i
<1>4. ASSUME NEW n \in Cell
      PROVE  /\ n = cmd_pos => buf[n] = c
             /\ n \in cmd_pos + 1 .. cmd_len => buf[n] = cmd_buffer[n - 1]
             /\ n # cmd_pos /\ n \notin cmd_pos + 1 .. cmd_len => buf[n] = cmd_buffer[n]
  <2>1. buf[n] = CASE n = cmd_pos -> c
                   [] n \in cmd_pos + 1 .. cmd_len -> cmd_buffer[n - 1]
                   [] OTHER -> cmd_buffer[n]
    BY DEF Inserted
  <2>2. ~(n = cmd_pos /\ n \in cmd_pos + 1 .. cmd_len)
    BY <1>1
  <2> HIDE DEF buf
  <2> QED
    BY <2>1, <2>2, Zenon
<1>5. buf \in [Cell -> Symbols]
  BY InsertedCells
<1> HIDE DEF buf, new
<1>6. /\ got \in Seq(Symbols) /\ Len(got) = cmd_len + 1
      /\ \A n \in 1 .. cmd_len + 1 : got[n] = buf[n - 1]
  BY <1>5, TextOfCells
<1> HIDE DEF got
<1>7. ASSUME NEW n \in 1 .. cmd_len + 1 PROVE got[n] = new[n]
  <2>1. n - 1 \in Cell /\ n \in Nat
    BY <1>1 DEF Cell
  <2>2. CASE n < cmd_pos + 1
    <3>1. n - 1 # cmd_pos /\ n - 1 \notin cmd_pos + 1 .. cmd_len /\ n \in 1 .. cmd_len
      BY <1>1, <2>1, <2>2
    <3>2. got[n] = cmd_buffer[n - 1]
      BY <1>4, <1>6, <2>1, <3>1
    <3>3. new[n] = cmd_buffer[n - 1]
      BY <1>2, <1>3, <2>2, <3>1
    <3> QED
      BY <3>2, <3>3
  <2>3. CASE n = cmd_pos + 1
    <3>1. n - 1 = cmd_pos
      BY <1>1, <2>3
    <3>2. got[n] = c
      BY <1>4, <1>6, <2>1, <3>1
    <3>3. new[n] = c
      BY <1>3, <2>3
    <3> QED
      BY <3>2, <3>3
  <2>4. CASE n > cmd_pos + 1
    <3>1. n - 1 \in cmd_pos + 1 .. cmd_len /\ n - 1 \in 1 .. cmd_len
      BY <1>1, <2>1, <2>4
    <3>2. got[n] = cmd_buffer[(n - 1) - 1]
      BY <1>4, <1>6, <2>1, <3>1
    <3>3. new[n] = cmd_buffer[(n - 1) - 1]
      BY <1>2, <1>3, <2>4, <3>1
    <3> QED
      BY <3>2, <3>3
  <2> QED
    BY <1>1, <2>1, <2>2, <2>3, <2>4
<1> QED
  BY <1>3, <1>6, <1>7, SeqEqual DEF got, new, text, buf

\* The cells behind a deleted one, as a text.
LEMMA ClosedText ==
  ASSUME LineOK, NEW from \in Nat, from < cmd_len
  PROVE  Chars(Closed(from), cmd_len - 1) = RemoveAt(Chars(cmd_buffer, cmd_len), from + 1)
<1> DEFINE text == Chars(cmd_buffer, cmd_len)
           new == RemoveAt(text, from + 1)
           buf == Closed(from)
           got == Chars(buf, cmd_len - 1)
<1>1. /\ cmd_len \in Nat /\ cmd_len \in Cell /\ cmd_len - 1 \in Cell
      /\ MAX_CMD_LEN \in Nat /\ cmd_len < MAX_CMD_LEN
  BY Sizes DEF LineOK, Cell
<1>2. /\ text \in Seq(Symbols) /\ Len(text) = cmd_len
      /\ \A n \in 1 .. cmd_len : text[n] = cmd_buffer[n - 1]
  BY TextOfCells DEF LineOK
<1> HIDE DEF text
<1>3. /\ new \in Seq(Symbols) /\ Len(new) = cmd_len - 1
      /\ \A n \in 1 .. cmd_len - 1 : new[n] = IF n < from + 1 THEN text[n] ELSE text[n + 1]
  <2>1. from + 1 \in 1 .. Len(text)
    BY <1>1, <1>2
  <2> QED
    BY <1>2, <2>1, TextTakenOut
<1>4. /\ buf \in [Cell -> Symbols]
      /\ \A n \in Cell :
           buf[n] = IF n \in from .. cmd_len - 2 THEN cmd_buffer[n + 1] ELSE cmd_buffer[n]
  BY ClosedIsLine DEF Closed
<1> HIDE DEF buf, new
<1>5. /\ got \in Seq(Symbols) /\ Len(got) = cmd_len - 1
      /\ \A n \in 1 .. cmd_len - 1 : got[n] = buf[n - 1]
  BY <1>1, <1>4, TextOfCells
<1> HIDE DEF got
<1>6. ASSUME NEW n \in 1 .. cmd_len - 1 PROVE got[n] = new[n]
  <2>1. n - 1 \in Cell /\ n \in Nat /\ n \in 1 .. cmd_len /\ n + 1 \in 1 .. cmd_len
        /\ (n + 1) - 1 = (n - 1) + 1
    BY <1>1 DEF Cell
  <2>2. CASE n < from + 1
    <3>1. n - 1 \notin from .. cmd_len - 2
      BY <1>1, <2>1, <2>2
    <3> QED
      BY <1>2, <1>3, <1>4, <1>5, <2>1, <2>2, <3>1
  <2>3. CASE ~(n < from + 1)
    <3>1. n - 1 \in from .. cmd_len - 2
      BY <1>1, <2>1, <2>3
    <3> QED
      BY <1>2, <1>3, <1>4, <1>5, <2>1, <2>3, <3>1
  <2> QED
    BY <2>2, <2>3
<1> QED
  BY <1>3, <1>5, <1>6, SeqEqual DEF got, new, text, buf
-----------------------------------------------------------------------------
(* What CommandLine sees of the editor, and the keys that edit the line.   *)

\* What CommandLine sees of the editor: its text, the commands listed, and how many
\* commands back the line was taken from.
Text == Chars(cmd_buffer, cmd_len)
Back == IF history_index = -1 THEN 0 ELSE history_count - history_index

Edited(t, c) == Text' = t /\ cmd_pos' = c /\ Listed' = Listed /\ Back' = Back
Recalled(t)  == Text' = t /\ cmd_pos' = Len(t) /\ Listed' = Listed
Unchanged    == Edited(Text, cmd_pos)

\* CommandLine's parts, over the editor's variables.
LEMMA LineVariables ==
  /\ Line!Nothing <=> Unchanged
  /\ \A t, c : Line!Edit(t, c) <=> Edited(t, c)
  /\ \A t : Line!Recall(t) <=> Recalled(t)
  /\ UNCHANGED Line!lineVars <=> Unchanged /\ asked' = asked
  /\ Line!LineInit <=> /\ Text = <<>> /\ cmd_pos = 0 /\ Listed = <<>> /\ Back = 0
                       /\ asked = Line!Idle
<1>1. Line!Nothing <=> Unchanged
  BY DEF Line!Nothing, Unchanged, Edited, Text, Back
<1>2. ASSUME NEW t, NEW c PROVE Line!Edit(t, c) <=> Edited(t, c)
  BY DEF Line!Edit, Edited, Text, Back
<1>3. ASSUME NEW t PROVE Line!Recall(t) <=> Recalled(t)
  BY DEF Line!Recall, Recalled, Text
<1>4. UNCHANGED Line!lineVars <=> Unchanged /\ asked' = asked
  BY DEF Line!lineVars, Unchanged, Edited, Text, Back
<1>5. Line!LineInit <=> /\ Text = <<>> /\ cmd_pos = 0 /\ Listed = <<>> /\ Back = 0
                        /\ asked = Line!Idle
  BY DEF Line!LineInit, Text, Back
<1> QED
  BY <1>1, <1>2, <1>3, <1>4, <1>5

\* The keys.
Key(o) == [op |-> o]
Typed(c) == [op |-> "insert", c |-> c]

LEMMA TheKeys ==
  /\ \A c \in Printable : Typed(c) \in Line!Keys
  /\ \A o \in {"enter", "backspace", "delete", "left", "right", "home", "end", "older", "newer"} :
       Key(o) \in Line!Keys
  /\ Line!Idle = Key("idle") /\ Line!Noise = Key("noise")
  /\ Line!Idle \notin Line!Keys /\ Line!Noise \notin Line!Keys /\ Line!Idle # Line!Noise
<1>1. \A c \in Printable : Typed(c) \in Line!Keys
  BY DEF Line!Keys, Typed
<1>2. \A o \in {"enter", "backspace", "delete", "left", "right", "home", "end", "older", "newer"} :
       Key(o) \in Line!Keys
  BY DEF Line!Keys, Key
<1>3. Line!Idle = Key("idle") /\ Line!Noise = Key("noise")
  BY DEF Line!Idle, Line!Noise, Key
<1>4. Line!Idle # Line!Noise
  <2>1. Key("idle").op = "idle" /\ Key("noise").op = "noise"
    BY DEF Key
  <2> QED
    BY <1>3, <2>1
<1>5. \A k \in Line!Keys : k.op # "idle" /\ k.op # "noise"
  BY DEF Line!Keys
<1>6. Line!Idle.op = "idle" /\ Line!Noise.op = "noise"
  BY DEF Line!Idle, Line!Noise
<1> QED
  BY <1>1, <1>2, <1>3, <1>4, <1>5, <1>6

\* What each key is to do.
LEMMA WorkOfKeys ==
  /\ \A c : Line!Work(Typed(c)) <=>
       IF Len(Text) < MAX_CMD_LEN - 1
       THEN Edited(InsertAt(Text, cmd_pos + 1, c), cmd_pos + 1) ELSE Unchanged
  /\ Line!Work(Key("backspace")) <=>
       IF cmd_pos > 0 THEN Edited(RemoveAt(Text, cmd_pos), cmd_pos - 1) ELSE Unchanged
  /\ Line!Work(Key("delete")) <=>
       IF cmd_pos < Len(Text) THEN Edited(RemoveAt(Text, cmd_pos + 1), cmd_pos) ELSE Unchanged
  /\ Line!Work(Key("left")) <=>
       IF cmd_pos > 0 THEN Edited(Text, cmd_pos - 1) ELSE Unchanged
  /\ Line!Work(Key("right")) <=>
       IF cmd_pos < Len(Text) THEN Edited(Text, cmd_pos + 1) ELSE Unchanged
  /\ Line!Work(Key("home")) <=> Edited(Text, 0)
  /\ Line!Work(Key("end")) <=> Edited(Text, Len(Text))
  /\ Line!Work(Key("older")) <=> Line!Older
  /\ Line!Work(Key("newer")) <=> Line!Newer
  /\ Line!Work(Key("enter")) <=> Line!Enter
<1>1. /\ Key("enter").op = "enter" /\ Key("backspace").op = "backspace"
      /\ Key("delete").op = "delete" /\ Key("left").op = "left" /\ Key("right").op = "right"
      /\ Key("home").op = "home" /\ Key("end").op = "end"
      /\ Key("older").op = "older" /\ Key("newer").op = "newer"
  BY DEF Key
<1>2. \A c : Typed(c).op = "insert" /\ Typed(c).c = c
  BY DEF Typed
<1>3. ASSUME NEW c
      PROVE  Line!Work(Typed(c)) <=>
               IF Len(Text) < MAX_CMD_LEN - 1
               THEN Edited(InsertAt(Text, cmd_pos + 1, c), cmd_pos + 1) ELSE Unchanged
  BY <1>2, LineVariables DEF Line!Work, Line!InsertAt, InsertAt, Text
<1>4. Line!Work(Key("backspace")) <=>
        IF cmd_pos > 0 THEN Edited(RemoveAt(Text, cmd_pos), cmd_pos - 1) ELSE Unchanged
  BY <1>1, LineVariables DEF Line!Work, Line!RemoveAt, RemoveAt, Text
<1>5. Line!Work(Key("delete")) <=>
        IF cmd_pos < Len(Text) THEN Edited(RemoveAt(Text, cmd_pos + 1), cmd_pos) ELSE Unchanged
  BY <1>1, LineVariables DEF Line!Work, Line!RemoveAt, RemoveAt, Text
<1>6. /\ Line!Work(Key("left")) <=>
            IF cmd_pos > 0 THEN Edited(Text, cmd_pos - 1) ELSE Unchanged
      /\ Line!Work(Key("right")) <=>
            IF cmd_pos < Len(Text) THEN Edited(Text, cmd_pos + 1) ELSE Unchanged
  BY <1>1, LineVariables DEF Line!Work, Text
<1>7. /\ Line!Work(Key("home")) <=> Edited(Text, 0)
      /\ Line!Work(Key("end")) <=> Edited(Text, Len(Text))
  BY <1>1, LineVariables DEF Line!Work, Text
<1>8. /\ Line!Work(Key("older")) <=> Line!Older
      /\ Line!Work(Key("newer")) <=> Line!Newer
      /\ Line!Work(Key("enter")) <=> Line!Enter
  BY <1>1 DEF Line!Work
<1> QED
  BY <1>3, <1>4, <1>5, <1>6, <1>7, <1>8

\* The list of commands stays as long as the history does.
LEMMA SameText ==
  ASSUME NEW t, NEW len, NEW pos, Text' = t, cmd_pos' = pos, UNCHANGED histVars
  PROVE  Edited(t, pos)
BY DEF Edited, histVars, Listed, Entry, Back

LEMMA SetLineEdits ==
  ASSUME NEW buf, NEW pos, NEW len, SetLine(buf, pos, len), UNCHANGED histVars
  PROVE  Edited(Chars(buf, len), pos)
<1>1. Text' = Chars(buf, len) /\ cmd_pos' = pos
  BY DEF SetLine, Text
<1> QED
  BY <1>1, SameText

LEMMA KeepKeepsText ==
  ASSUME Keep, UNCHANGED histVars
  PROVE  Unchanged
<1>1. Text' = Text /\ cmd_pos' = cmd_pos
  BY DEF Keep, bufVars, Text
<1> QED
  BY <1>1, SameText DEF Unchanged

\* The keys that work on the line alone do what CommandLine asks of them.
LEMMA LineKeysWork ==
  ASSUME LineOK, UNCHANGED histVars
  PROVE  /\ \A c \in Printable : shell_insert_char(c) => Line!Work(Typed(c))
         /\ shell_delete_char_before => Line!Work(Key("backspace"))
         /\ shell_delete_char_at => Line!Work(Key("delete"))
         /\ shell_move_left => Line!Work(Key("left"))
         /\ shell_move_right => Line!Work(Key("right"))
         /\ shell_move_home => Line!Work(Key("home"))
         /\ shell_move_end => Line!Work(Key("end"))
<1>1. /\ cmd_len \in Nat /\ cmd_pos \in Nat /\ cmd_pos <= cmd_len
      /\ MAX_CMD_LEN \in Nat /\ cmd_len < MAX_CMD_LEN /\ Len(Text) = cmd_len
  BY Sizes, TextOfCells DEF LineOK, Cell, Text
<1>2. Keep => Unchanged
  BY KeepKeepsText
<1>3. ASSUME NEW c \in Printable, shell_insert_char(c) PROVE Line!Work(Typed(c))
  <2>1. CASE cmd_len >= MAX_CMD_LEN - 1
    <3>1. Unchanged /\ ~(Len(Text) < MAX_CMD_LEN - 1)
      BY <1>1, <1>2, <1>3, <2>1 DEF shell_insert_char
    <3> QED
      BY <3>1, WorkOfKeys
  <2>2. CASE ~(cmd_len >= MAX_CMD_LEN - 1)
    <3>1. SetLine(Inserted(c), cmd_pos + 1, cmd_len + 1) /\ cmd_len + 1 \in Cell
          /\ Len(Text) < MAX_CMD_LEN - 1
      BY <1>1, <1>3, <2>2 DEF shell_insert_char, Cell
    <3>2. Edited(Chars(Inserted(c), cmd_len + 1), cmd_pos + 1)
      BY <3>1, SetLineEdits
    <3>3. Chars(Inserted(c), cmd_len + 1) = InsertAt(Text, cmd_pos + 1, c)
      BY <3>1, InsertedText DEF Text, Symbols
    <3> QED
      BY <3>1, <3>2, <3>3, WorkOfKeys
  <2> QED
    BY <2>1, <2>2
<1>4. ASSUME shell_delete_char_before PROVE Line!Work(Key("backspace"))
  <2>1. CASE cmd_pos = 0
    <3>1. Unchanged /\ ~(cmd_pos > 0)
      BY <1>2, <1>4, <2>1 DEF shell_delete_char_before
    <3> QED
      BY <3>1, WorkOfKeys
  <2>2. CASE cmd_pos # 0
    <3>1. /\ SetLine(Closed(cmd_pos - 1), cmd_pos - 1, cmd_len - 1)
          /\ cmd_pos - 1 \in Nat /\ cmd_pos - 1 < cmd_len /\ cmd_pos > 0
          /\ (cmd_pos - 1) + 1 = cmd_pos
      BY <1>1, <1>4, <2>2 DEF shell_delete_char_before
    <3>2. Edited(Chars(Closed(cmd_pos - 1), cmd_len - 1), cmd_pos - 1)
      BY <3>1, SetLineEdits
    <3>3. Chars(Closed(cmd_pos - 1), cmd_len - 1) = RemoveAt(Text, cmd_pos)
      <4>1. Chars(Closed(cmd_pos - 1), cmd_len - 1) = RemoveAt(Text, (cmd_pos - 1) + 1)
        BY <3>1, ClosedText DEF Text
      <4> QED
        BY <3>1, <4>1
    <3> QED
      BY <3>1, <3>2, <3>3, WorkOfKeys
  <2> QED
    BY <2>1, <2>2
<1>5. ASSUME shell_delete_char_at PROVE Line!Work(Key("delete"))
  <2>1. CASE cmd_pos >= cmd_len
    <3>1. Unchanged /\ ~(cmd_pos < Len(Text))
      BY <1>1, <1>2, <1>5, <2>1 DEF shell_delete_char_at
    <3> QED
      BY <3>1, WorkOfKeys
  <2>2. CASE ~(cmd_pos >= cmd_len)
    <3>1. /\ SetLine(Closed(cmd_pos), cmd_pos, cmd_len - 1)
          /\ cmd_pos < cmd_len /\ cmd_pos < Len(Text)
      BY <1>1, <1>5, <2>2 DEF shell_delete_char_at
    <3>2. Edited(Chars(Closed(cmd_pos), cmd_len - 1), cmd_pos)
      BY <3>1, SetLineEdits
    <3>3. Chars(Closed(cmd_pos), cmd_len - 1) = RemoveAt(Text, cmd_pos + 1)
      BY <1>1, <3>1, ClosedText DEF Text
    <3> QED
      BY <3>1, <3>2, <3>3, WorkOfKeys
  <2> QED
    BY <2>1, <2>2
<1>6. ASSUME NEW pos, MoveTo(pos) PROVE Edited(Text, pos)
  BY <1>6, SetLineEdits DEF MoveTo, Text
<1>7. ASSUME shell_move_left PROVE Line!Work(Key("left"))
  BY <1>2, <1>6, <1>7, WorkOfKeys DEF shell_move_left
<1>8. ASSUME shell_move_right PROVE Line!Work(Key("right"))
  BY <1>1, <1>2, <1>6, <1>8, WorkOfKeys DEF shell_move_right
<1>9. ASSUME shell_move_home PROVE Line!Work(Key("home"))
  BY <1>6, <1>9, WorkOfKeys DEF shell_move_home
<1>10. ASSUME shell_move_end PROVE Line!Work(Key("end"))
  BY <1>1, <1>6, <1>10, WorkOfKeys DEF shell_move_end
<1> QED
  BY <1>3, <1>4, <1>5, <1>7, <1>8, <1>9, <1>10

-----------------------------------------------------------------------------
(* The history: remainders of its indices, strings and their texts, and    *)
(* the commands that are listed.                                           *)

\* Every number is whole turns and a rest.
LEMMA TurnsAndRest ==
  ASSUME NEW w \in Nat \ {0}, NEW i \in Nat
  PROVE  \E q \in Nat : \E r \in 0 .. w - 1 : i = q * w + r /\ i % w = r
<1> DEFINE q == i \div w
           r == i % w
<1>1. q \in Nat /\ r \in 0 .. w - 1 /\ i = w * q + r
  OBVIOUS
<1>2. w * q = q * w
  BY <1>1
<1> QED
  BY <1>1, <1>2

\* A stretch as long as the divisor has every remainder, and each but once.
LEMMA EveryRemainder ==
  ASSUME NEW w \in Nat \ {0}, NEW s \in Nat, NEW i \in Nat
  PROVE  \E j \in s .. s + w - 1 : j % w = i % w
<1>1. PICK q \in Nat : \E t \in 0 .. w - 1 : s = q * w + t
  BY TurnsAndRest
<1>2. PICK t \in 0 .. w - 1 : s = q * w + t
  BY <1>1
<1>3. i % w \in 0 .. w - 1
  OBVIOUS
<1> DEFINE r == i % w
           turns == q * w
<1>4. turns \in Nat /\ r \in 0 .. w - 1 /\ r \in Nat /\ r < w
  BY <1>3
<1>5. (turns + r) % w = r
  BY <1>4, RestIsRemainder
<1>6. (turns + w + r) % w = r
  <2>1. ((q + 1) * w + r) % w = r
    BY <1>4, RestIsRemainder
  <2>2. (q + 1) * w = turns + w
    OBVIOUS
  <2> QED
    BY <2>1, <2>2
<1> HIDE DEF r, turns
<1>7. CASE r >= t
  <2>1. turns + r \in s .. s + w - 1
    BY <1>2, <1>4, <1>7 DEF turns
  <2> QED
    BY <1>5, <2>1 DEF r
<1>8. CASE r < t
  <2>1. turns + w + r \in s .. s + w - 1
    BY <1>2, <1>4, <1>8 DEF turns
  <2> QED
    BY <1>6, <2>1 DEF r
<1> QED
  BY <1>2, <1>4, <1>7, <1>8

LEMMA OneRemainder ==
  ASSUME NEW w \in Nat \ {0}, NEW a \in Nat, NEW b \in Nat, a < b, b < a + w
  PROVE  a % w # b % w
<1> SUFFICES ASSUME a % w = b % w PROVE FALSE
  OBVIOUS
<1>1. PICK p \in Nat : a = p * w + (a % w)
  BY TurnsAndRest
<1>2. PICK q \in Nat : b = q * w + (b % w)
  BY TurnsAndRest
<1>3. a % w \in Nat
  OBVIOUS
<1> DEFINE r == a % w
<1>4. r \in Nat /\ a = p * w + r /\ b = q * w + r
  BY <1>1, <1>2, <1>3
<1> HIDE DEF r
<1>5. CASE q <= p
  <2>1. q * w <= p * w
    BY <1>5
  <2> QED
    BY <1>4, <2>1
<1>6. CASE p + 1 <= q
  <2>1. (p + 1) * w <= q * w /\ (p + 1) * w = p * w + w
    BY <1>6
  <2> QED
    BY <1>4, <2>1
<1> QED
  BY <1>5, <1>6

\* Strings: the first terminator is the only cell that can be the length.
Is(s) == Chars(s, StrLen(s))

\* And no other cell can be the length.
LEMMA LengthIs ==
  ASSUME NEW s \in [Cell -> Symbols], NEW n \in Cell, s[n] = NUL,
         \A m \in Cell : m < n => s[m] # NUL
  PROVE  StrLen(s) = n
<1>1. Ends(s)
  BY DEF Ends
<1> DEFINE end == StrLen(s)
<1>2. end \in Cell /\ end \in Nat /\ s[end] = NUL /\ \A m \in Cell : m < end => s[m] # NUL
  BY <1>1, StrLenIs
<1> HIDE DEF end
<1>3. n \in Nat
  BY Sizes DEF Cell
<1>4. ~(end < n) /\ ~(n < end)
  BY <1>2
<1> QED
  BY <1>2, <1>3, <1>4 DEF end

\* The text of a string.
LEMMA TextOf ==
  ASSUME NEW s \in [Cell -> Symbols], Ends(s)
  PROVE  /\ Is(s) \in Seq(Symbols) /\ Len(Is(s)) = StrLen(s)
         /\ \A n \in 1 .. StrLen(s) : Is(s)[n] = s[n - 1]
BY StrLenIs, TextOfCells DEF Is

\* Strings with the same cells up to the first one's terminator have the same text.
LEMMA SameCells ==
  ASSUME NEW s \in [Cell -> Symbols], Ends(s), NEW t \in [Cell -> Symbols],
         \A n \in Cell : n <= StrLen(s) => t[n] = s[n]
  PROVE  StrLen(t) = StrLen(s) /\ Is(t) = Is(s) /\ Chars(t, StrLen(s)) = Is(s)
<1> DEFINE end == StrLen(s)
<1>1. end \in Cell /\ end \in Nat /\ s[end] = NUL /\ \A m \in Cell : m < end => s[m] # NUL
  BY StrLenIs
<1>2. \A n \in Cell : n <= end => t[n] = s[n]
  OBVIOUS
<1> HIDE DEF end
<1>3. \A n \in Cell : n \in Nat
  BY Sizes DEF Cell
<1>4. t[end] = NUL /\ \A m \in Cell : m < end => t[m] # NUL
  BY <1>1, <1>2, <1>3
<1>5. StrLen(t) = end
  BY <1>1, <1>4, LengthIs
<1>6. Chars(t, end) = Chars(s, end)
  <2>1. \A n \in 1 .. end : n - 1 \in Cell /\ n - 1 <= end
    BY <1>1, Sizes DEF Cell
  <2>2. \A n \in 1 .. end : t[n - 1] = s[n - 1]
    BY <1>2, <2>1
  <2> QED
    BY <2>2 DEF Chars
<1> QED
  BY <1>5, <1>6 DEF end, Is

\* A copy has the text it was made from, over whatever was there.
LEMMA CopyText ==
  ASSUME NEW d \in [Cell -> Symbols], NEW s \in [Cell -> Symbols], Ends(s)
  PROVE  Is(StrCpy(d, s)) = Is(s) /\ Chars(StrCpy(d, s), StrLen(s)) = Is(s)
<1>1. StrCpy(d, s) \in [Cell -> Symbols]
  BY CopyEnds
<1>2. \A n \in Cell : n <= StrLen(s) => StrCpy(d, s)[n] = s[n]
  BY DEF StrCpy
<1> QED
  BY <1>1, <1>2, SameCells

\* Two strings are equal for strcmp if they have the same text.
LEMMA EqualText ==
  ASSUME NEW s \in [Cell -> Symbols], Ends(s), NEW t \in [Cell -> Symbols], Ends(t)
  PROVE  StrEq(s, t) <=> Is(s) = Is(t)
<1> DEFINE m == StrLen(s)
           n == StrLen(t)
<1>1. m \in Nat /\ n \in Nat /\ m \in Cell /\ s[m] = NUL /\ t[n] = NUL
  BY StrLenIs
<1>2. /\ Is(s) \in Seq(Symbols) /\ Len(Is(s)) = m /\ \A i \in 1 .. m : Is(s)[i] = s[i - 1]
      /\ Is(t) \in Seq(Symbols) /\ Len(Is(t)) = n /\ \A i \in 1 .. n : Is(t)[i] = t[i - 1]
  BY TextOf
<1>3. StrEq(s, t) <=> m = n /\ \A i \in 0 .. m : s[i] = t[i]
  BY DEF StrEq
<1> HIDE DEF m, n
<1>4. ASSUME StrEq(s, t) PROVE Is(s) = Is(t)
  <2>1. m = n /\ \A i \in 1 .. m : s[i - 1] = t[i - 1]
    BY <1>1, <1>3, <1>4
  <2> QED
    BY <1>2, <2>1, SeqEqual
<1>5. ASSUME Is(s) = Is(t) PROVE StrEq(s, t)
  <2>1. m = n
    BY <1>2, <1>5
  <2>2. \A i \in 1 .. m : s[i - 1] = t[i - 1]
    BY <1>2, <1>5, <2>1
  <2>3. ASSUME NEW i \in 0 .. m PROVE s[i] = t[i]
    <3>1. CASE i = m
      BY <1>1, <2>1, <3>1
    <3>2. CASE i # m
      <4>1. i + 1 \in 1 .. m /\ (i + 1) - 1 = i
        BY <1>1, <3>2
      <4> QED
        BY <2>2, <4>1
    <3> QED
      BY <3>1, <3>2
  <2> QED
    BY <1>3, <2>1, <2>3
<1> QED
  BY <1>4, <1>5
-----------------------------------------------------------------------------
\* The commands listed are the last entries of the history.
Start(count) == IF count > HISTORY_SIZE THEN count - HISTORY_SIZE ELSE 0
TextAt(h, i) == Is(h[i % HISTORY_SIZE])

ListedKnown ==
  /\ Start(history_count) \in 0 .. history_count
  /\ history_count - Start(history_count) <= HISTORY_SIZE
  /\ Listed \in Seq(Seq(Symbols)) /\ Len(Listed) = history_count - Start(history_count)
  /\ \A n \in 1 .. history_count - Start(history_count) :
       Listed[n] = TextAt(history, Start(history_count) + n - 1)
  /\ \A i \in Nat : TextAt(history, i) \in Seq(Symbols)

\* The entries of the history that are listed are texts.
LEMMA ListedIs ==
  ASSUME HistoryOK
  PROVE  ListedKnown
<1> DEFINE start == Start(history_count)
           size == history_count - start
<1>1. history_count \in Nat /\ HISTORY_SIZE \in Nat \ {0}
  BY Sizes DEF HistoryOK
<1>2. start \in 0 .. history_count /\ size <= HISTORY_SIZE /\ size \in Nat
  BY <1>1 DEF Start
<1>3. \A i \in Nat : TextAt(history, i) \in Seq(Symbols)
  BY EntryEnds, TextOf DEF TextAt, Entry
<1>4. Listed = [n \in 1 .. size |-> TextAt(history, start + n - 1)]
  BY DEF Listed, Entry, TextAt, Is, Start
<1> HIDE DEF start, size
<1>5. \A n \in 1 .. size : start + n - 1 \in Nat
  BY <1>2
<1>6. \A n \in 1 .. size : TextAt(history, start + n - 1) \in Seq(Symbols)
  BY <1>3, <1>5
<1>7. Listed \in Seq(Seq(Symbols)) /\ Len(Listed) = size
      /\ \A n \in 1 .. size : Listed[n] = TextAt(history, start + n - 1)
  BY <1>2, <1>4, <1>6
<1> QED
  BY <1>2, <1>3, <1>7 DEF start, size, ListedKnown

\* Every entry the index can reach is listed: before the first one listed, its array
\* holds one that is.
LEMMA EntryIsListed ==
  ASSUME HistoryOK, NEW i \in 0 .. history_count - 1
  PROVE  /\ \E n \in DOMAIN Listed : TextAt(history, i) = Listed[n]
         /\ i >= Start(history_count) =>
              /\ i - Start(history_count) + 1 \in DOMAIN Listed
              /\ TextAt(history, i) = Listed[i - Start(history_count) + 1]
<1> DEFINE start == Start(history_count)
           size == history_count - start
<1>1. /\ history_count \in Nat /\ HISTORY_SIZE \in Nat \ {0} /\ i \in Nat
      /\ start \in 0 .. history_count /\ size <= HISTORY_SIZE
      /\ Listed \in Seq(Seq(Symbols)) /\ Len(Listed) = size
      /\ \A n \in 1 .. size : Listed[n] = TextAt(history, start + n - 1)
  BY Sizes, ListedIs DEF HistoryOK, ListedKnown
<1>2. start > 0 => size = HISTORY_SIZE
  BY <1>1 DEF Start
<1> HIDE DEF start
<1>3. DOMAIN Listed = 1 .. size
  BY <1>1
<1>4. ASSUME NEW j \in start .. history_count - 1
      PROVE  j - start + 1 \in DOMAIN Listed /\ TextAt(history, j) = Listed[j - start + 1]
  <2>1. j - start + 1 \in 1 .. size /\ start + (j - start + 1) - 1 = j
    BY <1>1
  <2> QED
    BY <1>1, <1>3, <2>1
<1>5. CASE i >= start
  <2>1. i \in start .. history_count - 1
    BY <1>1, <1>5
  <2> QED
    BY <1>4, <2>1 DEF start
<1>6. CASE i < start
  <2>1. PICK j \in start .. start + HISTORY_SIZE - 1 : j % HISTORY_SIZE = i % HISTORY_SIZE
    <3>1. start \in Nat
      BY <1>1
    <3> QED
      BY <1>1, <3>1, EveryRemainder, Zenon
  <2>2. j \in start .. history_count - 1
    BY <1>1, <1>2, <1>6
  <2>3. TextAt(history, i) = TextAt(history, j)
    BY <2>1 DEF TextAt
  <2> QED
    BY <1>1, <1>4, <1>6, <2>2, <2>3 DEF start
<1> QED
  BY <1>1, <1>5, <1>6

\* A command taken from the history becomes the line.
LEMMA LineFromRecalls ==
  ASSUME LineOK, HistoryOK, NEW i \in Nat, LineFrom(Entry(i)), KeepHistory
  PROVE  Recalled(TextAt(history, i))
<1> DEFINE s == Entry(i)
<1>1. s \in [Cell -> Symbols] /\ Ends(s)
  BY EntryEnds
<1>2. cmd_buffer' = StrCpy(cmd_buffer, s) /\ cmd_pos' = StrLen(s) /\ cmd_len' = StrLen(s)
  BY DEF LineFrom, SetLine
<1>3. Text' = Chars(StrCpy(cmd_buffer, s), StrLen(s))
  BY <1>2 DEF Text
<1> HIDE DEF s
<1>4. Text' = Is(s) /\ Len(Is(s)) = StrLen(s)
  BY <1>1, <1>3, CopyText, TextOf DEF LineOK
<1>5. Listed' = Listed
  BY DEF KeepHistory, Listed, Entry
<1> QED
  BY <1>2, <1>4, <1>5 DEF Recalled, TextAt, Entry, s
-----------------------------------------------------------------------------
\* CommandLine's walk through the commands and its Enter, over the editor's variables.
LEMMA WalkIs ==
  /\ Line!Older <=>
       IF Listed = <<>> THEN Unchanged
       ELSE IF Back < Len(Listed)
            THEN Back' = Back + 1 /\ Recalled(Listed[Len(Listed) - Back])
            ELSE Back' \in {Back, Back + 1} /\ \E n \in DOMAIN Listed : Recalled(Listed[n])
  /\ Back = 0 /\ Len(Listed) \in Nat => (Line!Newer <=> Unchanged)
  /\ Back = 1 /\ Len(Listed) \in Nat => (Line!Newer <=> Back' = 0 /\ Recalled(<<>>))
  /\ Back > Len(Listed) + 1 /\ Back \notin {0, 1} /\ Back \notin 2 .. Len(Listed) + 1 =>
       (Line!Newer <=> Back' = Back - 1 /\ \E n \in DOMAIN Listed : Recalled(Listed[n]))
  /\ Back \in 2 .. Len(Listed) + 1 /\ Back \notin {0, 1} /\ ~(Back > Len(Listed) + 1) =>
       (Line!Newer <=> Back' = Back - 1 /\ Recalled(Listed[Len(Listed) + 2 - Back]))
  /\ Line!Enter <=>
       /\ Text' = <<>> /\ cmd_pos' = 0 /\ Back' = 0
       /\ Listed' = IF Text = <<>> \/ (Listed # <<>> /\ Last(Listed) = Text)
                    THEN Listed ELSE Line!Latest(Append(Listed, Text))
<1>1. Line!Older <=>
        IF Listed = <<>> THEN Unchanged
        ELSE IF Back < Len(Listed)
             THEN Back' = Back + 1 /\ Recalled(Listed[Len(Listed) - Back])
             ELSE Back' \in {Back, Back + 1} /\ \E n \in DOMAIN Listed : Recalled(Listed[n])
  BY LineVariables DEF Line!Older, Back
<1>2. ASSUME Back = 0, Len(Listed) \in Nat PROVE Line!Newer <=> Unchanged
  <2>1. ~(Back > Len(Listed) + 1) /\ Back # 1 /\ Back \notin 2 .. Len(Listed) + 1
    BY <1>2
  <2> QED
    BY <1>2, <2>1, LineVariables DEF Line!Newer, Back
<1>3. ASSUME Back = 1, Len(Listed) \in Nat
      PROVE  Line!Newer <=> Back' = 0 /\ Recalled(<<>>)
  <2>1. ~(Back > Len(Listed) + 1) /\ Back # 0 /\ Back \notin 2 .. Len(Listed) + 1
    BY <1>3
  <2> QED
    BY <1>3, <2>1, LineVariables DEF Line!Newer, Back
<1>4. ASSUME Back > Len(Listed) + 1, Back \notin {0, 1}, Back \notin 2 .. Len(Listed) + 1
      PROVE  Line!Newer <=> Back' = Back - 1 /\ \E n \in DOMAIN Listed : Recalled(Listed[n])
  BY <1>4, LineVariables DEF Line!Newer, Back
<1>5. ASSUME Back \in 2 .. Len(Listed) + 1, Back \notin {0, 1}, ~(Back > Len(Listed) + 1)
      PROVE  Line!Newer <=> Back' = Back - 1 /\ Recalled(Listed[Len(Listed) + 2 - Back])
  BY <1>5, LineVariables DEF Line!Newer, Back
<1>6. Line!Enter <=>
        /\ Text' = <<>> /\ cmd_pos' = 0 /\ Back' = 0
        /\ Listed' = IF Text = <<>> \/ (Listed # <<>> /\ Last(Listed) = Text)
                     THEN Listed ELSE Line!Latest(Append(Listed, Text))
  BY DEF Line!Enter, Line!Last, Last, Text, Back
<1> QED
  BY <1>1, <1>2, <1>3, <1>4, <1>5, <1>6

\* ESC [ A.
LEMMA UpWorks ==
  ASSUME LineOK, HistoryOK, HistoryUp
  PROVE  Line!Work(Key("older"))
<1> DEFINE start == Start(history_count)
           size == history_count - start
<1>1. /\ history_count \in Nat /\ history_index \in Int
      /\ history_index >= -1 /\ history_index <= history_count - 1
      /\ start \in 0 .. history_count /\ Listed \in Seq(Seq(Symbols)) /\ Len(Listed) = size
      /\ HISTORY_SIZE \in Nat \ {0}
  BY ListedIs, Sizes DEF HistoryOK, ListedKnown
<1>2. history_count > 0 => size > 0
  BY <1>1 DEF Start
<1>3. DOMAIN Listed = 1 .. size
  BY <1>1
<1> HIDE DEF start
<1>4. CASE history_count = 0
  <2>1. Unchanged
    BY <1>4, KeepKeepsText DEF HistoryUp
  <2>2. Listed = <<>>
    BY <1>1, <1>4
  <2> QED
    BY <2>1, <2>2, WalkIs, WorkOfKeys
<1>5. CASE history_count # 0
  <2>1. /\ history_index' = CASE history_index = -1 -> history_count - 1
                              [] history_index > 0  -> history_index - 1
                              [] OTHER              -> history_index
        /\ LineFrom(Entry(history_index')) /\ KeepHistory
    BY <1>5 DEF HistoryUp
  <2> DEFINE i == history_index'
  <2>2. /\ history_index = -1 => i = history_count - 1
        /\ history_index > 0 => i = history_index - 1
        /\ history_index = 0 => i = 0
    BY <1>1, <2>1
  <2>3. i \in Nat /\ i \in 0 .. history_count - 1
    BY <1>1, <1>5, <2>2
  <2>4. Recalled(TextAt(history, i))
    BY <2>1, <2>3, LineFromRecalls
  <2>5. \E n \in DOMAIN Listed : Recalled(Listed[n])
    BY <2>3, <2>4, EntryIsListed
  <2>6. i >= start => /\ i - start + 1 \in DOMAIN Listed
                      /\ Recalled(Listed[i - start + 1])
    BY <2>3, <2>4, EntryIsListed DEF start
  <2>7. Listed # <<>>
    BY <1>1, <1>2, <1>5
  <2>8. history_count' = history_count
    BY <2>1 DEF KeepHistory
  <2>9. Back' = history_count - i
    <3> HIDE DEF i
    <3>1. i # -1
      BY <2>3
    <3>2. Back' = IF i = -1 THEN 0 ELSE history_count' - i
      BY DEF Back, i
    <3> QED
      BY <2>8, <3>1, <3>2
  <2> HIDE DEF i
  <2>10. Back = IF history_index = -1 THEN 0 ELSE history_count - history_index
    BY DEF Back
  <2>11. CASE Back < size
    <3>1. i = history_count - 1 - Back /\ i >= start
      <4>1. CASE history_index = -1
        BY <1>1, <1>5, <2>2, <2>10, <2>11, <4>1
      <4>2. CASE history_index > 0
        BY <1>1, <2>2, <2>10, <2>11, <4>2
      <4>3. CASE history_index = 0
        BY <1>1, <2>10, <2>11, <4>3
      <4> QED
        BY <1>1, <4>1, <4>2, <4>3
    <3>2. i - start + 1 = Len(Listed) - Back /\ Back' = Back + 1
      BY <1>1, <2>9, <2>10, <3>1
    <3>3. Back' = Back + 1 /\ Recalled(Listed[Len(Listed) - Back])
      BY <2>6, <3>1, <3>2
    <3> QED
      BY <1>1, <2>7, <2>11, <3>3, WalkIs, WorkOfKeys
  <2>12. CASE ~(Back < size)
    <3>1. Back' \in {Back, Back + 1}
      BY <1>1, <1>2, <1>5, <2>2, <2>9, <2>10, <2>12
    <3> QED
      BY <1>1, <2>5, <2>7, <2>12, <3>1, WalkIs, WorkOfKeys
  <2> QED
    BY <2>11, <2>12
<1> QED
  BY <1>4, <1>5

\* ESC [ B.
LEMMA DownWorks ==
  ASSUME LineOK, HistoryOK, HistoryDown
  PROVE  Line!Work(Key("newer"))
<1> DEFINE start == Start(history_count)
           size == history_count - start
<1>1. /\ history_count \in Nat /\ history_index \in Int
      /\ history_index >= -1 /\ history_index <= history_count - 1
      /\ start \in 0 .. history_count /\ Listed \in Seq(Seq(Symbols)) /\ Len(Listed) = size
      /\ HISTORY_SIZE \in Nat \ {0}
  BY ListedIs, Sizes DEF HistoryOK, ListedKnown
<1>2. DOMAIN Listed = 1 .. size
  BY <1>1
<1> HIDE DEF start
<1>3. Back = IF history_index = -1 THEN 0 ELSE history_count - history_index
  BY DEF Back
<1>4. CASE history_index = -1
  <2>1. Unchanged
    BY <1>4, KeepKeepsText DEF HistoryDown
  <2>2. Back = 0
    BY <1>3, <1>4
  <2> QED
    BY <1>1, <2>1, <2>2, WalkIs, WorkOfKeys
<1>5. CASE history_index # -1 /\ history_index < history_count - 1
  <2> DEFINE i == history_index + 1
  <2>1. history_index' = i /\ LineFrom(Entry(i)) /\ KeepHistory
    BY <1>5 DEF HistoryDown
  <2>2. i \in Nat /\ i \in 0 .. history_count - 1
    BY <1>1, <1>5
  <2>3. Recalled(TextAt(history, i))
    BY <2>1, <2>2, LineFromRecalls
  <2>4. \E n \in DOMAIN Listed : Recalled(Listed[n])
    BY <2>2, <2>3, EntryIsListed
  <2>5. i >= start => Recalled(Listed[i - start + 1])
    BY <2>2, <2>3, EntryIsListed DEF start
  <2>6. Back = history_count - i + 1 /\ Back' = history_count - i
    <3>1. Back' = IF history_index' = -1 THEN 0 ELSE history_count' - history_index'
      BY DEF Back
    <3>2. history_count' = history_count
      BY <2>1 DEF KeepHistory
    <3> QED
      BY <1>1, <1>3, <1>5, <2>1, <2>2, <3>1, <3>2
  <2> HIDE DEF i
  <2>7. Back' = Back - 1 /\ Back >= 2
    BY <1>1, <2>2, <2>6
  <2>8. CASE Back > Len(Listed) + 1
    <3>1. Back \notin {0, 1} /\ Back \notin 2 .. Len(Listed) + 1
      BY <1>1, <2>7, <2>8
    <3> QED
      BY <2>4, <2>7, <2>8, <3>1, WalkIs, WorkOfKeys
  <2>9. CASE ~(Back > Len(Listed) + 1)
    <3>1. Back \in 2 .. Len(Listed) + 1 /\ Back \notin {0, 1}
      BY <1>1, <2>2, <2>6, <2>7, <2>9
    <3>2. i >= start /\ i - start + 1 = Len(Listed) + 2 - Back
      BY <1>1, <2>2, <2>6, <2>9
    <3>3. Recalled(Listed[Len(Listed) + 2 - Back])
      BY <2>5, <3>2
    <3> QED
      BY <2>7, <2>9, <3>1, <3>3, WalkIs, WorkOfKeys
  <2> QED
    BY <2>8, <2>9
<1>6. CASE history_index # -1 /\ ~(history_index < history_count - 1)
  <2>1. /\ history_index' = -1 /\ KeepHistory
        /\ SetLine([cmd_buffer EXCEPT ![0] = NUL], 0, 0)
    BY <1>6 DEF HistoryDown
  <2>2. Back = 1
    BY <1>1, <1>3, <1>6
  <2>3. Back' = 0
    BY <2>1 DEF Back
  <2>4. Text' = <<>> /\ cmd_pos' = 0
    <3>1. cmd_len' = 0 /\ cmd_pos' = 0
      BY <2>1 DEF SetLine
    <3>2. Text' = Chars(cmd_buffer', 0)
      BY <3>1 DEF Text
    <3> QED
      BY <3>1, <3>2 DEF Chars
  <2>5. Listed' = Listed
    BY <2>1 DEF KeepHistory, Listed, Entry
  <2>6. Recalled(<<>>)
    BY <2>4, <2>5 DEF Recalled
  <2> QED
    BY <1>1, <2>2, <2>3, <2>6, WalkIs, WorkOfKeys
<1> QED
  BY <1>4, <1>5, <1>6
-----------------------------------------------------------------------------
\* No character of the line is a terminator.
Solid == \A n \in Cell : n < cmd_len => cmd_buffer[n] # NUL

\* Enter's line, as the string that is handed over.
LEMMA HandedOver ==
  ASSUME LineOK, Solid
  PROVE  LET cmd == [cmd_buffer EXCEPT ![cmd_len] = NUL]
         IN  cmd \in [Cell -> Symbols] /\ Ends(cmd) /\ StrLen(cmd) = cmd_len /\ Is(cmd) = Text
<1> DEFINE cmd == [cmd_buffer EXCEPT ![cmd_len] = NUL]
<1>1. /\ cmd_len \in Cell /\ cmd_len \in Nat /\ MAX_CMD_LEN \in Nat
      /\ \A n \in Cell : n \in Nat
  BY Sizes DEF LineOK, Cell
<1>2. /\ cmd \in [Cell -> Symbols] /\ cmd[cmd_len] = NUL
      /\ \A n \in Cell : n < cmd_len => cmd[n] = cmd_buffer[n]
  BY <1>1 DEF LineOK, Symbols
<1> HIDE DEF cmd
<1>3. \A n \in Cell : n < cmd_len => cmd[n] # NUL
  BY <1>2 DEF Solid
<1>4. StrLen(cmd) = cmd_len
  BY <1>1, <1>2, <1>3, LengthIs
<1>5. Is(cmd) = Text
  <2>1. \A n \in 1 .. cmd_len : n - 1 \in Cell /\ n - 1 < cmd_len
    BY <1>1 DEF Cell
  <2>2. \A n \in 1 .. cmd_len : cmd[n - 1] = cmd_buffer[n - 1]
    BY <1>2, <2>1
  <2> QED
    BY <1>4, <2>2 DEF Is, Chars, Text
<1>6. Ends(cmd)
  BY <1>1, <1>2 DEF Ends
<1> QED
  BY <1>2, <1>4, <1>5, <1>6 DEF cmd

\* strcmp with the last entry finds what the list of commands ends in.
LEMMA RepeatsLast ==
  ASSUME HistoryOK, NEW cmd \in [Cell -> Symbols], Ends(cmd)
  PROVE  history_count > 0 /\ StrEq(Entry(history_count - 1), cmd)
           <=> Listed # <<>> /\ Last(Listed) = Is(cmd)
<1> DEFINE start == Start(history_count)
           size == history_count - start
<1>1. /\ history_count \in Nat /\ start \in 0 .. history_count /\ HISTORY_SIZE \in Nat \ {0}
      /\ Listed \in Seq(Seq(Symbols)) /\ Len(Listed) = size
  BY ListedIs, Sizes DEF HistoryOK, ListedKnown
<1>2. history_count > 0 => size > 0
  BY <1>1 DEF Start
<1> HIDE DEF start
<1>3. Listed # <<>> <=> history_count > 0
  BY <1>1, <1>2
<1>4. ASSUME history_count > 0
      PROVE  StrEq(Entry(history_count - 1), cmd) <=> Last(Listed) = Is(cmd)
  <2> DEFINE i == history_count - 1
  <2>1. i \in Nat /\ i \in 0 .. history_count - 1 /\ i >= start /\ i - start + 1 = Len(Listed)
    BY <1>1, <1>2, <1>4
  <2> HIDE DEF i
  <2>2. TextAt(history, i) = Listed[Len(Listed)]
    BY <2>1, EntryIsListed DEF start
  <2>3. StrEq(Entry(i), cmd) <=> TextAt(history, i) = Is(cmd)
    BY <2>1, EntryEnds, EqualText DEF TextAt, Entry
  <2> QED
    BY <2>2, <2>3 DEF Last, i
<1> QED
  BY <1>3, <1>4

LEMMA ListedNext ==
  HistoryOK' => ListedKnown'
<1>1. HistoryOK => ListedKnown
  BY ListedIs
<1> QED
  BY <1>1, PTL

Adds(cmd) ==
  /\ history' = [history EXCEPT ![history_count % HISTORY_SIZE] =
                   StrCpy(history[history_count % HISTORY_SIZE], cmd)]
  /\ history_count' = history_count + 1

\* A command that is added comes last, and the one that it overwrites is listed no more.
LEMMA AddedIsListed ==
  ASSUME HistoryOK, HistoryOK', NEW cmd \in [Cell -> Symbols], Ends(cmd), Adds(cmd)
  PROVE  Listed' = Line!Latest(Append(Listed, Is(cmd)))
<1> DEFINE start == Start(history_count)
           size == history_count - start
           more == history_count + 1
           next == Start(more)
           r == history_count % HISTORY_SIZE
           text == Is(cmd)
           all == Append(Listed, text)
<1>1. /\ history_count \in Nat /\ start \in 0 .. history_count /\ HISTORY_SIZE \in Nat \ {0}
      /\ Listed \in Seq(Seq(Symbols)) /\ Len(Listed) = size
      /\ \A n \in 1 .. size : Listed[n] = TextAt(history, start + n - 1)
      /\ text \in Seq(Symbols)
  BY ListedIs, Sizes, TextOf DEF HistoryOK, ListedKnown
<1>2. /\ next \in 0 .. more /\ more - next <= HISTORY_SIZE
      /\ Listed' \in Seq(Seq(Symbols)) /\ Len(Listed') = more - next
      /\ \A n \in 1 .. more - next : Listed'[n] = TextAt(history', next + n - 1)
  <2>1. ListedKnown'
    BY ListedNext
  <2>2. /\ Start(history_count') \in 0 .. history_count'
        /\ history_count' - Start(history_count') <= HISTORY_SIZE
        /\ Listed' \in Seq(Seq(Symbols))
        /\ Len(Listed') = history_count' - Start(history_count')
        /\ \A n \in 1 .. history_count' - Start(history_count') :
             Listed'[n] = TextAt(history', Start(history_count') + n - 1)
    BY <2>1 DEF ListedKnown
  <2> DEFINE count == history_count'
  <2>3. count = more /\ more \in Nat
    BY <1>1 DEF Adds
  <2>4. Start(count) = next
    BY <2>3
  <2> HIDE DEF more, next
  <2>5. /\ next \in 0 .. count /\ count - next <= HISTORY_SIZE
        /\ Listed' \in Seq(Seq(Symbols)) /\ Len(Listed') = count - next
        /\ \A n \in 1 .. count - next : Listed'[n] = TextAt(history', next + n - 1)
    BY <2>2, <2>4, Zenon
  <2> HIDE DEF count
  <2> QED
    BY <2>3, <2>5
<1>3. next = IF size < HISTORY_SIZE THEN start ELSE start + 1
  BY <1>1 DEF Start
<1>4. size = HISTORY_SIZE => start + 1 > 0
  BY <1>1
<1>5. size <= HISTORY_SIZE
  BY ListedIs DEF ListedKnown
<1>6. /\ all \in Seq(Seq(Symbols)) /\ Len(all) = size + 1
      /\ \A n \in 1 .. size : all[n] = Listed[n]
      /\ all[size + 1] = text
  BY <1>1, AppendProperties
<1>7. r \in 0 .. HISTORY_SIZE - 1
  BY <1>1
<1>8. TextAt(history', history_count) = text
  <2>1. history'[r] = StrCpy(history[r], cmd)
    <3>1. r \in DOMAIN history /\ history' = [history EXCEPT ![r] = StrCpy(history[r], cmd)]
      BY <1>7 DEF Adds, HistoryOK
    <3> HIDE DEF r
    <3> QED
      BY <3>1
  <2>2. Is(StrCpy(history[r], cmd)) = text
    BY <1>7, CopyText DEF HistoryOK
  <2> QED
    BY <2>1, <2>2 DEF TextAt
<1>9. ASSUME NEW i \in Nat, i < history_count, history_count < i + HISTORY_SIZE
      PROVE  TextAt(history', i) = TextAt(history, i)
  <2>1. i % HISTORY_SIZE # r
    BY <1>1, <1>9, OneRemainder
  <2>2. i % HISTORY_SIZE \in 0 .. HISTORY_SIZE - 1
    BY <1>1
  <2>3. history'[i % HISTORY_SIZE] = history[i % HISTORY_SIZE]
    BY <1>7, <2>1, <2>2 DEF Adds, HistoryOK
  <2> QED
    BY <2>3 DEF TextAt
<1> DEFINE d == next - start
<1>10. d \in {0, 1} /\ (d = 0 <=> size < HISTORY_SIZE)
  BY <1>1, <1>3
<1> HIDE DEF start, next, all, text, r
<1>11. ASSUME NEW n \in 1 .. size + 1 - d PROVE Listed'[n] = all[n + d]
  <2> DEFINE i == next + n - 1
  <2>1. /\ n \in 1 .. more - next /\ i \in Nat /\ i <= history_count
        /\ i = start + (n + d) - 1
    BY <1>1, <1>2, <1>10
  <2>2. Listed'[n] = TextAt(history', i)
    BY <1>2, <2>1
  <2> HIDE DEF i, d
  <2>3. CASE i = history_count
    <3>1. n + d = size + 1
      BY <1>1, <1>10, <2>1, <2>3
    <3> QED
      BY <1>6, <1>8, <2>2, <2>3, <3>1
  <2>4. CASE i < history_count
    <3>1. n + d \in 1 .. size
      BY <1>1, <1>10, <2>1, <2>4
    <3>2. history_count < i + HISTORY_SIZE
      BY <1>1, <1>5, <1>10, <2>1, <2>4
    <3>3. TextAt(history', i) = TextAt(history, i)
      BY <1>9, <2>1, <2>4, <3>2
    <3>4. all[n + d] = TextAt(history, start + (n + d) - 1)
      BY <1>1, <1>6, <3>1
    <3> QED
      BY <2>1, <2>2, <3>3, <3>4
  <2> QED
    BY <1>1, <2>1, <2>3, <2>4
<1>12. Len(Listed') = size + 1 - d
  BY <1>1, <1>2
<1> HIDE DEF d
<1>13. /\ size + 1 <= HISTORY_SIZE => Line!Latest(all) = all
       /\ ~(size + 1 <= HISTORY_SIZE) =>
            Line!Latest(all) = SubSeq(all, size + 1 - HISTORY_SIZE + 1, size + 1)
  <2>1. /\ Len(all) <= HISTORY_SIZE => Line!Latest(all) = all
        /\ ~(Len(all) <= HISTORY_SIZE) =>
             Line!Latest(all) = SubSeq(all, Len(all) - HISTORY_SIZE + 1, Len(all))
    BY DEF Line!Latest
  <2>2. Len(all) = size + 1 /\ size \in Nat /\ HISTORY_SIZE \in Nat
    BY <1>1, <1>6
  <2> HIDE DEF size
  <2> QED
    BY <2>1, <2>2
<1>14. CASE d = 0
  <2>1. Line!Latest(all) = all
    BY <1>1, <1>10, <1>13, <1>14
  <2>2. \A n \in 1 .. size + 1 : Listed'[n] = all[n]
    BY <1>1, <1>11, <1>14
  <2>3. Len(Listed') = size + 1
    BY <1>1, <1>12, <1>14
  <2>4. Listed' = all
    BY <1>2, <1>6, <2>2, <2>3, SeqEqual
  <2> QED
    BY <2>1, <2>4 DEF all, text
<1>15. CASE d = 1
  <2> DEFINE last == SubSeq(all, 2, size + 1)
  <2>1. Line!Latest(all) = last
    <3>1. ~(size + 1 <= HISTORY_SIZE) /\ size + 1 - HISTORY_SIZE + 1 = 2
      BY <1>1, <1>5, <1>10, <1>15
    <3> QED
      BY <1>13, <3>1
  <2>2. last \in Seq(Seq(Symbols)) /\ Len(last) = size /\ \A n \in 1 .. size : last[n] = all[n + 1]
    <3>1. \A n \in 2 .. size + 1 : all[n] \in Seq(Symbols)
      BY <1>1, <1>6
    <3>2. 2 \in Int /\ size + 1 \in Int /\ size >= 1 /\ size \in Nat
      BY <1>1, <1>10, <1>15
    <3> DEFINE m == size + 1
    <3> HIDE DEF size, m
    <3>3. last = SubSeq(all, 2, m) /\ m \in Int /\ \A n \in 2 .. m : all[n] \in Seq(Symbols)
      BY <3>1, <3>2 DEF m
    <3> HIDE DEF last
    <3>4. /\ last \in Seq(Seq(Symbols)) /\ Len(last) = IF 2 <= m THEN m - 2 + 1 ELSE 0
          /\ \A n \in 1 .. m - 2 + 1 : last[n] = all[2 + n - 1]
      BY <3>3, SubSeqProperties
    <3>5. 2 <= m /\ m - 2 + 1 = size /\ \A n \in 1 .. size : 2 + n - 1 = n + 1
      BY <3>2 DEF m
    <3> QED
      BY <3>4, <3>5
  <2> HIDE DEF last
  <2>3. \A n \in 1 .. size : Listed'[n] = last[n]
    BY <1>1, <1>11, <1>15, <2>2
  <2>4. Len(Listed') = size
    BY <1>1, <1>12, <1>15
  <2>5. Listed' = last
    BY <1>2, <2>2, <2>3, <2>4, SeqEqual
  <2> QED
    BY <2>1, <2>5 DEF all, text
<1> QED
  BY <1>10, <1>14, <1>15

\* Enter.
LEMMA EnterWorks ==
  ASSUME LineOK, HistoryOK, HistoryOK', Solid, Enter
  PROVE  Line!Work(Key("enter"))
<1>1. cmd_len' = 0 /\ cmd_pos' = 0 /\ history_index' = -1
  BY DEF Enter, Prompt
<1>2. Text' = <<>> /\ Back' = 0
  <2>1. Text' = Chars(cmd_buffer', 0)
    BY <1>1 DEF Text
  <2> QED
    BY <1>1, <2>1 DEF Chars, Back
<1>3. /\ cmd_len \in Nat /\ Text \in Seq(Symbols) /\ Len(Text) = cmd_len
  BY TextOfCells, Sizes DEF LineOK, Cell, Text
<1>4. CASE cmd_len > 0
  <2> DEFINE cmd == [cmd_buffer EXCEPT ![cmd_len] = NUL]
  <2>1. cmd_buffer' = cmd /\ shell_add_history(cmd)
    BY <1>4 DEF Enter
  <2>2. cmd \in [Cell -> Symbols] /\ Ends(cmd) /\ Is(cmd) = Text
    BY HandedOver
  <2> HIDE DEF cmd
  <2>3. Text # <<>>
    BY <1>3, <1>4
  <2>4. CASE history_count > 0 /\ StrEq(Entry(history_count - 1), cmd)
    <3>1. KeepHistory
      BY <2>1, <2>4 DEF shell_add_history
    <3>2. Listed' = Listed
      BY <3>1 DEF KeepHistory, Listed, Entry
    <3>3. Listed # <<>> /\ Last(Listed) = Text
      BY <2>2, <2>4, RepeatsLast
    <3> QED
      BY <1>1, <1>2, <3>2, <3>3, WalkIs, WorkOfKeys
  <2>5. CASE ~(history_count > 0 /\ StrEq(Entry(history_count - 1), cmd))
    <3>1. Adds(cmd)
      BY <2>1, <2>5 DEF shell_add_history, Adds
    <3>2. Listed' = Line!Latest(Append(Listed, Text))
      BY <2>2, <3>1, AddedIsListed
    <3>3. ~(Listed # <<>> /\ Last(Listed) = Text)
      BY <2>2, <2>5, RepeatsLast
    <3> QED
      BY <1>1, <1>2, <2>3, <3>2, <3>3, WalkIs, WorkOfKeys
  <2> QED
    BY <2>4, <2>5
<1>5. CASE ~(cmd_len > 0)
  <2>1. KeepHistory
    BY <1>5 DEF Enter
  <2>2. Listed' = Listed
    BY <2>1 DEF KeepHistory, Listed, Entry
  <2>3. Text = <<>>
    BY <1>3, <1>5
  <2> QED
    BY <1>1, <1>2, <2>2, <2>3, WalkIs, WorkOfKeys
<1> QED
  BY <1>4, <1>5
-----------------------------------------------------------------------------
(* The decoder: what the characters of a whole key do together.            *)

\* What the characters of the decoder do.
LEMMA EscapeWorks ==
  ASSUME LineOK, HistoryOK, NEW c, NEW buf, shell_handle_escape(c, buf)
  PROVE  /\ c = "A" => Line!Work(Key("older"))
         /\ c = "B" => Line!Work(Key("newer"))
         /\ c = "C" => Line!Work(Key("right"))
         /\ c = "D" => Line!Work(Key("left"))
         /\ c = "H" => Line!Work(Key("home"))
         /\ c = "F" => Line!Work(Key("end"))
         /\ c = "~" /\ Len(buf) >= 3 /\ buf[3] = "3" => Line!Work(Key("delete"))
         /\ c = "~" /\ ~(Len(buf) >= 3 /\ buf[3] = "3") => Unchanged
<1>1. CASE c = "A"
  BY <1>1, UpWorks DEF shell_handle_escape
<1>2. CASE c = "B"
  BY <1>2, DownWorks DEF shell_handle_escape
<1>3. CASE c = "C"
  BY <1>3, LineKeysWork DEF shell_handle_escape
<1>4. CASE c = "D"
  BY <1>4, LineKeysWork DEF shell_handle_escape
<1>5. CASE c = "H"
  BY <1>5, LineKeysWork DEF shell_handle_escape
<1>6. CASE c = "F"
  BY <1>6, LineKeysWork DEF shell_handle_escape
<1>7. CASE c = "~"
  BY <1>7, LineKeysWork, KeepKeepsText DEF shell_handle_escape
<1> QED
  BY <1>1, <1>2, <1>3, <1>4, <1>5, <1>6, <1>7

Finals == {"A", "B", "C", "D", "H", "F", "~"}

\* A character within a sequence does the work of a key, or nothing.
LEMMA InEscapeWorks ==
  ASSUME LineOK, HistoryOK, NEW c, InEscape(c)
  PROVE  Unchanged \/ \E k \in Line!Keys : Line!Work(k)
<1>1. CASE Keep /\ UNCHANGED histVars
  BY <1>1, KeepKeepsText
<1>2. CASE c \in Finals /\ shell_handle_escape(c, Append(esc_buf, c))
  BY <1>2, EscapeWorks, TheKeys DEF Finals
<1> QED
  BY <1>1, <1>2 DEF InEscape, Finals

\* The characters the decoder tells apart are different.
LEMMA PlainCharacters ==
  /\ "\n" \notin Printable /\ "BS" \notin Printable /\ ESC \notin Printable
  /\ ESC # "\n" /\ ESC # "BS"
BY LineEditorAssumption DEF Printable, ESC

\* A character outside a sequence does the work of its key.
LEMMA PlainWorks ==
  ASSUME LineOK, HistoryOK, HistoryOK', Solid, NEW c, Plain(c)
  PROVE  /\ c = "\n" => Line!Work(Key("enter"))
         /\ c = "BS" => Line!Work(Key("backspace"))
         /\ c \in Printable => Line!Work(Typed(c))
         /\ c \notin Printable \cup {"\n", "BS"} => Unchanged
<1>1. CASE c = "\n"
  BY <1>1, PlainCharacters, EnterWorks DEF Plain
<1>2. CASE c = "BS"
  BY <1>2, PlainCharacters, LineKeysWork DEF Plain
<1>3. CASE c \in Printable
  <2>1. shell_insert_char(c) /\ UNCHANGED histVars
    BY <1>3, PlainCharacters DEF Plain
  <2> QED
    BY <1>3, <2>1, PlainCharacters, LineKeysWork
<1>4. CASE c \notin Printable \cup {"\n", "BS"}
  <2>1. Keep /\ UNCHANGED histVars
    BY <1>4 DEF Plain
  <2> QED
    BY <1>4, <2>1, KeepKeepsText
<1> QED
  BY <1>1, <1>2, <1>3, <1>4

\* So does any character at all: what remains of a key cut short is some keys' work.
LEMMA CharWorks ==
  ASSUME LineOK, HistoryOK, HistoryOK', Solid, NEW c, shell_feed_char(c)
  PROVE  Unchanged \/ \E k \in Line!Keys : Line!Work(k)
<1>1. CASE InEscape(c)
  BY <1>1, InEscapeWorks
<1>2. CASE Plain(c)
  BY <1>2, PlainWorks, TheKeys
<1> QED
  BY <1>1, <1>2 DEF shell_feed_char
-----------------------------------------------------------------------------
\* The cursor keys' last characters.
Final(k, c) ==
  \/ c = "A" /\ k = Key("older")
  \/ c = "B" /\ k = Key("newer")
  \/ c = "C" /\ k = Key("right")
  \/ c = "D" /\ k = Key("left")
  \/ c = "H" /\ k = Key("home")
  \/ c = "F" /\ k = Key("end")

\* The keys and their characters, the cursor keys together.
LEMMA KeysPut ==
  ASSUME NEW k, NEW chars
  PROVE  Puts(k, chars) <=>
           \/ \E c \in Printable : k = Typed(c) /\ chars = <<c>>
           \/ k = Key("enter") /\ chars = <<"\n">>
           \/ k = Key("backspace") /\ chars = <<"BS">>
           \/ \E c : Final(k, c) /\ chars = <<ESC, "[", c>>
           \/ k = Key("delete") /\ chars = <<ESC, "[", "3", "~">>
BY Zenon DEF Puts, Typed, Key, Final

LEMMA KeysAreKnown ==
  ASSUME NEW k \in DOMAIN KeyChars
  PROVE  k \in Line!Keys
<1>1. Puts(k, KeyChars[k])
  BY KeyboardAssumption
<1>2. \/ \E c \in Printable : k = Typed(c)
      \/ \E o \in {"enter", "backspace", "delete", "left", "right", "home", "end",
                   "older", "newer"} : k = Key(o)
  BY <1>1, KeysPut DEF Final
<1> QED
  BY <1>2, TheKeys

\* The first character of a text, and the rest.
LEMMA HeadOfOne ==
  ASSUME NEW t, NEW a, t = <<a>>
  PROVE  Head(t) = a /\ Tail(t) = <<>>
OBVIOUS

LEMMA HeadOfTwo ==
  ASSUME NEW t, NEW a, NEW b, t = <<a, b>>
  PROVE  Head(t) = a /\ Tail(t) = <<b>> /\ <<b>> # <<>>
<1>1. Head(t) = a /\ <<b>> # <<>>
  OBVIOUS
<1>2. Tail(t) = <<b>>
  OBVIOUS
<1> QED
  BY <1>1, <1>2

LEMMA HeadOfThree ==
  ASSUME NEW t, NEW a, NEW b, NEW c, t = <<a, b, c>>
  PROVE  Head(t) = a /\ Tail(t) = <<b, c>> /\ <<b, c>> # <<>>
<1>1. Head(t) = a /\ <<b, c>> # <<>>
  OBVIOUS
<1>2. Tail(t) = <<b, c>>
  OBVIOUS
<1> QED
  BY <1>1, <1>2

LEMMA HeadOfFour ==
  ASSUME NEW t, NEW a, NEW b, NEW c, NEW d, t = <<a, b, c, d>>
  PROVE  Head(t) = a /\ Tail(t) = <<b, c, d>> /\ <<b, c, d>> # <<>>
<1>1. Head(t) = a /\ <<b, c, d>> # <<>>
  OBVIOUS
<1>2. Tail(t) = <<b, c, d>>
  OBVIOUS
<1> QED
  BY <1>1, <1>2

\* How far the characters of a whole key have come.
Under(k) ==
  \/ esc_state = "none" /\ Puts(k, todo)
  \/ \E c : Final(k, c) /\ \/ esc_state = "start" /\ todo = <<"[", c>>
                           \/ esc_state = "bracket" /\ todo = <<c>>
  \/ k = Key("delete") /\ esc_state = "start" /\ todo = <<"[", "3", "~">>
  \/ k = Key("delete") /\ esc_state = "bracket" /\ esc_pos = 2 /\ todo = <<"3", "~">>
  \/ /\ k = Key("delete") /\ esc_state = "bracket" /\ todo = <<"~">>
     /\ esc_pos = 3 /\ esc_buf[3] = "3"

\* The characters in the ring are the rest of the key that was asked for.
KeyInv ==
  /\ todo = <<>> <=> asked = Line!Idle
  /\ \/ asked \in {Line!Idle, Line!Noise}
     \/ asked \in DOMAIN KeyChars /\ Under(asked)

\* The last character of a key does its work.
Does(k) == todo' = <<>> /\ Line!Work(k)

\* Any other does nothing to the line.
GoesOn(k) == todo' # <<>> /\ Unchanged /\ Under(k)'

\* The first character of a whole key: the only one, or ESC.
LEMMA PlainKey ==
  ASSUME LineOK, HistoryOK, HistoryOK', Solid, NEW k, Puts(k, todo), esc_state = "none", Feed
  PROVE  Does(k) \/ GoesOn(k)
<1>1. Plain(Head(todo)) /\ todo' = Tail(todo)
  BY DEF Feed, shell_feed_char
<1>2. ASSUME NEW c \in Printable, k = Typed(c), todo = <<c>> PROVE Does(k)
  <2>1. Head(todo) = c /\ Tail(todo) = <<>>
    BY <1>2, HeadOfOne
  <2> QED
    BY <1>1, <1>2, <2>1, PlainWorks DEF Does
<1>3. ASSUME k = Key("enter"), todo = <<"\n">> PROVE Does(k)
  <2>1. Head(todo) = "\n" /\ Tail(todo) = <<>>
    BY <1>3, HeadOfOne, Zenon
  <2> QED
    BY <1>1, <1>3, <2>1, PlainWorks DEF Does
<1>7. ASSUME k = Key("backspace"), todo = <<"BS">> PROVE Does(k)
  <2>1. Head(todo) = "BS" /\ Tail(todo) = <<>>
    BY <1>7, HeadOfOne, Zenon
  <2> QED
    BY <1>1, <1>7, <2>1, PlainWorks DEF Does
<1>4. ASSUME Head(todo) = ESC
      PROVE  esc_state' = "start" /\ Unchanged
  <2>1. esc_state' = "start"
    BY <1>1, <1>4 DEF Plain
  <2>2. ESC \notin Printable \cup {"\n", "BS"}
    BY PlainCharacters
  <2> QED
    BY <1>1, <1>4, <2>1, <2>2, PlainWorks
<1>5. ASSUME NEW c, Final(k, c), todo = <<ESC, "[", c>> PROVE GoesOn(k)
  <2>1. Head(todo) = ESC /\ Tail(todo) = <<"[", c>> /\ <<"[", c>> # <<>>
    BY <1>5, HeadOfThree
  <2>2. todo' = <<"[", c>> /\ todo' # <<>> /\ esc_state' = "start" /\ Unchanged
    BY <1>1, <1>4, <2>1, Zenon
  <2>3. Under(k)'
    BY <1>5, <2>2, Zenon DEF Under, Final
  <2> QED
    BY <2>2, <2>3 DEF GoesOn
<1>6. ASSUME k = Key("delete"), todo = <<ESC, "[", "3", "~">> PROVE GoesOn(k)
  <2>1. /\ Head(todo) = ESC /\ Tail(todo) = <<"[", "3", "~">> /\ <<"[", "3", "~">> # <<>>
    BY <1>6, HeadOfFour
  <2>2. todo' = <<"[", "3", "~">> /\ todo' # <<>> /\ esc_state' = "start" /\ Unchanged
    BY <1>1, <1>4, <2>1, Zenon
  <2>3. Under(k)'
    BY <1>6, <2>2, Zenon DEF Under
  <2> QED
    BY <2>2, <2>3 DEF GoesOn
<1>8. \/ \E c \in Printable : k = Typed(c) /\ todo = <<c>>
      \/ k = Key("enter") /\ todo = <<"\n">>
      \/ k = Key("backspace") /\ todo = <<"BS">>
      \/ \E c : Final(k, c) /\ todo = <<ESC, "[", c>>
      \/ k = Key("delete") /\ todo = <<ESC, "[", "3", "~">>
  BY KeysPut
<1> QED
  BY <1>2, <1>3, <1>5, <1>6, <1>7, <1>8, Zenon

\* The second character of a cursor key.
LEMMA BracketKey ==
  ASSUME Feed, esc_state = "start", Head(todo) = "["
  PROVE  esc_state' = "bracket" /\ esc_buf' = Append(esc_buf, "[") /\ Unchanged
<1>1. InEscape("[")
  BY DEF Feed, shell_feed_char
<1>2. esc_state' = "bracket" /\ esc_buf' = Append(esc_buf, "[") /\ Keep /\ UNCHANGED histVars
  BY <1>1 DEF InEscape
<1> QED
  BY <1>2, KeepKeepsText

\* The last character of a cursor key.
LEMMA FinalKey ==
  ASSUME LineOK, HistoryOK, Feed, NEW k, NEW c, esc_state = "bracket", Head(todo) = c,
         \/ Final(k, c)
         \/ k = Key("delete") /\ c = "~" /\ Len(Append(esc_buf, c)) >= 3
            /\ Append(esc_buf, c)[3] = "3"
  PROVE  Line!Work(k)
<1>1. InEscape(c)
  BY DEF Feed, shell_feed_char
<1>2. c \in Finals
  BY DEF Final, Finals
<1>3. shell_handle_escape(c, Append(esc_buf, c))
  BY <1>1, <1>2 DEF InEscape, Finals
<1> QED
  BY <1>3, EscapeWorks DEF Final

\* Every character of a cursor key behind its ESC.
LEMMA SequenceKey ==
  ASSUME LineOK, HistoryOK, DecoderOK, Feed, NEW k, Under(k), esc_state # "none",
         todo \in Seq(Char)
  PROVE  Does(k) \/ GoesOn(k)
<1>1. todo' = Tail(todo)
  BY DEF Feed
<1>2. ASSUME NEW c, Final(k, c), esc_state = "start", todo = <<"[", c>> PROVE GoesOn(k)
  <2>1. Head(todo) = "[" /\ Tail(todo) = <<c>> /\ <<c>> # <<>>
    BY <1>2, HeadOfTwo, Zenon
  <2>2. todo' = <<c>> /\ todo' # <<>> /\ esc_state' = "bracket" /\ Unchanged
    BY <1>1, <1>2, <2>1, BracketKey, Zenon
  <2>3. Under(k)'
    BY <1>2, <2>2, Zenon DEF Under, Final
  <2> QED
    BY <2>2, <2>3 DEF GoesOn
<1>3. ASSUME NEW c, Final(k, c), esc_state = "bracket", todo = <<c>> PROVE Does(k)
  <2>1. Head(todo) = c /\ Tail(todo) = <<>>
    BY <1>3, HeadOfOne, Zenon
  <2> QED
    BY <1>1, <1>3, <2>1, FinalKey DEF Does
<1>4. ASSUME k = Key("delete"), esc_state = "start", todo = <<"[", "3", "~">> PROVE GoesOn(k)
  <2>1. Head(todo) = "[" /\ Tail(todo) = <<"3", "~">> /\ <<"3", "~">> # <<>>
    BY <1>4, HeadOfThree, SMTT(30)
  <2>2. /\ todo' = <<"3", "~">> /\ todo' # <<>> /\ esc_state' = "bracket" /\ Unchanged
        /\ esc_buf' = Append(esc_buf, "[")
    BY <1>1, <1>4, <2>1, BracketKey, Zenon
  <2>3. esc_pos' = 2
    <3>1. esc_buf \in Seq(Char) /\ Len(esc_buf) = 1
      BY <1>4 DEF DecoderOK, esc_pos
    <3>2. "[" \in Char
      BY <1>4, <2>1
    <3>3. Len(Append(esc_buf, "[")) = Len(esc_buf) + 1
      BY <3>1, <3>2, AppendProperties
    <3> QED
      BY <2>2, <3>1, <3>3 DEF esc_pos
  <2>4. Under(k)'
    BY <1>4, <2>2, <2>3, Zenon DEF Under
  <2> QED
    BY <2>2, <2>4 DEF GoesOn
<1>5. ASSUME k = Key("delete"), esc_state = "bracket", esc_pos = 2, todo = <<"3", "~">>
      PROVE  GoesOn(k)
  <2>1. Head(todo) = "3" /\ Tail(todo) = <<"~">> /\ <<"~">> # <<>>
    BY <1>5, HeadOfTwo, Zenon
  <2> DEFINE buf == Append(esc_buf, "3")
  <2>2. Len(buf) = 3 /\ buf[3] = "3"
    <3>1. "3" \in Char
      BY <1>5, <2>1
    <3>2. esc_buf \in Seq(Char) /\ Len(esc_buf) = 2
      BY <1>5 DEF DecoderOK, esc_pos
    <3>3. Len(buf) = Len(esc_buf) + 1
      BY <3>1, <3>2, AppendProperties
    <3>4. buf[Len(esc_buf) + 1] = "3"
      BY <3>1, <3>2, AppendProperties
    <3> QED
      BY <3>2, <3>3, <3>4
  <2>3. InEscape("3")
    BY <1>5, <2>1 DEF Feed, shell_feed_char
  <2>4. esc_state' = "bracket" /\ esc_buf' = buf /\ Keep /\ UNCHANGED histVars
    BY <1>5, <2>2, <2>3 DEF InEscape, ESC_BUF
  <2>5. todo' = <<"~">> /\ todo' # <<>> /\ Unchanged
    BY <1>1, <2>1, <2>4, KeepKeepsText
  <2>6. esc_pos' = 3 /\ esc_buf'[3] = "3"
    BY <2>2, <2>4 DEF esc_pos
  <2>7. Under(k)'
    BY <1>5, <2>4, <2>5, <2>6, Zenon DEF Under
  <2> QED
    BY <2>5, <2>7 DEF GoesOn
<1>6. ASSUME k = Key("delete"), esc_state = "bracket", todo = <<"~">>, esc_pos = 3,
             esc_buf[3] = "3"
      PROVE  Does(k)
  <2>1. Head(todo) = "~" /\ Tail(todo) = <<>>
    BY <1>6, HeadOfOne, Zenon
  <2>2. Len(Append(esc_buf, "~")) >= 3 /\ Append(esc_buf, "~")[3] = "3"
    <3>1. "~" \in Char
      BY <1>6, <2>1
    <3>2. esc_buf \in Seq(Char) /\ Len(esc_buf) = 3
      BY <1>6 DEF DecoderOK, esc_pos
    <3>3. Len(Append(esc_buf, "~")) = Len(esc_buf) + 1
      BY <3>1, <3>2, AppendProperties
    <3>4. Append(esc_buf, "~")[3] = esc_buf[3]
      BY <3>1, <3>2, AppendProperties
    <3> QED
      BY <1>6, <3>2, <3>3, <3>4
  <2> QED
    BY <1>1, <1>6, <2>1, <2>2, FinalKey DEF Does
<1> QED
  BY <1>2, <1>3, <1>4, <1>5, <1>6 DEF Under
-----------------------------------------------------------------------------
(* The line as a string: no terminator within it.                          *)

\* The line stays free of terminators.
SolidUpTo(buf, len) == \A n \in Cell : n < len => buf[n] # NUL

\* None comes into it with an insertion, a deletion or a copy.
LEMMA InsertedSolid ==
  ASSUME LineOK, Solid, NEW c \in Printable
  PROVE  SolidUpTo(Inserted(c), cmd_len + 1)
<1> SUFFICES ASSUME NEW n \in Cell, n < cmd_len + 1
             PROVE  (CASE n = cmd_pos -> c
                       [] n \in cmd_pos + 1 .. cmd_len -> cmd_buffer[n - 1]
                       [] OTHER -> cmd_buffer[n]) # NUL
  BY DEF SolidUpTo, Inserted
<1>1. /\ cmd_pos \in Nat /\ cmd_len \in Nat /\ n \in Nat /\ MAX_CMD_LEN \in Nat
      /\ cmd_pos <= cmd_len
  BY Sizes DEF LineOK, Cell
<1>2. c # NUL
  BY LineEditorAssumption DEF Printable, NUL
<1>3. n \in cmd_pos + 1 .. cmd_len => cmd_buffer[n - 1] # NUL
  <2>1. n \in cmd_pos + 1 .. cmd_len => n - 1 \in Cell /\ n - 1 < cmd_len
    BY <1>1 DEF Cell
  <2> QED
    BY <2>1 DEF Solid
<1>4. n # cmd_pos /\ n \notin cmd_pos + 1 .. cmd_len => cmd_buffer[n] # NUL
  BY <1>1 DEF Solid
<1> QED
  BY <1>2, <1>3, <1>4

LEMMA ClosedSolid ==
  ASSUME LineOK, Solid, NEW from \in Nat
  PROVE  SolidUpTo(Closed(from), cmd_len - 1)
<1> SUFFICES ASSUME NEW n \in Cell, n < cmd_len - 1
             PROVE  (IF n \in from .. cmd_len - 2 THEN cmd_buffer[n + 1]
                     ELSE cmd_buffer[n]) # NUL
  BY DEF SolidUpTo, Closed
<1>1. cmd_len \in Nat /\ n \in Nat /\ MAX_CMD_LEN \in Nat /\ cmd_len < MAX_CMD_LEN
  BY Sizes DEF LineOK, Cell
<1>2. n + 1 \in Cell /\ n + 1 < cmd_len
  BY <1>1 DEF Cell
<1> QED
  BY <1>1, <1>2 DEF Solid

LEMMA CopySolid ==
  ASSUME NEW d \in [Cell -> Symbols], NEW s \in [Cell -> Symbols], Ends(s)
  PROVE  SolidUpTo(StrCpy(d, s), StrLen(s))
<1> DEFINE end == StrLen(s)
<1>1. end \in Nat /\ \A m \in Cell : m < end => s[m] # NUL
  BY StrLenIs
<1>2. \A n \in Cell : n <= end => StrCpy(d, s)[n] = s[n]
  BY DEF StrCpy
<1>3. \A n \in Cell : n \in Nat
  BY Sizes DEF Cell
<1> HIDE DEF end
<1>4. \A n \in Cell : n < end => n <= end
  BY <1>1, <1>3
<1>5. \A n \in Cell : n < end => StrCpy(d, s)[n] # NUL
  BY <1>1, <1>2, <1>4
<1> QED
  BY <1>5 DEF SolidUpTo, end

LEMMA SetLineSolid ==
  ASSUME NEW buf, NEW pos, NEW len, SetLine(buf, pos, len), SolidUpTo(buf, len)
  PROVE  Solid'
BY DEF SetLine, Solid, SolidUpTo

LEMMA EmptySolid ==
  ASSUME NEW buf
  PROVE  SolidUpTo(buf, 0)
BY Sizes DEF SolidUpTo, Cell

LEMMA KeepSolid ==
  ASSUME Solid, Keep
  PROVE  Solid'
BY DEF Solid, Keep, bufVars

\* The keys that edit the line keep it free of terminators; so do the history's.
LEMMA LineKeysSolid ==
  ASSUME LineOK, Solid
  PROVE  /\ \A c \in Printable : shell_insert_char(c) => Solid'
         /\ shell_delete_char_before => Solid'
         /\ shell_delete_char_at => Solid'
         /\ shell_move_left \/ shell_move_right \/ shell_move_home \/ shell_move_end => Solid'
<1>1. /\ cmd_len \in Nat /\ cmd_pos \in Nat
  BY Sizes DEF LineOK, Cell
<1>2. ASSUME NEW c \in Printable, shell_insert_char(c) PROVE Solid'
  BY <1>2, KeepSolid, InsertedSolid, SetLineSolid DEF shell_insert_char
<1>3. ASSUME shell_delete_char_before PROVE Solid'
  <2>1. CASE Keep
    BY <2>1, KeepSolid
  <2>2. CASE cmd_pos # 0 /\ SetLine(Closed(cmd_pos - 1), cmd_pos - 1, cmd_len - 1)
    <3>1. cmd_pos - 1 \in Nat
      BY <1>1, <2>2
    <3> QED
      BY <2>2, <3>1, ClosedSolid, SetLineSolid
  <2> QED
    BY <1>3, <2>1, <2>2 DEF shell_delete_char_before
<1>4. ASSUME shell_delete_char_at PROVE Solid'
  BY <1>1, <1>4, KeepSolid, ClosedSolid, SetLineSolid DEF shell_delete_char_at
<1>5. ASSUME NEW pos, MoveTo(pos) PROVE Solid'
  BY <1>5, SetLineSolid DEF MoveTo, Solid, SolidUpTo
<1>6. ASSUME shell_move_left \/ shell_move_right \/ shell_move_home \/ shell_move_end
      PROVE  Solid'
  BY <1>5, <1>6, KeepSolid
     DEF shell_move_left, shell_move_right, shell_move_home, shell_move_end
<1> QED
  BY <1>2, <1>3, <1>4, <1>6

LEMMA HistoryKeysSolid ==
  ASSUME LineOK, HistoryOK, Solid
  PROVE  /\ HistoryUp => Solid'
         /\ HistoryDown => Solid'
<1>1. ASSUME NEW i \in Nat, LineFrom(Entry(i)) PROVE Solid'
  <2>1. Entry(i) \in [Cell -> Symbols] /\ Ends(Entry(i))
    BY EntryEnds
  <2>2. SolidUpTo(StrCpy(cmd_buffer, Entry(i)), StrLen(Entry(i)))
    BY <2>1, CopySolid DEF LineOK
  <2> QED
    BY <1>1, <2>2, SetLineSolid DEF LineFrom
<1>2. ASSUME HistoryUp PROVE Solid'
  <2>1. CASE history_count = 0
    BY <1>2, <2>1, KeepSolid DEF HistoryUp
  <2>2. CASE history_count # 0
    <3>1. /\ history_index' = CASE history_index = -1 -> history_count - 1
                                [] history_index > 0  -> history_index - 1
                                [] OTHER              -> history_index
          /\ LineFrom(Entry(history_index'))
      BY <1>2, <2>2 DEF HistoryUp
    <3>2. history_index' \in Nat
      BY <2>2, <3>1 DEF HistoryOK
    <3> QED
      BY <1>1, <3>1, <3>2
  <2> QED
    BY <2>1, <2>2
<1>3. ASSUME HistoryDown PROVE Solid'
  <2>1. CASE history_index = -1
    BY <1>3, <2>1, KeepSolid DEF HistoryDown
  <2>2. CASE history_index # -1 /\ history_index < history_count - 1
    <3>1. history_index' = history_index + 1 /\ LineFrom(Entry(history_index'))
      BY <1>3, <2>2 DEF HistoryDown
    <3>2. history_index' \in Nat
      BY <2>2, <3>1 DEF HistoryOK
    <3> QED
      BY <1>1, <3>1, <3>2
  <2>3. CASE history_index # -1 /\ ~(history_index < history_count - 1)
    <3>1. SetLine([cmd_buffer EXCEPT ![0] = NUL], 0, 0)
      BY <1>3, <2>3 DEF HistoryDown
    <3> QED
      BY <3>1, EmptySolid, SetLineSolid
  <2> QED
    BY <2>1, <2>2, <2>3
<1> QED
  BY <1>2, <1>3

LEMMA EnterSolid ==
  ASSUME Enter
  PROVE  Solid'
<1>1. cmd_len' = 0
  BY DEF Enter, Prompt
<1>2. \A n \in Cell : ~(n < 0)
  BY Sizes DEF Cell
<1> QED
  BY <1>1, <1>2 DEF Solid

\* So does every character.
LEMMA CharSolid ==
  ASSUME LineOK, HistoryOK, Solid, NEW c, shell_feed_char(c)
  PROVE  Solid'
<1>1. ASSUME NEW d \in Finals, NEW buf, shell_handle_escape(d, buf)
      PROVE  Solid'
  BY <1>1, KeepSolid, LineKeysSolid, HistoryKeysSolid DEF shell_handle_escape, Finals
<1>2. CASE InEscape(c)
  BY <1>1, <1>2, KeepSolid DEF InEscape, Finals
<1>3. CASE Plain(c)
  BY <1>3, KeepSolid, LineKeysSolid, EnterSolid DEF Plain
<1> QED
  BY <1>2, <1>3 DEF shell_feed_char
-----------------------------------------------------------------------------
(* Every step of the editor is one of CommandLine, or none.                *)

\* A step of CommandLine, or none.
LineStep == [Line!LineNext]_(Line!lineVars)

\* The program starts with an empty line and no commands.
LEMMA LineInitially ==
  shell_init => Line!LineInit /\ Solid /\ KeyInv
<1> SUFFICES ASSUME shell_init PROVE Line!LineInit /\ Solid /\ KeyInv
  OBVIOUS
<1>1. /\ cmd_len = 0 /\ cmd_pos = 0 /\ history_count = 0 /\ history_index = -1
      /\ todo = <<>> /\ asked = Line!Idle
  BY DEF shell_init, Line!Idle
<1>2. LineOK /\ HistoryOK
  BY BoundsInitially, InvParts
<1>3. Text = <<>>
  <2>1. Text \in Seq(Symbols) /\ Len(Text) = 0
    BY <1>1, <1>2, TextOfCells, Sizes DEF LineOK, Text
  <2> QED
    BY <2>1
<1>4. Listed = <<>>
  <2>1. ListedKnown
    BY <1>2, ListedIs
  <2>2. Start(history_count) = 0
    BY <1>1, Sizes DEF Start
  <2>3. Listed \in Seq(Seq(Symbols)) /\ Len(Listed) = history_count - Start(history_count)
    BY <2>1 DEF ListedKnown
  <2>4. Len(Listed) = 0
    BY <1>1, <2>2, <2>3
  <2> QED
    BY <2>3, <2>4
<1>5. Back = 0
  BY <1>1 DEF Back
<1>6. Solid
  BY <1>1, EmptySolid DEF Solid, SolidUpTo
<1> QED
  BY <1>1, <1>3, <1>4, <1>5, <1>6, LineVariables DEF KeyInv

\* A character of a whole key, and one of a key that was cut short.
LEMMA FeedSteps ==
  ASSUME LineOK, HistoryOK, DecoderOK, HistoryOK', todo \in Seq(Char), Solid, KeyInv, Feed
  PROVE  LineStep /\ KeyInv'
<1>1. /\ todo # <<>> /\ shell_feed_char(Head(todo)) /\ todo' = Tail(todo)
      /\ asked' = (IF todo' = <<>> THEN Line!Idle ELSE asked)
  BY DEF Feed, Line!Idle
<1>2. asked # Line!Idle
  BY <1>1 DEF KeyInv
<1>3. CASE asked = Line!Noise
  <2>1. asked' \in {Line!Noise, Line!Idle} /\ (todo' = <<>> <=> asked' = Line!Idle)
    BY <1>1, <1>3, TheKeys
  <2>2. Line!Nothing \/ \E k \in Line!Keys : Line!Work(k)
    <3>1. Unchanged \/ \E k \in Line!Keys : Line!Work(k)
      BY <1>1, CharWorks
    <3> QED
      BY <3>1, LineVariables
  <2>3. Line!Scraps
    BY <1>3, <2>1, <2>2 DEF Line!Scraps
  <2>4. KeyInv'
    BY <2>1 DEF KeyInv, Line!Idle, Line!Noise
  <2> QED
    BY <2>3, <2>4 DEF LineStep, Line!LineNext
<1>4. CASE asked \in DOMAIN KeyChars /\ Under(asked)
  <2>1. PICK k : k = asked
    OBVIOUS
  <2>2. k \in DOMAIN KeyChars /\ k \in Line!Keys /\ Under(k)
    BY <1>4, <2>1, KeysAreKnown
  <2>3. Does(k) \/ GoesOn(k)
    <3>1. CASE esc_state = "none"
      <4>1. Puts(k, todo)
        BY <2>2, <3>1 DEF Under
      <4> QED
        BY <3>1, <4>1, PlainKey
    <3>2. CASE esc_state # "none"
      BY <2>2, <3>2, SequenceKey
    <3> QED
      BY <3>1, <3>2
  <2>4. CASE Does(k)
    <3>1. asked' = Line!Idle /\ todo' = <<>> /\ Line!Work(k)
      BY <1>1, <2>4 DEF Does
    <3>2. Line!Perform
      BY <2>1, <2>2, <3>1 DEF Line!Perform
    <3>3. KeyInv'
      BY <3>1 DEF KeyInv, Line!Idle
    <3> QED
      BY <3>2, <3>3 DEF LineStep, Line!LineNext
  <2>5. CASE GoesOn(k)
    <3>1. todo' # <<>> /\ Unchanged /\ Under(k)' /\ asked' = k
      BY <1>1, <2>1, <2>5 DEF GoesOn
    <3>2. UNCHANGED Line!lineVars
      BY <2>1, <3>1, LineVariables
    <3>3. k # Line!Idle
      BY <1>2, <2>1
    <3>4. Under(asked)'
      BY <3>1 DEF Under
    <3>5. asked' \in DOMAIN KeyChars /\ asked' # Line!Idle
      BY <2>2, <3>1, <3>3
    <3>6. KeyInv'
      BY <3>1, <3>4, <3>5 DEF KeyInv, Line!Idle
    <3> QED
      BY <3>2, <3>6 DEF LineStep
  <2> QED
    BY <2>3, <2>4, <2>5
<1> QED
  BY <1>2, <1>3, <1>4 DEF KeyInv

\* A key is pressed.
LEMMA TypeSteps ==
  ASSUME KeyInv, NEW k \in DOMAIN KeyChars, NEW n \in DOMAIN KeyChars[k], Type(k, n)
  PROVE  LineStep /\ KeyInv'
<1>1. /\ todo = <<>> /\ todo' = SubSeq(KeyChars[k], 1, n)
      /\ asked' = (IF n = Len(KeyChars[k]) /\ esc_state = "none" THEN k ELSE Line!Noise)
      /\ UNCHANGED <<bufVars, histVars, escVars, screen, overrun>>
  BY DEF Type, Line!Noise
<1>2. asked = Line!Idle
  BY <1>1 DEF KeyInv
<1>3. Unchanged
  <2>1. Keep /\ UNCHANGED histVars
    BY <1>1 DEF Keep
  <2> QED
    BY <2>1, KeepKeepsText
<1>4. k \in Line!Keys
  BY KeysAreKnown
<1>5. Line!Press
  <2>1. asked' \in Line!Keys \cup {Line!Noise}
    BY <1>1, <1>4
  <2> QED
    BY <1>2, <1>3, <2>1, LineVariables DEF Line!Press
<1> DEFINE chars == KeyChars[k]
           S == Range(chars)
<1>6. chars \in Seq(S)
  BY LineEditorAssumption
<1> HIDE DEF chars, S
<1>7. n \in 1 .. Len(chars)
  <2>1. n \in DOMAIN chars
    BY DEF chars
  <2> QED
    BY <1>6, <2>1
<1>8. SubSeq(chars, 1, n) # <<>> /\ (n = Len(chars) => SubSeq(chars, 1, n) = chars)
  <2>1. Len(SubSeq(chars, 1, n)) = n /\ n # 0
    BY <1>6, <1>7
  <2>2. n = Len(chars) => SubSeq(chars, 1, n) = chars
    BY <1>6, <1>7
  <2> QED
    BY <2>1, <2>2
<1>9. todo' # <<>> /\ (n = Len(KeyChars[k]) => todo' = KeyChars[k])
  BY <1>1, <1>8 DEF chars
<1>10. asked' # Line!Idle
  BY <1>1, <1>4, TheKeys
<1>11. asked' = Line!Noise \/ (asked' \in DOMAIN KeyChars /\ Under(asked)')
  <2>1. CASE n = Len(KeyChars[k]) /\ esc_state = "none"
    <3>1. asked' = k /\ esc_state' = "none" /\ todo' = KeyChars[k]
      BY <1>1, <1>9, <2>1 DEF escVars
    <3>2. Puts(k, KeyChars[k])
      BY KeyboardAssumption
    <3> QED
      BY <3>1, <3>2 DEF Under
  <2> QED
    BY <1>1, <2>1
<1>12. KeyInv'
  BY <1>9, <1>10, <1>11 DEF KeyInv, Line!Idle, Line!Noise
<1> QED
  BY <1>5, <1>12 DEF LineStep, Line!LineNext

\* Nothing happens.
LEMMA StutterSteps ==
  ASSUME KeyInv, UNCHANGED editorVars
  PROVE  LineStep /\ KeyInv'
<1>1. Keep /\ UNCHANGED histVars /\ asked' = asked /\ todo' = todo /\ UNCHANGED escVars
  BY DEF editorVars, Keep
<1>2. UNCHANGED Line!lineVars
  BY <1>1, KeepKeepsText, LineVariables
<1>3. Under(asked) => Under(asked)'
  BY <1>1 DEF Under, escVars, esc_pos
<1>4. KeyInv'
  BY <1>1, <1>3 DEF KeyInv, Line!Idle, Line!Noise
<1> QED
  BY <1>2, <1>4 DEF LineStep

\* The inductive invariant.
LineInv == BoundsInv /\ Solid /\ KeyInv

LEMMA LineNextStep ==
  LineInv /\ BoundsInv' /\ [EditorNext]_editorVars => LineStep /\ Solid' /\ KeyInv'
<1> SUFFICES ASSUME LineInv, BoundsInv', [EditorNext]_editorVars
             PROVE  LineStep /\ Solid' /\ KeyInv'
  OBVIOUS
<1>1. LineOK /\ HistoryOK /\ DecoderOK /\ todo \in Seq(Char) /\ Solid /\ KeyInv
  BY InvParts DEF LineInv
<1>2. HistoryOK'
  <2>1. BoundsInv' => HistoryOK'
    BY DEF BoundsInv, LineInBounds, HistoryOK, Ends
  <2> QED
    BY <2>1
<1>3. CASE Feed
  <2>1. Solid'
    BY <1>1, <1>3, CharSolid DEF Feed
  <2> QED
    BY <1>1, <1>2, <1>3, <2>1, FeedSteps
<1>4. ASSUME NEW k \in DOMAIN KeyChars, NEW n \in DOMAIN KeyChars[k], Type(k, n)
      PROVE  LineStep /\ Solid' /\ KeyInv'
  <2>1. Solid'
    BY <1>1, <1>4, KeepSolid DEF Type, Keep
  <2> QED
    BY <1>1, <1>4, <2>1, TypeSteps
<1>5. CASE UNCHANGED editorVars
  <2>1. Solid'
    BY <1>1, <1>5, KeepSolid DEF editorVars, Keep
  <2> QED
    BY <1>1, <1>5, <2>1, StutterSteps
<1> QED
  BY <1>3, <1>4, <1>5 DEF EditorNext

\* Whatever is typed, and wherever the ring cuts a key short, the line, the cursor
\* and the commands listed change as the keys ask, once for each: on all lengths of
\* the line and of the history, however often the array of commands has wrapped
\* around (shell.c:112-395).
THEOREM EditorImplementsLine ==
  EditorSpec => ImplementsLine
<1>1. shell_init => LineInv /\ Line!LineInit
  BY BoundsInitially, LineInitially DEF LineInv
<1>2. LineInv /\ [EditorNext]_editorVars => LineInv' /\ [Line!LineNext]_(Line!lineVars)
  BY BoundsStep, LineNextStep DEF LineInv, LineStep
<1> QED
  BY <1>1, <1>2, PTL DEF EditorSpec, ImplementsLine, Line!LineSpec
=============================================================================
