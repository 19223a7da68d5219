---------------------------- MODULE ShutdownDelay ----------------------------
(***************************************************************************)
(* The arithmetic of the timer command (cmd_timer in shell.c): the seconds *)
(* the user names become milliseconds, those become ticks, and the ticks   *)
(* left become the seconds that "timer status" shows.  Every value is an   *)
(* unsigned word of 32 bits and every product is taken modulo 2^32.        *)
(*                                                                         *)
(* A word is written <<high, low>> with halves of 16 bits, so that the     *)
(* numbers here are the code's own and no scaled-down ones.  How the ticks *)
(* become a shutdown is the subject of Shutdown: of the timer only the     *)
(* ticks it has left are kept.                                             *)
(***************************************************************************)
EXTENDS Integers

CONSTANTS
  Seconds,       \* the words the user may give as seconds
  Elapse,        \* the words of ticks that may pass between two commands
  MAX_STEPS      \* bound: commands and pauses in a behaviour

PIT_HZ == 100
HALF   == 65536

ASSUME DelayAssumption ==
  /\ Seconds \cup Elapse \subseteq (0 .. HALF - 1) \X (0 .. HALF - 1)
  /\ MAX_STEPS \in Nat

\* The exact product of a word and a number below 2^15, and the exact sum, as
\* <<carry out of the word, high, low>>.
WideMul(w, k) ==
  LET lo == w[2] * k
      hi == w[1] * k + lo \div HALF
  IN  <<hi \div HALF, hi % HALF, lo % HALF>>
WideAdd(w, k) ==
  LET lo == w[2] + k
      hi == w[1] + lo \div HALF
  IN  <<hi \div HALF, hi % HALF, lo % HALF>>

\* What a uint32_t keeps of it.
Word(x)   == <<x[2], x[3]>>
Mul(w, k) == Word(WideMul(w, k))
Add(w, k) == Word(WideAdd(w, k))

\* Quotient by a number below 2^15.
Div(w, k) == <<w[1] \div k, ((w[1] % k) * HALF + w[2]) \div k>>

Less(v, w) == v[1] < w[1] \/ (v[1] = w[1] /\ v[2] < w[2])
Sub(v, w)  == LET b == IF v[2] < w[2] THEN 1 ELSE 0
              IN  <<(v[1] - w[1] - b) % HALF, (v[2] - w[2]) % HALF>>
Zero == <<0, 0>>

\* Faulty: the division is left out.
TicksUndivided(ms) == Add(Mul(ms, PIT_HZ), 999)

\* MS_TO_TICKS, which timer_add_ms uses, and the same computation written out in
\* schedule_shutdown.
MS_TO_TICKS(ms)      == Div(Add(Mul(ms, PIT_HZ), 999), 1000)
AtLeastOneTick(w)        == IF w = Zero THEN <<0, 1>> ELSE w
DelayTicks(ms)       == AtLeastOneTick(MS_TO_TICKS(ms))

\* Faulty: a product that leaves the word for longer delays.
RemainingWraps(ticks) == Div(Mul(ticks, 10000), 1000)

shutdown_remaining_ms(ticks) == Div(Mul(ticks, 1000), PIT_HZ)

VARIABLES
  sd_default_secs,
  pending,       \* sd_active
  announced,     \* the seconds the last "Shutdown scheduled in" printed
  ticks,         \* what the delay became, in ticks
  remains,       \* the ticks that remain
  shown,         \* the seconds "timer status" showed last
  steps

delayVars == <<sd_default_secs, pending, announced, ticks, remains, shown, steps>>

Step == steps < MAX_STEPS /\ steps' = steps + 1

DelayInit ==
  /\ sd_default_secs = <<0, 600>>
  /\ pending = TRUE                    \* the kernel's automatic shutdown
  /\ announced = <<0, 600>>            \* "automatic 10-minute shutdown"
  /\ ticks = DelayTicks(<<9, 10176>>)  \* 600000 ms
  /\ remains = ticks
  /\ shown = <<0, 600>>
  /\ steps = 0

\* schedule_shutdown for a number of seconds that is then printed.
Schedule(secs) ==
  /\ pending' = TRUE
  /\ ticks' = DelayTicks(Mul(secs, 1000))
  /\ remains' = ticks'
  /\ announced' = secs

\* timer <secs>
TimerSeconds(secs) ==
  /\ Step
  /\ Schedule(secs)
  /\ UNCHANGED <<sd_default_secs, shown>>

\* timer
TimerDefault ==
  /\ Step
  /\ Schedule(sd_default_secs)
  /\ UNCHANGED <<sd_default_secs, shown>>

\* timer default <secs>
TimerSetDefault(secs) ==
  /\ Step
  /\ secs # Zero
  /\ sd_default_secs' = secs
  /\ UNCHANGED <<pending, announced, ticks, remains, shown>>

\* timer cancel
TimerCancel ==
  /\ Step
  /\ pending
  /\ pending' = FALSE
  /\ UNCHANGED <<sd_default_secs, announced, ticks, remains, shown>>

\* timer status
TimerStatus ==
  /\ Step
  /\ pending
  /\ shown' = Div(shutdown_remaining_ms(remains), 1000)
  /\ UNCHANGED <<sd_default_secs, pending, announced, ticks, remains>>

\* Time passes and the machine is still up.
Elapses(n) ==
  /\ Step
  /\ pending /\ Less(n, remains)
  /\ remains' = Sub(remains, n)
  /\ UNCHANGED <<sd_default_secs, pending, announced, ticks, shown>>

DelayNext ==
  \/ \E s \in Seconds : TimerSeconds(s) \/ TimerSetDefault(s)
  \/ TimerDefault \/ TimerCancel \/ TimerStatus
  \/ \E n \in Elapse : Elapses(n)

DelaySpec == DelayInit /\ [][DelayNext]_delayVars
-----------------------------------------------------------------------------
(* Properties.                                                             *)

\* What "Shutdown scheduled in <secs>s" says is true: the delay is that many
\* seconds, or one tick for none (shell.c:1018-1024 and 1114-1118).
AnnouncedDelayIsReal ==
  pending => IF announced = Zero THEN ticks = <<0, 1>>
             ELSE WideMul(announced, PIT_HZ) = <<0, ticks[1], ticks[2]>>

\* It is true up to 42949 seconds; and whatever the products before it lost, the
\* delay never becomes so many ticks that the signed comparison of timer_tick
\* takes it for a moment in the past (timer.h:8, timer.c:52).
LONGEST == <<0, 42949>>
DelayInReach ==
  /\ ~Less(LONGEST, announced) => AnnouncedDelayIsReal
  /\ ticks[1] < HALF \div 2

\* What "timer status" shows is the time left, rounded down to seconds: the
\* multiplication by 1000 never leaves the word, whatever the delay became
\* (shutdown.c:105, shell.c:1045).
StatusTellsTimeLeft ==
  [][shown' # shown =>
       LET from == WideMul(shown', PIT_HZ)
           to   == WideMul(Add(shown', 1), PIT_HZ)
       IN  /\ from[1] = 0 /\ ~Less(remains, Word(from))
           /\ to[1] > 0 \/ Less(remains, Word(to))]_delayVars
=============================================================================
