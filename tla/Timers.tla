-------------------------------- MODULE Timers --------------------------------
(***************************************************************************)
(* The timer queue (cpu/timer.c) and the tick that drives it (cpu/pit.c).  *)
(* timer_add, timer_cancel and each pass of timer_tick's loop run with     *)
(* interrupts off (lock_acquire), so each is one step; timer_tick itself   *)
(* runs in the IRQ0 handler and the foreground stands still meanwhile.     *)
(*                                                                         *)
(* The tick counter and every expiry are unsigned words of TICK_MOD values *)
(* that wrap; left counts, for each queued timer, the ticks that really    *)
(* remain, and is no variable of the code.                                 *)
(***************************************************************************)
EXTENDS Integers, Sequences

CONSTANTS
  Timer,        \* the struct timer objects
  TICK_MOD,     \* 2^32 in the code
  Delay,        \* the delays timer_add is called with
  Period,       \* the periods timer_setup is called with, 0 for one shot
  LAST_TICK     \* bound: where the counter stops, TICK_MOD for nowhere

ASSUME TimersAssumption ==
  /\ TICK_MOD \in Nat /\ TICK_MOD > 2 /\ TICK_MOD % 2 = 0
  /\ \A d \in Delay \cup Period : d \in Nat /\ 2 * d < TICK_MOD
  /\ LAST_TICK \in 0 .. TICK_MOD

VARIABLES
  tick_count,
  timer_queue,             \* the timers linked from timer_queue, in order
  expires, period, active, \* the fields of each timer
  in_tick,                 \* the processor is inside pit_handler
  left                     \* ticks that remain until each queued timer is due

timerVars == <<tick_count, timer_queue, expires, period, active, in_tick, left>>

Tick == 0 .. TICK_MOD - 1

\* (int32_t)(x - y)
SignedDiff(x, y) == LET d == (x - y) % TICK_MOD
                    IN  IF 2 * d >= TICK_MOD THEN d - TICK_MOD ELSE d

Queued == {timer_queue[i] : i \in DOMAIN timer_queue}

\* Faulty: the newest timer is put first.
InsertFirst(q, t, e) == <<t>> \o q

\* queue_insert: behind the leading timers that expire no later, as unsigned
\* words compare.
queue_insert(q, t, e) ==
  LET k == CHOOSE i \in 0 .. Len(q) :
             /\ \A j \in 1 .. i : e[q[j]] <= e[t]
             /\ i < Len(q) => e[q[i + 1]] > e[t]
  IN  SubSeq(q, 1, k) \o <<t>> \o SubSeq(q, k + 1, Len(q))

\* queue_remove: the first link to t is taken out, if there is one.
queue_remove(q, t) ==
  IF \A i \in DOMAIN q : q[i] # t THEN q
  ELSE LET k == CHOOSE i \in DOMAIN q : q[i] = t /\ \A j \in 1 .. i - 1 : q[j] # t
       IN  SubSeq(q, 1, k - 1) \o SubSeq(q, k + 1, Len(q))

TimersInit ==
  /\ tick_count = 0
  /\ timer_queue = <<>>
  /\ expires = [t \in Timer |-> 0] /\ period = [t \in Timer |-> 0]
  /\ active = [t \in Timer |-> FALSE]
  /\ in_tick = FALSE
  /\ left = [t \in Timer |-> 0]
-----------------------------------------------------------------------------
(* The foreground.                                                         *)

\* timer_setup does not look at the queue; its caller has cancelled the timer.
timer_setup(t, p) ==
  /\ ~in_tick /\ ~active[t]
  /\ expires' = [expires EXCEPT ![t] = 0]
  /\ period' = [period EXCEPT ![t] = p]
  /\ active' = [active EXCEPT ![t] = FALSE]
  /\ UNCHANGED <<tick_count, timer_queue, in_tick, left>>

AtLeastOne(d) == IF d = 0 THEN 1 ELSE d

\* Faulty: an active timer is linked again.
AddLinksAgain(t, d) ==
  /\ ~in_tick
  /\ expires' = [expires EXCEPT ![t] = (tick_count + AtLeastOne(d)) % TICK_MOD]
  /\ timer_queue' = queue_insert(timer_queue, t, expires')
  /\ active' = [active EXCEPT ![t] = TRUE]
  /\ left' = [left EXCEPT ![t] = AtLeastOne(d)]
  /\ UNCHANGED <<tick_count, period, in_tick>>

timer_add(t, d) ==
  /\ ~in_tick
  /\ LET q == IF active[t] THEN queue_remove(timer_queue, t) ELSE timer_queue
     IN  /\ expires' = [expires EXCEPT ![t] = (tick_count + AtLeastOne(d)) % TICK_MOD]
         /\ timer_queue' = queue_insert(q, t, expires')
  /\ active' = [active EXCEPT ![t] = TRUE]
  /\ left' = [left EXCEPT ![t] = AtLeastOne(d)]
  /\ UNCHANGED <<tick_count, period, in_tick>>

timer_cancel(t) ==
  /\ ~in_tick
  /\ timer_queue' = IF active[t] THEN queue_remove(timer_queue, t) ELSE timer_queue
  /\ active' = [active EXCEPT ![t] = FALSE]
  /\ UNCHANGED <<tick_count, expires, period, in_tick, left>>
-----------------------------------------------------------------------------
(* The interrupt.                                                          *)

\* pit_handler: the tick is counted and timer_tick begins.
pit_handler ==
  /\ ~in_tick
  /\ tick_count # LAST_TICK
  /\ tick_count' = (tick_count + 1) % TICK_MOD
  /\ in_tick' = TRUE
  /\ left' = [t \in Timer |-> IF active[t] THEN left[t] - 1 ELSE left[t]]
  /\ UNCHANGED <<timer_queue, expires, period, active>>

\* The head has expired.
Due == /\ timer_queue # <<>>
       /\ SignedDiff(expires[Head(timer_queue)], tick_count) <= 0

\* One pass of timer_tick: the head is taken off, put back if it is periodic,
\* and its function is called.
expire(t) ==
  /\ in_tick /\ Due /\ t = Head(timer_queue)
  /\ IF period[t] > 0
     THEN /\ expires' = [expires EXCEPT ![t] = (tick_count + period[t]) % TICK_MOD]
          /\ timer_queue' = queue_insert(Tail(timer_queue), t, expires')
          /\ left' = [left EXCEPT ![t] = period[t]]
          /\ UNCHANGED active
     ELSE /\ timer_queue' = Tail(timer_queue)
          /\ active' = [active EXCEPT ![t] = FALSE]
          /\ UNCHANGED <<expires, left>>
  /\ UNCHANGED <<tick_count, period, in_tick>>

\* timer_tick finds nothing due and the interrupt returns.
tick_done ==
  /\ in_tick /\ ~Due
  /\ in_tick' = FALSE
  /\ UNCHANGED <<tick_count, timer_queue, expires, period, active, left>>

TimersNext ==
  \/ \E t \in Timer : \/ \E p \in Period : timer_setup(t, p)
                      \/ \E d \in Delay : timer_add(t, d)
                      \/ timer_cancel(t)
                      \/ expire(t)
  \/ pit_handler \/ tick_done

TimersSpec == TimersInit /\ [][TimersNext]_timerVars
-----------------------------------------------------------------------------
(* Properties.                                                             *)

\* Types of the variables.
TimersTypeOK ==
  /\ tick_count \in Tick
  /\ timer_queue \in Seq(Timer)
  /\ expires \in [Timer -> Tick] /\ period \in [Timer -> Period \cup {0}]
  /\ active \in [Timer -> BOOLEAN] /\ in_tick \in BOOLEAN
  /\ left \in [Timer -> Int]

\* The queue holds the active timers and no other, each once: the flag is what
\* timer_add and timer_cancel decide by whether to unlink (timer.c:105-110 and
\* 124-128), and a timer linked twice would close the list into a ring.
QueueIsActiveTimers ==
  /\ Queued = {t \in Timer : active[t]}
  /\ \A i, j \in DOMAIN timer_queue : i # j => timer_queue[i] # timer_queue[j]

\* Every timer's function is called on its tick: the one that is due has no tick
\* left, and none that stays queued when the interrupt returns is overdue.  With
\* several timers this needs every expiry to lie on one side of the counter's
\* wrap, since queue_insert compares unsigned words (timer.c:28) where timer_tick
\* compares a signed difference (timer.c:52); Shutdown has one timer and a
\* counter that wraps.
OnTime ==
  /\ in_tick /\ Due => left[Head(timer_queue)] <= 0
  /\ ~in_tick => \A t \in Queued : left[t] > 0
=============================================================================
