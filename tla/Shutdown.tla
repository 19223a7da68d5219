------------------------------- MODULE Shutdown -------------------------------
(***************************************************************************)
(* The scheduled shutdown (cpu/shutdown.c) over the timer queue.  Its      *)
(* functions take no lock.  They run in the foreground, most of the time   *)
(* with interrupts off (kernel.c:258 ends in cli), but a command that      *)
(* follows the editor in the same burst of keys runs with them on, and     *)
(* then the tick, and in it shutdown_fire, may come between any two of     *)
(* their steps.                                                            *)
(*                                                                         *)
(* A delay is given here in ticks: what schedule_shutdown and timer_add_ms *)
(* both make of the milliseconds is the subject of ShutdownDelay.          *)
(***************************************************************************)
EXTENDS Timers

CONSTANTS
  sd,            \* sd_timer
  Mode           \* the modes of enum shutdown_mode

ASSUME ShutdownAssumption ==
  /\ Timer = {sd} /\ 0 \in Period
  /\ "poweroff" \in Mode /\ "none" \notin Mode

VARIABLES
  sd_active, sd_mode, sd_deadline,
  pc,            \* the next step of the foreground's call, or "idle"
  after,         \* where cancel_shutdown returns to
  call,          \* the arguments of schedule_shutdown
  IF_flag,       \* EFLAGS.IF of the foreground
  down,          \* the mode in which the machine went down, "none" while it runs
  promise        \* the shutdown the last completed call promised, or "none"

sdVars       == <<sd_active, sd_mode, sd_deadline>>
callVars     == <<pc, after, call, IF_flag, promise>>
shutdownVars == <<timerVars, sdVars, callVars, down>>

Pc == {"idle", "c_check", "c_timer", "c_clear", "s_mode", "s_setup", "s_add", "s_deadline"}

ShutdownInit ==
  /\ TimersInit
  /\ sd_active = FALSE /\ sd_mode = "poweroff" /\ sd_deadline = 0
  /\ pc = "idle" /\ after = "idle"
  /\ call = [mode |-> sd_mode, delay |-> 0]
  /\ IF_flag = TRUE /\ down = "none" /\ promise = "none"

\* The foreground is at step p of a call.
At(p) == pc = p /\ down = "none" /\ ~in_tick
-----------------------------------------------------------------------------
(* The calls.                                                              *)

\* schedule_shutdown, which begins with cancel_shutdown.
schedule_shutdown(m, d) ==
  /\ At("idle")
  /\ pc' = "c_check" /\ after' = "s_mode"
  /\ call' = [mode |-> m, delay |-> d]
  /\ IF_flag' \in BOOLEAN
  /\ UNCHANGED <<timerVars, sdVars, down, promise>>

\* The default shutdown is scheduled unless one is pending.
schedule_default_shutdown(d) ==
  /\ ~sd_active
  /\ schedule_shutdown("poweroff", d)

\* cancel_shutdown called by the timer command, for a pending shutdown.
cancel_shutdown ==
  /\ At("idle") /\ sd_active
  /\ pc' = "c_check" /\ after' = "idle"
  /\ IF_flag' \in BOOLEAN
  /\ UNCHANGED <<timerVars, sdVars, call, down, promise>>

\* cancel_shutdown, if (sd_active)
CancelCheck ==
  /\ At("c_check")
  /\ pc' = IF sd_active THEN "c_timer" ELSE after
  /\ UNCHANGED <<timerVars, sdVars, after, call, IF_flag, down, promise>>

\* timer_cancel(&sd_timer)
CancelTimer ==
  /\ At("c_timer")
  /\ timer_cancel(sd)
  /\ pc' = "c_clear"
  /\ UNCHANGED <<sdVars, after, call, IF_flag, down, promise>>

\* Faulty: the flag stays set.
CancelKeepsFlag ==
  /\ At("c_clear")
  /\ pc' = after
  /\ promise' = IF after = "idle" THEN "none" ELSE promise
  /\ UNCHANGED <<timerVars, sdVars, after, call, IF_flag, down>>

\* sd_active = false
CancelClear ==
  /\ At("c_clear")
  /\ sd_active' = FALSE
  /\ pc' = after
  /\ promise' = IF after = "idle" THEN "none" ELSE promise
  /\ UNCHANGED <<timerVars, sd_mode, sd_deadline, after, call, IF_flag, down>>

\* Faulty: the mode of the earlier shutdown is kept.
SetModeOld ==
  /\ At("s_mode")
  /\ sd_active' = TRUE
  /\ pc' = "s_setup"
  /\ UNCHANGED <<timerVars, sd_mode, sd_deadline, after, call, IF_flag, down, promise>>

\* sd_active = true; sd_mode = mode
SetMode ==
  /\ At("s_mode")
  /\ sd_active' = TRUE /\ sd_mode' = call.mode
  /\ pc' = "s_setup"
  /\ UNCHANGED <<timerVars, sd_deadline, after, call, IF_flag, down, promise>>

\* timer_setup(&sd_timer, shutdown_fire, NULL, 0)
SetUpTimer ==
  /\ At("s_setup")
  /\ timer_setup(sd, 0)
  /\ pc' = "s_add"
  /\ UNCHANGED <<sdVars, after, call, IF_flag, down, promise>>

\* Faulty: a shutdown with no delay is not armed.
ArmOnlyDelayed ==
  /\ At("s_add")
  /\ IF call.delay > 0 THEN timer_add(sd, call.delay) ELSE UNCHANGED timerVars
  /\ pc' = "s_deadline"
  /\ UNCHANGED <<sdVars, after, call, IF_flag, down, promise>>

\* timer_add_ms(&sd_timer, delay_ms)
ArmTimer ==
  /\ At("s_add")
  /\ timer_add(sd, call.delay)
  /\ pc' = "s_deadline"
  /\ UNCHANGED <<sdVars, after, call, IF_flag, down, promise>>

\* Faulty: the deadline does not wrap; it may be this very tick.
DeadlineNoWrap(d) == tick_count + AtLeastOne(d)
DeadlineNow(d)    == (tick_count + d) % TICK_MOD

\* The deadline is computed anew, and the call returns.
Deadline(d) == (tick_count + AtLeastOne(d)) % TICK_MOD
SetDeadline ==
  /\ At("s_deadline")
  /\ sd_deadline' = Deadline(call.delay)
  /\ pc' = "idle"
  /\ promise' = call.mode
  /\ UNCHANGED <<timerVars, sd_active, sd_mode, after, call, IF_flag, down>>
-----------------------------------------------------------------------------
(* The interrupt.  An idle foreground is halted with interrupts on.        *)

TimerInterrupt ==
  /\ down = "none" /\ (pc = "idle" \/ IF_flag)
  /\ pit_handler
  /\ UNCHANGED <<sdVars, callVars, down>>

\* shutdown_fire, called by timer_tick: it does nothing when no shutdown is
\* pending, and never returns otherwise.
shutdown_fire ==
  IF sd_active
  THEN sd_active' = FALSE /\ down' = sd_mode
  ELSE UNCHANGED <<sd_active, down>>

TimerExpires ==
  /\ down = "none"
  /\ expire(sd)
  /\ shutdown_fire
  /\ UNCHANGED <<sd_mode, sd_deadline, callVars>>

InterruptReturns ==
  /\ down = "none"
  /\ tick_done
  /\ UNCHANGED <<sdVars, callVars, down>>

Calls == \/ \E m \in Mode, d \in Delay : schedule_shutdown(m, d)
         \/ \E d \in Delay : schedule_default_shutdown(d)
         \/ cancel_shutdown

Steps == \/ CancelCheck \/ CancelTimer \/ CancelClear
         \/ SetMode \/ SetUpTimer \/ ArmTimer \/ SetDeadline

Interrupt == TimerInterrupt \/ TimerExpires \/ InterruptReturns

ShutdownNext == Calls \/ Steps \/ Interrupt

ShutdownSpec == ShutdownInit /\ [][ShutdownNext]_shutdownVars

\* The timer goes on ticking, and a call that has begun goes on between ticks.
FairShutdownSpec == ShutdownSpec /\ WF_shutdownVars(Interrupt) /\ SF_shutdownVars(Steps)
-----------------------------------------------------------------------------
(* Properties.                                                             *)

Idle == pc = "idle" /\ ~in_tick /\ down = "none"

\* Types of the variables.
ShutdownTypeOK ==
  /\ TimersTypeOK
  /\ sd_active \in BOOLEAN /\ sd_mode \in Mode /\ sd_deadline \in Tick
  /\ pc \in Pc /\ after \in {"idle", "s_mode"}
  /\ call \in [mode : Mode, delay : Delay \cup {0}]
  /\ IF_flag \in BOOLEAN
  /\ down \in Mode \cup {"none"} /\ promise \in Mode \cup {"none"}

\* Between calls a shutdown is pending exactly when its timer is queued, though
\* the flag and the queue are changed one after the other and the tick changes
\* both; and timer_setup, which forgets the link of a queued timer and does not
\* check, never finds it queued (shutdown.c:39-42, 64-77 and 86-91, timer.c:97).
PendingIsArmed ==
  /\ ShutdownTypeOK
  /\ Idle => (sd_active <=> sd \in Queued)
  /\ pc = "s_setup" => sd \notin Queued

\* While a shutdown is pending between calls, its status says that time is
\* left: sd_deadline, read from the tick counter a second time, is not before
\* the timer's expiry (shutdown.c:77-83 and 100-102).
PendingHasTimeLeft == Idle /\ sd_active => SignedDiff(sd_deadline, tick_count) > 0

\* The machine goes down only as a call asked: in the mode of the last completed
\* schedule_shutdown, or of one under way; on its tick; and never after a
\* cancel_shutdown has returned (shutdown.c:37-91).
GoesDownAsPromised ==
  [][down' # down => /\ down' \in {promise, call.mode} \ {"none"}
                     /\ pc = "idle" => down' = promise
                     /\ left[sd] = 0]_shutdownVars

\* What a completed schedule_shutdown promises is kept unless another call
\* begins: the machine goes down.
PromiseKept == (Idle /\ promise # "none") ~> (down # "none" \/ pc # "idle")
=============================================================================
