------------------------------ MODULE Interrupts ------------------------------
(***************************************************************************)
(* The way of an interrupt request from the two cascaded 8259 controllers  *)
(* through the gates of the IDT to irq_dispatch and its handler            *)
(* (cpu/interrupts.c, cpu/pic.c, cpu/irq_stubs.asm), and the order in      *)
(* which the kernel opens that way when it starts (kernel/kernel.c).       *)
(*                                                                         *)
(* The controllers are modelled as the code uses them: edge triggered,     *)
(* fully nested priorities, ends of interrupt that name no request.  The   *)
(* slave hangs on request 2 of the master.                                 *)
(***************************************************************************)
EXTENDS Integers, Sequences

CONSTANTS
  Registered,    \* the requests a handler is registered for
  Opened,        \* the bits of the mask registers that are cleared
  SelfEnding     \* the handlers that send an end of interrupt themselves

IRQ_COUNT == 16
Irq    == 0 .. IRQ_COUNT - 1
Slave  == 8 .. 15
CASCADE == 2

ASSUME InterruptsAssumption ==
  /\ Registered \subseteq Irq \ {CASCADE}
  /\ Opened \subseteq Irq
  /\ Opened \subseteq Registered \cup {CASCADE}
  /\ SelfEnding \subseteq Registered \ Slave

VARIABLES
  irr,           \* latched requests
  isr,           \* requests in service
  imr,           \* masked requests
  irq_handlers,  \* the requests irq_handlers has an entry for
  boot,          \* how far the start of the kernel has come
  IF_flag,       \* EFLAGS.IF of what the processor is executing
  frames         \* the interrupts being dispatched, the innermost first

picVars == <<irr, isr, imr>>
irqVars == <<picVars, irq_handlers, boot, IF_flag, frames>>

\* One interrupt being dispatched: where irq_dispatch is, the bits it has set in
\* service and not yet ended (no variable of the code), and the interrupt flag its
\* iret restores.
Frame == [irq : Irq, at : {"dispatch", "handler", "eoi"}, bits : SUBSET Irq, saved : BOOLEAN]

IrqInit ==
  /\ irr = {} /\ isr = {} /\ imr = {}
  /\ irq_handlers = {}
  /\ boot = "remap"
  /\ IF_flag = FALSE
  /\ frames = <<>>
-----------------------------------------------------------------------------
(* The controllers.                                                        *)

\* The master's input a request comes through.
Pin(i) == IF i \in Slave THEN CASCADE ELSE i

Open(i) == i \notin imr /\ Pin(i) \notin imr

\* i goes before every other open request and before what is in service.
Wins(i) ==
  /\ \A j \in isr \ Slave : Pin(i) < j
  /\ \A k \in irr : Open(k) /\ k # i =>
       Pin(i) < Pin(k) \/ (Pin(i) = Pin(k) /\ i < k)

\* What an end of interrupt clears: the first bit in service.
Ended(s) == {i \in s : \A j \in s : i <= j}
EndMaster(s) == s \ Ended(s \ Slave)
EndSlave(s)  == s \ Ended(s \cap Slave)

\* A device raises its request; a masked one is remembered too.
Raise(i) ==
  /\ boot # "remap"
  /\ i \notin irr
  /\ irr' = irr \cup {i}
  /\ UNCHANGED <<isr, imr, irq_handlers, boot, IF_flag, frames>>

\* An interrupt gate (0x8E) turns interrupts off.
GateFlag == FALSE

Enter(i, b) ==
  /\ frames' = <<[irq |-> i, at |-> "dispatch", bits |-> b, saved |-> IF_flag]>> \o frames
  /\ IF_flag' = GateFlag

\* The processor acknowledges the request that wins.
Accept(i) ==
  /\ IF_flag
  /\ i \in irr /\ Open(i) /\ Wins(i)
  /\ irr' = irr \ {i}
  /\ isr' = isr \cup {i, Pin(i)}
  /\ Enter(i, {i, Pin(i)})
  /\ UNCHANGED <<imr, irq_handlers, boot>>

\* A request that is gone when it is acknowledged: the master answers with its
\* request 7 and puts nothing in service; the slave answers with its own last
\* one, after the master has put the cascade in service.
SpuriousMaster ==
  /\ IF_flag /\ 7 \notin isr
  /\ Enter(7, {})
  /\ UNCHANGED <<picVars, irq_handlers, boot>>

SpuriousSlave ==
  /\ IF_flag /\ CASCADE \notin imr
  /\ \A j \in isr \ Slave : CASCADE < j
  /\ isr' = isr \cup {CASCADE}
  /\ Enter(15, {CASCADE})
  /\ UNCHANGED <<irr, imr, irq_handlers, boot>>
-----------------------------------------------------------------------------
(* irq_dispatch.                                                           *)

Top       == frames[1]
In(phase) == frames # <<>> /\ Top.at = phase
Goto(phase) == frames' = [frames EXCEPT ![1].at = phase]

\* The stub's iret.
Return == frames' = Tail(frames) /\ IF_flag' = Top.saved

Spurious == Top.irq \in {7, 15} /\ Top.irq \notin isr

\* Faulty: a spurious request of the slave is not ended at the master.
ReturnAtOnce ==
  /\ In("dispatch") /\ Spurious
  /\ Return
  /\ UNCHANGED <<picVars, irq_handlers, boot>>

\* A spurious request is left alone, but for the master's end of interrupt.
DispatchSpurious ==
  /\ In("dispatch") /\ Spurious
  /\ isr' = IF Top.irq = 15 THEN EndMaster(isr) ELSE isr
  /\ Return
  /\ UNCHANGED <<irr, imr, irq_handlers, boot>>

\* The handler is called if there is one.
DispatchGenuine ==
  /\ In("dispatch") /\ ~Spurious
  /\ Goto(IF Top.irq \in irq_handlers THEN "handler" ELSE "eoi")
  /\ UNCHANGED <<picVars, irq_handlers, boot, IF_flag>>

\* The handler for i runs to its end, which for some is an end of interrupt.
HandlerReturns(i) ==
  /\ In("handler") /\ Top.irq = i
  /\ isr' = IF i \in SelfEnding THEN EndMaster(isr) ELSE isr
  /\ frames' = [frames EXCEPT ![1] =
                  [Top EXCEPT !.at = "eoi",
                              !.bits = IF i \in SelfEnding THEN {} ELSE Top.bits]]
  /\ UNCHANGED <<irr, imr, irq_handlers, boot, IF_flag>>

\* pic_send_eoi(irq), and the return.
pic_send_eoi ==
  /\ In("eoi")
  /\ isr' = EndMaster(IF Top.irq \in Slave THEN EndSlave(isr) ELSE isr)
  /\ Return
  /\ UNCHANGED <<irr, imr, irq_handlers, boot>>

Dispatch == DispatchSpurious \/ DispatchGenuine \/ pic_send_eoi
-----------------------------------------------------------------------------
(* The start of the kernel, and its interrupt flag afterwards.             *)

Foreground == frames = <<>>

\* remap, called by init_ints: both controllers start anew, and everything is
\* masked.
remap ==
  /\ boot = "remap"
  /\ irr' = {} /\ isr' = {} /\ imr' = Irq
  /\ boot' = "register"
  /\ UNCHANGED <<irq_handlers, IF_flag, frames>>

irq_register_handler(i) ==
  /\ boot = "register"
  /\ i \notin irq_handlers
  /\ irq_handlers' = irq_handlers \cup {i}
  /\ UNCHANGED <<picVars, boot, IF_flag, frames>>

\* Faulty: interrupts and masks are opened before the handlers are there.
IntsOnEarly ==
  /\ boot = "register"
  /\ boot' = "unmask" /\ IF_flag' = TRUE
  /\ UNCHANGED <<picVars, irq_handlers, frames>>

asm_ints_on ==
  /\ boot = "register" /\ irq_handlers = Registered
  /\ boot' = "unmask" /\ IF_flag' = TRUE
  /\ UNCHANGED <<picVars, irq_handlers, frames>>

\* unmask_kb and clear_mask read a mask register, clear a bit and write it back.
clear_mask(i) ==
  /\ boot = "unmask" /\ Foreground
  /\ i \in Opened \cap imr
  /\ imr' = imr \ {i}
  /\ UNCHANGED <<irr, isr, irq_handlers, boot, IF_flag, frames>>

\* The sti and the cli of the kernel's loop, once everything is open.
Running == boot = "unmask" /\ Opened \cap imr = {} /\ Foreground

sti == /\ Running /\ ~IF_flag
       /\ IF_flag' = TRUE
       /\ UNCHANGED <<picVars, irq_handlers, boot, frames>>

cli == /\ Running /\ IF_flag
       /\ IF_flag' = FALSE
       /\ UNCHANGED <<picVars, irq_handlers, boot, frames>>

Start == \/ remap \/ asm_ints_on \/ sti
         \/ \E i \in Registered : irq_register_handler(i)
         \/ \E i \in Opened : clear_mask(i)

IrqNext ==
  \/ Start \/ cli
  \/ \E i \in Registered : Raise(i) \/ Accept(i) \/ HandlerReturns(i)
  \/ SpuriousMaster \/ SpuriousSlave
  \/ Dispatch

IrqSpec == IrqInit /\ [][IrqNext]_irqVars
-----------------------------------------------------------------------------
(* Properties.                                                             *)

\* Types of the variables.
IrqTypeOK ==
  /\ irr \subseteq Irq /\ isr \subseteq Irq /\ imr \subseteq Irq
  /\ irq_handlers \subseteq Registered
  /\ boot \in {"remap", "register", "unmask"}
  /\ IF_flag \in BOOLEAN
  /\ frames \in Seq(Frame)

\* What the controllers hold in service is what is being dispatched and has not
\* been ended: the end of interrupt the keyboard handler sends and the one the
\* dispatcher sends after it never end another interrupt, and no spurious request
\* leaves the cascade in service (interrupts.c:83-87 and 189-210, keyboard.c:284).
ServiceIsDispatch == isr = UNION {frames[n].bits : n \in DOMAIN frames}

\* No interrupt finds irq_handlers empty: kernel.c:222-236 registers the handlers
\* before it unmasks their requests (interrupts.c:202-208).
NoneUnhandled ==
  \A n \in DOMAIN frames :
    frames[n].at = "eoi" => frames[n].irq \in irq_handlers
=============================================================================
