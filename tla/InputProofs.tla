----------------------------- MODULE InputProofs -----------------------------
(***************************************************************************)
(* For every set of requests and every keyboard: interrupts never nest, so *)
(* the controllers hold in service just what is being dispatched; every    *)
(* request that is dispatched has its handler; a byte of the keyboard      *)
(* never waits in the output buffer without a request; and the codes on    *)
(* their way lead the decoder to a state that matches the keys.            *)
(***************************************************************************)
EXTENDS KeyboardInput, SequenceTheorems, TLAPS

\* What one interrupt being dispatched may have left in service.
FrameOK(f) ==
  \/ f.irq \in Registered /\ f.bits = {f.irq, Pin(f.irq)}
  \/ f.irq \in Registered /\ f.at = "eoi" /\ f.bits = {}
  \/ f.at = "dispatch" /\ f.irq = 7 /\ f.bits = {}
  \/ f.at = "dispatch" /\ f.irq = 15 /\ f.bits = {CASCADE}

\* At most one interrupt is dispatched at a time, with interrupts off.
OneFrame ==
  \/ frames = <<>> /\ isr = {}
  \/ \E f \in Frame : frames = <<f>> /\ FrameOK(f) /\ isr = f.bits /\ IF_flag = FALSE

\* Before the masks are opened nothing is dispatched; afterwards every handler is there.
BootOK ==
  /\ boot # "unmask" => IF_flag = FALSE /\ frames = <<>>
  /\ boot = "unmask" => irq_handlers = Registered

IrqInv == IrqTypeOK /\ OneFrame /\ BootOK

Now(f) == frames = <<f>> /\ f \in Frame /\ FrameOK(f) /\ isr = f.bits /\ IF_flag = FALSE
-----------------------------------------------------------------------------
(* The frame at the top, and what becomes of it.                           *)

\* A sequence of one frame: its head, and what is left without it.
LEMMA OneOf ==
  ASSUME NEW f \in Frame
  PROVE  /\ <<f>> \in Seq(Frame) /\ <<f>> # <<>>
         /\ <<f>>[1] = f /\ Tail(<<f>>) = <<>> /\ DOMAIN <<f>> = {1}
  BY DEF Frame

\* An interrupt that is being dispatched is the only one.
LEMMA Dispatching ==
  ASSUME IrqInv, frames # <<>>
  PROVE  Now(Top) /\ boot = "unmask" /\ irq_handlers = Registered
<1>1. PICK f \in Frame : frames = <<f>> /\ FrameOK(f) /\ isr = f.bits /\ IF_flag = FALSE
  BY DEF IrqInv, OneFrame
<1>2. Top = f
  BY <1>1, OneOf DEF Top
<1> QED
  BY <1>1, <1>2 DEF Now, IrqInv, BootOK

\* Whoever has interrupts on is not in an interrupt.
LEMMA OnMeansForeground ==
  ASSUME IrqInv, IF_flag
  PROVE  frames = <<>> /\ isr = {} /\ boot = "unmask" /\ irq_handlers = Registered
  BY DEF IrqInv, OneFrame, BootOK, IrqTypeOK
-----------------------------------------------------------------------------
(* The steps of an interrupt.                                              *)

\* What entering an interrupt leaves.
LEMMA Entered ==
  ASSUME IrqInv, IF_flag, NEW i \in Irq, NEW b \in SUBSET Irq,
         Enter(i, b), isr' = b,
         FrameOK([irq |-> i, at |-> "dispatch", bits |-> b, saved |-> IF_flag]),
         irr' \in SUBSET Irq, UNCHANGED <<imr, irq_handlers, boot>>
  PROVE  IrqInv'
<1> DEFINE f == [irq |-> i, at |-> "dispatch", bits |-> b, saved |-> IF_flag]
<1>1. frames = <<>> /\ boot = "unmask" /\ irq_handlers = Registered
  BY OnMeansForeground
<1>2. f \in Frame
  BY DEF Frame, IrqInv, IrqTypeOK
<1>3. frames' = <<f>> /\ IF_flag' = FALSE
  BY <1>1 DEF Enter, GateFlag
<1>4. frames' \in Seq(Frame)
  BY <1>2, <1>3, OneOf
<1>5. IrqTypeOK'
  BY <1>1, <1>3, <1>4 DEF IrqInv, IrqTypeOK
<1>6. OneFrame'
  BY <1>2, <1>3 DEF OneFrame, FrameOK
<1>7. BootOK'
  BY <1>1 DEF BootOK
<1> QED
  BY <1>5, <1>6, <1>7 DEF IrqInv

\* What the return from an interrupt leaves, when everything has been ended.
LEMMA Returned ==
  ASSUME IrqInv, frames # <<>>, Return, isr' = {}, UNCHANGED <<irr, imr, irq_handlers, boot>>
  PROVE  IrqInv' /\ frames' = <<>>
<1>1. Now(Top) /\ boot = "unmask" /\ irq_handlers = Registered
  BY Dispatching
<1>2. frames' = <<>> /\ IF_flag' \in BOOLEAN
  BY <1>1, OneOf DEF Return, Now, Frame
<1>3. IrqTypeOK'
  BY <1>1, <1>2 DEF IrqInv, IrqTypeOK
<1>4. OneFrame' /\ BootOK'
  BY <1>1, <1>2 DEF OneFrame, BootOK
<1> QED
  BY <1>2, <1>3, <1>4 DEF IrqInv

\* What a step within an interrupt leaves, with the frame it leaves.
LEMMA Within ==
  ASSUME IrqInv, frames # <<>>, NEW g \in Frame, frames' = <<g>>, FrameOK(g), isr' = g.bits,
         UNCHANGED <<irr, imr, irq_handlers, boot, IF_flag>>
  PROVE  IrqInv'
<1>1. Now(Top) /\ boot = "unmask" /\ irq_handlers = Registered
  BY Dispatching
<1>2. frames' \in Seq(Frame) /\ isr' \subseteq Irq
  BY OneOf DEF Frame
<1>3. IrqTypeOK'
  BY <1>1, <1>2 DEF IrqInv, IrqTypeOK
<1>4. OneFrame'
  BY <1>1 DEF OneFrame, FrameOK, Now
<1>5. BootOK'
  BY <1>1 DEF BootOK
<1> QED
  BY <1>3, <1>4, <1>5 DEF IrqInv

\* An end of interrupt for the one interrupt in service clears its bits.
LEMMA EndsOwn ==
  ASSUME NEW i \in Registered
  PROVE  /\ EndMaster({}) = {} /\ EndMaster({CASCADE}) = {}
         /\ i \in Slave => EndSlave({i, Pin(i)}) = {CASCADE}
         /\ i \notin Slave => EndMaster({i, Pin(i)}) = {}
         /\ EndSlave({}) = {}
<1>1. i \in Irq /\ i # CASCADE /\ Slave = 8 .. 15 /\ CASCADE = 2
  BY InterruptsAssumption DEF Slave, CASCADE
<1>2. EndMaster({}) = {} /\ EndSlave({}) = {}
  BY DEF EndMaster, EndSlave, Ended
<1>3. EndMaster({CASCADE}) = {}
  BY <1>1 DEF EndMaster, Ended
<1>4. i \in Slave => EndSlave({i, Pin(i)}) = {CASCADE}
  <2> SUFFICES ASSUME i \in Slave PROVE EndSlave({i, CASCADE}) = {CASCADE}
    BY DEF Pin
  <2>1. {i, CASCADE} \cap Slave = {i} /\ i \in Int
    <3>1. CASCADE \notin Slave /\ i \in Slave /\ i \in Int
      BY <1>1
    <3> QED
      BY <3>1
  <2>2. Ended({i}) = {i}
    BY <2>1 DEF Ended
  <2> QED
    BY <1>1, <2>1, <2>2 DEF EndSlave
<1>5. i \notin Slave => EndMaster({i, Pin(i)}) = {}
  BY <1>1 DEF EndMaster, Ended, Pin, Irq, IRQ_COUNT
<1> QED
  BY <1>2, <1>3, <1>4, <1>5
-----------------------------------------------------------------------------
(* Every step keeps the invariant.                                         *)

LEMMA AcceptKeeps ==
  ASSUME IrqInv, NEW i \in Registered, Accept(i)
  PROVE  IrqInv'
<1>1. IF_flag /\ i \in Irq /\ {i, Pin(i)} \in SUBSET Irq
  BY InterruptsAssumption DEF Accept, Pin, Irq, Slave, CASCADE, IRQ_COUNT
<1>2. isr' = {i, Pin(i)} /\ irr' \in SUBSET Irq
  BY <1>1, OnMeansForeground DEF Accept, IrqInv, IrqTypeOK
<1>3. FrameOK([irq |-> i, at |-> "dispatch", bits |-> {i, Pin(i)}, saved |-> IF_flag])
  BY DEF FrameOK
<1> QED
  BY <1>1, <1>2, <1>3, Entered DEF Accept

LEMMA SpuriousKeeps ==
  ASSUME IrqInv, SpuriousMaster \/ SpuriousSlave
  PROVE  IrqInv'
<1>1. isr = {} /\ irr \in SUBSET Irq
  BY OnMeansForeground DEF SpuriousMaster, SpuriousSlave, IrqInv, IrqTypeOK
<1>2. 7 \in Irq /\ 15 \in Irq /\ {} \in SUBSET Irq /\ {CASCADE} \in SUBSET Irq
  BY DEF Irq, IRQ_COUNT, CASCADE
<1>3. CASE SpuriousMaster
  <2>1. FrameOK([irq |-> 7, at |-> "dispatch", bits |-> {}, saved |-> IF_flag])
    BY DEF FrameOK
  <2> QED
    BY <1>1, <1>2, <1>3, <2>1, Entered DEF SpuriousMaster, picVars
<1>4. CASE SpuriousSlave
  <2>1. FrameOK([irq |-> 15, at |-> "dispatch", bits |-> {CASCADE}, saved |-> IF_flag])
    BY DEF FrameOK
  <2>2. isr' = {CASCADE}
    BY <1>1, <1>4 DEF SpuriousSlave
  <2> QED
    BY <1>1, <1>2, <1>4, <2>1, <2>2, Entered DEF SpuriousSlave
<1> QED
  BY <1>3, <1>4

\* irq_dispatch: a spurious request is one whose frame says so.
LEMMA DispatchKeeps ==
  ASSUME IrqInv, DispatchSpurious \/ DispatchGenuine
  PROVE  IrqInv'
<1>1. frames # <<>> /\ Now(Top) /\ Top.at = "dispatch" /\ irq_handlers = Registered
  BY Dispatching DEF DispatchSpurious, DispatchGenuine, In
<1>2. PICK f \in Frame : f = Top
  BY <1>1 DEF Now
<1>3. f.irq \in Irq /\ Pin(f.irq) = IF f.irq \in 8 .. 15 THEN 2 ELSE f.irq
  BY DEF Frame, Pin, Slave, CASCADE
<1>4. CASE DispatchSpurious
  <2>1. f.irq \in {7, 15} /\ f.irq \notin f.bits
    BY <1>1, <1>2, <1>4 DEF DispatchSpurious, Spurious, Now
  <2>2. f.at = "dispatch" /\ FrameOK(f)
    BY <1>1, <1>2 DEF Now
  <2>3. (f.irq = 7 /\ f.bits = {}) \/ (f.irq = 15 /\ f.bits = {CASCADE})
    <3>1. f.bits # {f.irq, Pin(f.irq)} /\ f.at # "eoi"
      BY <2>1, <2>2
    <3>2. \/ f.at = "dispatch" /\ f.irq = 7 /\ f.bits = {}
          \/ f.at = "dispatch" /\ f.irq = 15 /\ f.bits = {CASCADE}
      BY <2>2, <3>1, Zenon DEF FrameOK
    <3> QED
      BY <3>2
  <2>4. EndMaster({CASCADE}) = {} /\ EndMaster({}) = {}
    BY EndsOwn, KeyboardInputAssumption
  <2>5. isr' = {}
    BY <1>1, <1>2, <1>4, <2>3, <2>4 DEF DispatchSpurious, Now
  <2> QED
    BY <1>1, <1>4, <2>5, Returned DEF DispatchSpurious
<1>5. CASE DispatchGenuine
  <2>1. ~(f.irq \in {7, 15} /\ f.irq \notin f.bits)
    BY <1>1, <1>2, <1>5 DEF DispatchGenuine, Spurious, Now
  <2>2. f.at = "dispatch" /\ FrameOK(f)
    BY <1>1, <1>2 DEF Now
  <2>3. f.irq \in Registered /\ f.bits = {f.irq, Pin(f.irq)}
    BY <2>1, <2>2 DEF FrameOK, CASCADE
  <2> DEFINE g == [f EXCEPT !.at = "handler"]
  <2>4. g \in Frame /\ FrameOK(g) /\ g.bits = f.bits
    BY <2>3 DEF Frame, FrameOK
  <2>5. frames = <<f>> /\ frames' = [frames EXCEPT ![1].at = "handler"]
    BY <1>1, <1>2, <1>5, <2>3 DEF DispatchGenuine, Goto, Now
  <2>6. frames' = <<g>>
    BY <2>5
  <2> HIDE DEF g
  <2> QED
    BY <1>1, <1>2, <1>5, <2>4, <2>6, Within DEF DispatchGenuine, Now, picVars
<1> QED
  BY <1>4, <1>5

LEMMA HandlerKeeps ==
  ASSUME IrqInv, NEW i \in Registered, HandlerReturns(i)
  PROVE  IrqInv'
<1>1. frames # <<>> /\ Now(Top) /\ Top.at = "handler" /\ Top.irq = i
  BY Dispatching DEF HandlerReturns, In
<1>2. PICK f \in Frame : f = Top
  BY <1>1 DEF Now
<1>3. f.bits = {i, Pin(i)} /\ isr = {i, Pin(i)} /\ frames = <<f>>
  BY <1>1, <1>2 DEF Now, FrameOK
<1> DEFINE g == [f EXCEPT !.at = "eoi", !.bits = IF i \in SelfEnding THEN {} ELSE f.bits]
<1>4. g \in Frame /\ FrameOK(g) /\ g.bits = IF i \in SelfEnding THEN {} ELSE f.bits
  BY <1>1, <1>2, <1>3 DEF Frame, FrameOK
<1>5. frames' = [frames EXCEPT ![1] = g]
  BY <1>2, <1>3 DEF HandlerReturns
<1>6. frames' = <<g>>
  BY <1>3, <1>5
<1>7. isr' = g.bits
  <2>1. CASE i \in SelfEnding
    <3>1. i \notin Slave
      BY <2>1, InterruptsAssumption
    <3> QED
      BY <1>3, <1>4, <2>1, <3>1, EndsOwn DEF HandlerReturns
  <2>2. CASE i \notin SelfEnding
    BY <1>3, <1>4, <2>2 DEF HandlerReturns
  <2> QED
    BY <2>1, <2>2
<1> HIDE DEF g
<1> QED
  BY <1>1, <1>4, <1>6, <1>7, Within DEF HandlerReturns

LEMMA EoiKeeps ==
  ASSUME IrqInv, pic_send_eoi
  PROVE  IrqInv' /\ frames' = <<>>
<1>1. frames # <<>> /\ Now(Top) /\ Top.at = "eoi"
  BY Dispatching DEF pic_send_eoi, In
<1>2. PICK f \in Frame : f = Top
  BY <1>1 DEF Now
<1>3. f.irq \in Registered /\ isr = f.bits /\ (f.bits = {} \/ f.bits = {f.irq, Pin(f.irq)})
  BY <1>1, <1>2 DEF Now, FrameOK
<1>4. isr' = EndMaster(IF f.irq \in Slave THEN EndSlave(isr) ELSE isr)
  BY <1>2 DEF pic_send_eoi
<1>5. isr' = {}
  BY <1>3, <1>4, EndsOwn
<1> QED
  BY <1>1, <1>5, Returned DEF pic_send_eoi

\* Nothing is in service when nothing is dispatched.
LEMMA NothingInService ==
  ASSUME IrqInv, frames = <<>>
  PROVE  isr = {}
<1>1. \A f \in Frame : frames # <<f>>
  BY OneOf
<1> QED
  BY <1>1 DEF IrqInv, OneFrame

\* The start of the kernel, the devices, and the kernel's loop touch no interrupt.
LEMMA OutsideKeeps ==
  ASSUME IrqInv,
         \/ Start \/ cli
         \/ \E i \in Registered : Raise(i)
         \/ /\ irr' = irr \cup {1}
            /\ UNCHANGED <<isr, imr, irq_handlers, boot, IF_flag, frames>>
         \/ UNCHANGED irqVars
  PROVE  IrqInv'
<1>1. CASE remap
  BY <1>1 DEF remap, IrqInv, IrqTypeOK, OneFrame, BootOK
<1>2. CASE asm_ints_on
  <2>1. frames = <<>> /\ isr = {}
    BY <1>2, NothingInService DEF asm_ints_on, IrqInv, BootOK
  <2>2. OneFrame'
    BY <1>2, <2>1 DEF asm_ints_on, picVars, OneFrame
  <2>3. IrqTypeOK'
    BY <1>2 DEF asm_ints_on, picVars, IrqInv, IrqTypeOK
  <2>4. BootOK'
    BY <1>2 DEF asm_ints_on, BootOK
  <2> QED
    BY <2>2, <2>3, <2>4 DEF IrqInv
<1>3. CASE sti \/ cli
  <2>1. frames = <<>> /\ isr = {} /\ boot = "unmask"
    BY <1>3, NothingInService DEF sti, cli, Running, Foreground
  <2>2. /\ UNCHANGED <<irr, isr, imr, irq_handlers, boot, frames>>
        /\ IF_flag' \in BOOLEAN
    BY <1>3 DEF sti, cli, picVars
  <2>3. OneFrame'
    BY <2>1, <2>2 DEF OneFrame
  <2>4. IrqTypeOK' /\ BootOK'
    BY <2>1, <2>2 DEF IrqInv, IrqTypeOK, BootOK
  <2> QED
    BY <2>3, <2>4 DEF IrqInv
<1> USE DEF IrqInv, IrqTypeOK, OneFrame, BootOK, FrameOK
<1>4. CASE \E i \in Registered : irq_register_handler(i)
  BY <1>4 DEF irq_register_handler, picVars
<1>5. CASE \E i \in Opened : clear_mask(i)
  BY <1>5 DEF clear_mask
<1>6. CASE \E i \in Registered : Raise(i)
  BY <1>6, InterruptsAssumption DEF Raise
<1>7. CASE irr' = irr \cup {1} /\ UNCHANGED <<isr, imr, irq_handlers, boot, IF_flag, frames>>
  BY <1>7 DEF Irq, IRQ_COUNT
<1>8. CASE UNCHANGED irqVars
  BY <1>8 DEF irqVars, picVars
<1> QED
  BY <1>1, <1>2, <1>3, <1>4, <1>5, <1>6, <1>7, <1>8 DEF Start

LEMMA StepKeeps ==
  ASSUME IrqInv, [IrqNext]_irqVars
  PROVE  IrqInv'
BY AcceptKeeps, SpuriousKeeps, DispatchKeeps, HandlerKeeps, EoiKeeps, OutsideKeeps
   DEF IrqNext, Dispatch

LEMMA InitHolds == IrqInit => IrqInv
<1>1. <<>> \in Seq(Frame)
  OBVIOUS
<1>2. IrqInit => IrqTypeOK
  BY <1>1 DEF IrqInit, IrqTypeOK
<1>3. IrqInit => OneFrame /\ BootOK
  BY DEF IrqInit, OneFrame, BootOK
<1> QED
  BY <1>2, <1>3 DEF IrqInv

LEMMA InvImplies == IrqInv => IrqTypeOK /\ ServiceIsDispatch /\ NoneUnhandled
<1> SUFFICES ASSUME IrqInv PROVE ServiceIsDispatch /\ NoneUnhandled
  BY DEF IrqInv
<1>1. CASE frames = <<>>
  BY <1>1 DEF IrqInv, OneFrame, ServiceIsDispatch, NoneUnhandled
<1>2. CASE frames # <<>>
  <2>1. Now(Top) /\ irq_handlers = Registered
    BY <1>2, Dispatching
  <2>2. PICK f \in Frame : f = Top
    BY <2>1 DEF Now
  <2>3. frames = <<f>> /\ FrameOK(f) /\ isr = f.bits
    BY <2>1, <2>2 DEF Now
  <2>4. DOMAIN frames = {1} /\ frames[1] = f
    BY <2>3
  <2>5. ServiceIsDispatch
    BY <2>3, <2>4 DEF ServiceIsDispatch
  <2>6. NoneUnhandled
    BY <2>1, <2>3, <2>4 DEF NoneUnhandled, FrameOK
  <2> QED
    BY <2>5, <2>6
<1> QED
  BY <1>1, <1>2
-----------------------------------------------------------------------------
\* Whatever requests there are and whatever is opened, the variables keep their types.
THEOREM InterruptTypes == IrqSpec => []IrqTypeOK
<1>1. IrqInv /\ [IrqNext]_irqVars => IrqInv'
  BY StepKeeps
<1> QED
  BY <1>1, InitHolds, InvImplies, PTL DEF IrqSpec

\* Whatever requests there are, which of them have handlers that end the interrupt
\* themselves, and whatever is spurious, each end of interrupt ends the interrupt that
\* is being dispatched or nothing (interrupts.c:181-211, keyboard.c:284).
THEOREM OneServiceAtATime == IrqSpec => []ServiceIsDispatch
<1>1. IrqInv /\ [IrqNext]_irqVars => IrqInv'
  BY StepKeeps
<1> QED
  BY <1>1, InitHolds, InvImplies, PTL DEF IrqSpec

\* No interrupt comes before its handler is registered (kernel.c:220-236,
\* interrupts.c:202-208).
THEOREM HandlersAreThere == IrqSpec => []NoneUnhandled
<1>1. IrqInv /\ [IrqNext]_irqVars => IrqInv'
  BY StepKeeps
<1> QED
  BY <1>1, InitHolds, InvImplies, PTL DEF IrqSpec
-----------------------------------------------------------------------------
(* The bytes of the keyboard.                                              *)

Asked == 1 \in irr \/ (frames # <<>> /\ Top.irq = 1 /\ Top.at # "eoi")
Silent == wire = <<>> /\ obf = <<>> /\ held = {}

\* Nothing comes from the keyboard before remap.
ByteInv ==
  /\ IrqInv
  /\ obf # <<>> => Asked
  /\ boot = "remap" => Silent

LEMMA ByteInvImplies == ByteInv => ByteHasRequest /\ ServiceIsDispatch
<1> SUFFICES ASSUME ByteInv PROVE ByteHasRequest
  BY InvImplies DEF ByteInv
<1>1. CASE frames = <<>>
  BY <1>1 DEF ByteInv, ByteHasRequest, Asked
<1>2. CASE frames # <<>>
  <2>1. PICK f \in Frame : f = Top /\ frames = <<f>>
    BY <1>2, Dispatching DEF Now, ByteInv
  <2>2. DOMAIN frames = {1} /\ frames[1] = f
    BY <2>1
  <2> QED
    BY <2>1, <2>2 DEF ByteInv, ByteHasRequest, Asked
<1> QED
  BY <1>1, <1>2

\* A step that leaves the byte alone has to leave its request, before remap too.
LEMMA ByteStays ==
  ASSUME ByteInv, IrqInv', Asked => Asked', UNCHANGED deviceVars,
         boot' = "remap" => boot = "remap"
  PROVE  ByteInv'
BY DEF ByteInv, Silent, deviceVars

\* The request for a byte stays latched until it is accepted, and an interrupt that is
\* accepted finds nothing being dispatched.
LEMMA AcceptStays ==
  ASSUME ByteInv, UNCHANGED deviceVars,
         (\E i \in Registered : Accept(i)) \/ SpuriousMaster \/ SpuriousSlave
  PROVE  ByteInv'
<1>1. IrqInv'
  BY AcceptKeeps, SpuriousKeeps DEF ByteInv
<1>2. frames = <<>> /\ boot = "unmask"
  BY OnMeansForeground DEF ByteInv, Accept, SpuriousMaster, SpuriousSlave
<1>3. boot' = "unmask"
  BY <1>2 DEF Accept, SpuriousMaster, SpuriousSlave
<1>4. ASSUME Asked PROVE Asked'
  <2>1. 1 \in irr
    BY <1>2, <1>4 DEF Asked
  <2>2. CASE SpuriousMaster \/ SpuriousSlave
    BY <2>1, <2>2 DEF SpuriousMaster, SpuriousSlave, picVars, Asked
  <2>3. CASE \E i \in Registered \ {1} : Accept(i)
    BY <2>1, <2>3 DEF Accept, Asked
  <2>4. CASE Accept(1)
    <3> DEFINE f == [irq |-> 1, at |-> "dispatch", bits |-> {1, Pin(1)}, saved |-> IF_flag]
    <3>1. frames' = <<f>>
      BY <1>2, <2>4 DEF Accept, Enter
    <3>2. frames' # <<>> /\ frames'[1] = f
      BY <3>1
    <3>3. f.irq = 1 /\ f.at # "eoi"
      OBVIOUS
    <3> QED
      BY <3>2, <3>3 DEF Asked, Top
  <2> QED
    BY <2>2, <2>3, <2>4
<1> QED
  BY <1>1, <1>2, <1>3, <1>4, ByteStays

\* The handler the request of a byte is dispatched to is there.
LEMMA DispatchStays ==
  ASSUME ByteInv, UNCHANGED deviceVars, Dispatch
  PROVE  ByteInv'
<1>1. IrqInv'
  BY DispatchKeeps, EoiKeeps DEF ByteInv, Dispatch
<1>2. frames # <<>> /\ boot' = boot
  BY DEF Dispatch, DispatchSpurious, DispatchGenuine, pic_send_eoi, In
<1>3. boot' = "unmask" /\ irq_handlers = Registered
  BY <1>2, Dispatching DEF ByteInv
<1>4. PICK f \in Frame : f = Top /\ frames = <<f>>
  BY <1>2, Dispatching DEF Now, ByteInv
<1>5. irr' = irr
  BY DEF Dispatch, DispatchSpurious, DispatchGenuine, pic_send_eoi, picVars
<1>6. ASSUME Asked PROVE Asked'
  <2>1. CASE 1 \in irr
    BY <1>5, <2>1 DEF Asked
  <2>2. CASE f.irq = 1 /\ f.at # "eoi"
    <3>1. DispatchGenuine
      BY <1>4, <2>2 DEF Dispatch, DispatchSpurious, Spurious, pic_send_eoi, In
    <3>2. frames' = [frames EXCEPT ![1].at = "handler"]
      BY <1>3, <1>4, <2>2, <3>1, KeyboardInputAssumption DEF DispatchGenuine, Goto
    <3>3. frames' = <<[f EXCEPT !.at = "handler"]>>
      BY <1>4, <3>2
    <3>4. frames' # <<>> /\ frames'[1].irq = 1 /\ frames'[1].at = "handler"
      BY <2>2, <3>3 DEF Frame
    <3> QED
      BY <3>4 DEF Asked, Top
  <2> QED
    BY <1>4, <1>6, <2>1, <2>2 DEF Asked
<1> QED
  BY <1>1, <1>3, <1>6, ByteStays

\* The other handlers leave the keyboard's request alone.
LEMMA OthersStay ==
  ASSUME ByteInv, UNCHANGED deviceVars, NEW i \in Registered \ {1}, HandlerReturns(i)
  PROVE  ByteInv'
<1>1. IrqInv' /\ frames # <<>> /\ Top.irq # 1
  BY HandlerKeeps DEF ByteInv, HandlerReturns, In
<1>2. boot' = boot /\ boot = "unmask" /\ irr' = irr
  BY <1>1, Dispatching DEF HandlerReturns, ByteInv
<1>3. Asked => Asked'
  BY <1>1, <1>2 DEF Asked
<1> QED
  BY <1>1, <1>2, <1>3, ByteStays

\* The start of the kernel, its loop and the other devices.
LEMMA StartStays ==
  ASSUME ByteInv, UNCHANGED deviceVars, Start \/ cli \/ (\E i \in Registered : Raise(i))
  PROVE  ByteInv'
<1>1. IrqInv'
  BY OutsideKeeps DEF ByteInv
<1>2. CASE remap
  BY <1>1, <1>2 DEF remap, ByteInv, Silent, deviceVars
<1>3. CASE ~remap
  <2>1. irr \subseteq irr' /\ frames' = frames /\ (boot' = "remap" => boot = "remap")
    BY <1>3 DEF Start, cli, sti, Raise, asm_ints_on, irq_register_handler, clear_mask, picVars
  <2>2. Asked => Asked'
    BY <2>1 DEF Asked, Top
  <2> QED
    BY <1>1, <2>1, <2>2, ByteStays
<1> QED
  BY <1>2, <1>3

\* The handler empties the output buffer.
LEMMA HandlerReads ==
  ASSUME ByteInv, KeyboardHandler
  PROVE  ByteInv'
<1>1. IrqInv' /\ frames # <<>>
  BY HandlerKeeps, KeyboardInputAssumption DEF ByteInv, KeyboardHandler, HandlerReturns, In
<1>2. boot' = "unmask"
  BY <1>1, Dispatching DEF ByteInv, KeyboardHandler, HandlerReturns
<1>3. obf' = <<>>
  BY DEF KeyboardHandler, deviceVars
<1> QED
  BY <1>1, <1>2, <1>3 DEF ByteInv

\* The user, and the keyboard with its next byte.
LEMMA DevicesKeep ==
  ASSUME ByteInv, Fill \/ (\E k \in Key : Press(k) \/ Repeat(k) \/ Release(k))
  PROVE  ByteInv'
<1>1. CASE Fill
  <2>1. IrqInv' /\ boot' = boot /\ boot # "remap" /\ 1 \in irr'
    BY <1>1, OutsideKeeps DEF Fill, ByteInv, Silent
  <2> QED
    BY <2>1 DEF ByteInv, Asked
<1>2. CASE \E k \in Key : Press(k) \/ Repeat(k) \/ Release(k)
  <2>1. UNCHANGED irqVars /\ obf' = obf /\ boot # "remap"
    BY <1>2 DEF Press, Repeat, Release, Send, ByteInv, Silent
  <2>2. irr' = irr /\ frames' = frames /\ boot' = boot
    BY <2>1 DEF irqVars, picVars
  <2>3. IrqInv'
    BY <2>1, OutsideKeeps DEF ByteInv
  <2> QED
    BY <2>1, <2>2, <2>3 DEF ByteInv, Asked, Top
<1> QED
  BY <1>1, <1>2

LEMMA ByteKept ==
  ASSUME ByteInv, [InputNext]_inputVars
  PROVE  ByteInv'
<1>1. CASE UNCHANGED inputVars
  <2>1. UNCHANGED irqVars /\ UNCHANGED deviceVars
    BY <1>1 DEF inputVars
  <2>2. irr' = irr /\ frames' = frames /\ boot' = boot
    BY <2>1 DEF irqVars, picVars
  <2>3. IrqInv'
    BY <2>1, OutsideKeeps DEF ByteInv
  <2> QED
    BY <2>1, <2>2, <2>3, ByteStays DEF Asked, Top
<1>2. CASE Elsewhere
  BY <1>2, AcceptStays, DispatchStays, OthersStay, StartStays DEF Elsewhere
<1>3. CASE KeyboardHandler
  BY <1>3, HandlerReads
<1>4. CASE Fill \/ (\E k \in Key : Press(k) \/ Repeat(k) \/ Release(k))
  BY <1>4, DevicesKeep
<1> QED
  BY <1>1, <1>2, <1>3, <1>4 DEF InputNext

LEMMA ByteInit == InputInit => ByteInv
BY InitHolds DEF InputInit, IrqInit, ByteInv, Silent

\* Whatever keys there are and whatever other requests come in between, a byte that
\* waits in the keyboard controller has a request that leads to its read: the
\* keyboard never falls silent (keyboard.c:199-219 and 284, interrupts.c:181-211).
THEOREM EveryByteHasItsRequest == InputSpec => []ByteHasRequest
<1>1. ByteInv /\ [InputNext]_inputVars => ByteInv'
  BY ByteKept
<1> QED
  BY <1>1, ByteInit, ByteInvImplies, PTL DEF InputSpec

\* The same steps keep what OneServiceAtATime says, with the keyboard attached.
THEOREM OneServiceWithKeyboard == InputSpec => []ServiceIsDispatch
<1>1. ByteInv /\ [InputNext]_inputVars => ByteInv'
  BY ByteKept
<1> QED
  BY <1>1, ByteInit, ByteInvImplies, PTL DEF InputSpec
-----------------------------------------------------------------------------
(* The codes on their way and what the decoder makes of them.              *)

Bases == {29, 30, 42, 58, 72}
Codes == Bases \cup {157, 158, 170, 186, 200, 224}

\* What the decoder's state comes to for the keys of this keyboard: the prefix, left
\* Shift, right Control, Caps Lock, and the keys it takes to be down.
View == [ext : BOOLEAN, shift : BOOLEAN, ctrl : BOOLEAN, caps : BOOLEAN, down : SUBSET Bases]

Seen(v) ==
  /\ v \in View /\ KeyboardTypeOK
  /\ mods.extended <=> v.ext
  /\ mods.shift_left <=> v.shift
  /\ mods.ctrl_right <=> v.ctrl
  /\ mods.caps_lock <=> v.caps
  /\ key_states = v.down
  /\ ~mods.shift_right /\ ~mods.ctrl_left /\ ~mods.alt_left /\ ~mods.alt_right

\* What a code makes of it, and the character it is for the letter's code.
Decoded(v, c) ==
  IF c = 224 THEN [v EXCEPT !.ext = TRUE]
  ELSE [ext   |-> FALSE,
        shift |-> (c = 42 \/ (c # 170 /\ v.shift)),
        ctrl  |-> (c = 29 \/ (c # 157 /\ v.ctrl)),
        caps  |-> (v.caps # (c = 58 /\ 58 \notin v.down)),
        down  |-> IF c < 128 THEN v.down \cup {c} ELSE v.down \ {c - 128}]
LetterOf(v) ==
  LET ch == IF v.shift # v.caps THEN uppercase[30] ELSE lowercase[30]
  IN  IF v.ctrl THEN Control[ch] ELSE ch

\* A code that can come in this state, with what the user means by it.
Fits(v, e) ==
  /\ e.code \in Codes
  /\ e.code \in {29, 157} => v.ext
  /\ e.means # "" => e.code = 30 /\ ~v.ext /\ e.means = LetterOf(v)

LEMMA DecodedIsView ==
  ASSUME NEW v \in View, NEW c \in Codes
  PROVE  Decoded(v, c) \in View
<1>1. CASE c = 224
  BY <1>1 DEF Decoded, View
<1>2. CASE c # 224
  <2> DEFINE d == IF c < 128 THEN v.down \cup {c} ELSE v.down \ {c - 128}
  <2>1. d \in SUBSET Bases
    BY <1>2 DEF View, Codes, Bases
  <2> HIDE DEF d
  <2>2. Decoded(v, c) = [ext   |-> FALSE,
                         shift |-> (c = 42 \/ (c # 170 /\ v.shift)),
                         ctrl  |-> (c = 29 \/ (c # 157 /\ v.ctrl)),
                         caps  |-> (v.caps # (c = 58 /\ 58 \notin v.down)),
                         down  |-> d]
    BY <1>2 DEF Decoded, d
  <2> QED
    BY <2>1, <2>2 DEF View
<1> QED
  BY <1>1, <1>2

\* The modifiers after a key's make or break code: keyboard.c:291-342 for the five
\* base codes.
ModifiersBecome(m, base, make, repeat) ==
  /\ m \in [Held \cup Lock \cup {"extended"} -> BOOLEAN]
  /\ m.shift_left = (IF base = 42 THEN make ELSE mods.shift_left)
  /\ m.ctrl_right = (IF base = 29 THEN make ELSE mods.ctrl_right)
  /\ m.caps_lock = (IF base = 58 /\ make /\ ~repeat THEN ~mods.caps_lock
                    ELSE mods.caps_lock)
  /\ m.shift_right = mods.shift_right /\ m.ctrl_left = mods.ctrl_left
  /\ m.alt_left = mods.alt_left /\ m.alt_right = mods.alt_right

LEMMA Modifiers ==
  ASSUME NEW base \in Bases, NEW make \in BOOLEAN, NEW repeat \in BOOLEAN,
         KeyboardTypeOK, base = 29 => mods.extended
  PROVE  ModifiersBecome(handle_special_keys(base, make, repeat), base, make, repeat)
<1> DEFINE m == handle_special_keys(base, make, repeat)
<1>1. /\ HeldBy(base, mods.extended) = (IF base = 42 THEN {"shift_left"}
                                        ELSE IF base = 29 THEN {"ctrl_right"} ELSE {})
      /\ ToggledBy(base) = (IF base = 58 THEN {"caps_lock"} ELSE {})
  <2>1. CASE base = 29
    BY <2>1 DEF HeldBy, ToggledBy
  <2>2. CASE base = 30
    BY <2>2 DEF HeldBy, ToggledBy
  <2>3. CASE base = 42
    BY <2>3 DEF HeldBy, ToggledBy
  <2>4. CASE base = 58
    BY <2>4 DEF HeldBy, ToggledBy
  <2>5. CASE base = 72
    BY <2>5 DEF HeldBy, ToggledBy
  <2> QED
    BY <2>1, <2>2, <2>3, <2>4, <2>5 DEF Bases
<1>2. DOMAIN mods = Held \cup Lock \cup {"extended"} /\ \A x \in DOMAIN mods : mods[x] \in BOOLEAN
  BY DEF KeyboardTypeOK
<1> DEFINE H == HeldBy(base, mods.extended)
           T == ToggledBy(base)
<1>3. m = [x \in DOMAIN mods |->
             CASE x \in H -> make
               [] x \in T /\ make /\ ~repeat -> ~mods[x]
               [] OTHER -> mods[x]]
  BY DEF handle_special_keys
<1> HIDE DEF m, H, T
<1>4. /\ DOMAIN m = DOMAIN mods
      /\ \A x \in DOMAIN mods : x \in H => m[x] = make
      /\ \A x \in DOMAIN mods : x \notin H /\ x \in T /\ make /\ ~repeat => m[x] = ~mods[x]
      /\ \A x \in DOMAIN mods : x \notin H /\ ~(x \in T /\ make /\ ~repeat) => m[x] = mods[x]
  <2>1. DOMAIN m = DOMAIN mods
    BY <1>3, Zenon
  <2>2. ASSUME NEW x \in DOMAIN mods
        PROVE  m[x] = CASE x \in H -> make
                        [] x \in T /\ make /\ ~repeat -> ~mods[x]
                        [] OTHER -> mods[x]
    BY <1>3, Zenon
  <2>3. ASSUME NEW x \in DOMAIN mods
        PROVE  /\ x \in H => m[x] = make
               /\ x \notin H /\ x \in T /\ make /\ ~repeat => m[x] = ~mods[x]
               /\ x \notin H /\ ~(x \in T /\ make /\ ~repeat) => m[x] = mods[x]
    <3>1. ASSUME x \in H PROVE m[x] = make
      <4>1. x \notin T
        BY <1>1, <3>1 DEF H, T
      <4> QED
        BY <2>2, <3>1, <4>1
    <3>2. ASSUME x \notin H, x \in T /\ make /\ ~repeat PROVE m[x] = ~mods[x]
      BY <2>2, <3>2
    <3>3. ASSUME x \notin H, ~(x \in T /\ make /\ ~repeat) PROVE m[x] = mods[x]
      BY <2>2, <3>3
    <3> QED
      BY <3>1, <3>2, <3>3
  <2> QED
    BY <2>1, <2>3, Zenon
<1>5. \A x \in DOMAIN mods : m[x] \in BOOLEAN
  BY <1>2, <1>4
<1>6. m \in [Held \cup Lock \cup {"extended"} -> BOOLEAN]
  <2>1. m = [x \in DOMAIN mods |-> m[x]]
    BY <1>3, <1>4
  <2> QED
    BY <1>2, <1>5, <2>1
<1>7. {"shift_left", "shift_right", "ctrl_left", "ctrl_right", "alt_left", "alt_right",
       "caps_lock"} \subseteq DOMAIN mods
  BY <1>2 DEF Held, Lock
<1>8. /\ "shift_left" \in H <=> base = 42
      /\ "ctrl_right" \in H <=> base = 29
      /\ "caps_lock" \notin H /\ ("caps_lock" \in T <=> base = 58)
      /\ \A x \in {"shift_right", "ctrl_left", "alt_left", "alt_right"} : x \notin H
      /\ \A x \in {"shift_right", "ctrl_left", "alt_left", "alt_right", "shift_left",
                   "ctrl_right"} : x \notin T
  BY <1>1 DEF H, T
<1> QED
  BY <1>4, <1>6, <1>7, <1>8 DEF ModifiersBecome, m

\* A code takes the decoder's state to the one said, and the letter's code puts the
\* letter (keyboard.c:178-187, 221-249, 379-408).
LEMMA Decodes ==
  ASSUME NEW v, Seen(v), NEW c \in Codes, c \in {29, 157} => v.ext, scancode(c)
  PROVE  Seen(Decoded(v, c))' /\ (c = 30 /\ ~v.ext => typed' = <<LetterOf(v)>>)
<1> DEFINE w == Decoded(v, c)
<1>1. w \in View
  BY DecodedIsView DEF Seen
<1>2. CASE c = 224
  <2>1. /\ mods' = [mods EXCEPT !.extended = TRUE]
        /\ UNCHANGED <<key_states, repeat_event, reboot_requested>>
    BY <1>2 DEF scancode, prefix, key, PREFIX_E0, PREFIX_E1
  <2>2. w.ext = TRUE /\ w.shift = v.shift /\ w.ctrl = v.ctrl /\ w.caps = v.caps /\ w.down = v.down
    BY <1>2 DEF Decoded, Seen, View
  <2>3. KeyboardTypeOK'
    BY <2>1 DEF Seen, KeyboardTypeOK
  <2>4. /\ mods'.extended = TRUE /\ mods'.shift_left = mods.shift_left
        /\ mods'.ctrl_right = mods.ctrl_right /\ mods'.caps_lock = mods.caps_lock
        /\ mods'.shift_right = mods.shift_right /\ mods'.ctrl_left = mods.ctrl_left
        /\ mods'.alt_left = mods.alt_left /\ mods'.alt_right = mods.alt_right
    BY <2>1 DEF Seen, KeyboardTypeOK, Held, Lock
  <2> HIDE DEF w
  <2>5. Seen(w)'
    BY <1>1, <2>1, <2>2, <2>3, <2>4 DEF Seen
  <2> QED
    BY <1>2, <2>5 DEF w
<1>3. CASE c # 224
  <2> DEFINE base   == c % RELEASE
             make   == c < RELEASE
             repeat == make /\ base \in key_states
             m      == handle_special_keys(base, make, repeat)
  <2>1. base \in Bases /\ (make <=> c = base) /\ (~make <=> c = base + 128)
        /\ base \in 0 .. 127
    BY <1>3 DEF Codes, Bases, RELEASE
  <2>2. /\ repeat_event' = repeat
        /\ key_states' = (IF make THEN key_states \cup {base} ELSE key_states \ {base})
        /\ mods' = [m EXCEPT !.extended = FALSE]
        /\ typed' = (IF make THEN Emitted(base, m, repeat) ELSE <<>>)
        /\ reboot_requested' = (reboot_requested \/ (make /\ Reboots(base, m, repeat)))
    BY <1>3 DEF scancode, prefix, key, PREFIX_E0, PREFIX_E1, Codes, Bases
  <2>3. repeat \in BOOLEAN /\ make \in BOOLEAN
    OBVIOUS
  <2>4. base = 29 => mods.extended
    BY <2>1 DEF Seen
  <2>5. ModifiersBecome(m, base, make, repeat)
    <3>1. KeyboardTypeOK
      BY DEF Seen
    <3> HIDE DEF base, make, repeat
    <3> QED
      BY <2>1, <2>3, <2>4, <3>1, Modifiers, Zenon DEF m
  <2>6. KeyboardTypeOK'
    <3> HIDE DEF base, make, m
    <3> QED
      BY <2>1, <2>2, <2>5 DEF Seen, KeyboardTypeOK, ModifiersBecome
  <2>7. /\ mods'.extended = FALSE /\ mods'.shift_left = m.shift_left
        /\ mods'.ctrl_right = m.ctrl_right /\ mods'.caps_lock = m.caps_lock
        /\ mods'.shift_right = m.shift_right /\ mods'.ctrl_left = m.ctrl_left
        /\ mods'.alt_left = m.alt_left /\ mods'.alt_right = m.alt_right
    <3> HIDE DEF m
    <3> QED
      BY <2>2, <2>5 DEF Held, Lock, ModifiersBecome
  <2>8. /\ w.ext = FALSE
        /\ w.shift = (c = 42 \/ (c # 170 /\ v.shift))
        /\ w.ctrl = (c = 29 \/ (c # 157 /\ v.ctrl))
        /\ w.caps = (v.caps # (c = 58 /\ 58 \notin v.down))
        /\ w.down = (IF c < 128 THEN v.down \cup {c} ELSE v.down \ {c - 128})
    BY <1>3 DEF Decoded
  <2>9. w.down = (IF make THEN key_states \cup {base} ELSE key_states \ {base})
    <3>1. CASE make
      BY <2>1, <2>8, <3>1 DEF Seen, RELEASE
    <3>2. CASE ~make
      <4>1. c - 128 = base
        BY <2>1, <3>2 DEF Bases
      <4> QED
        BY <2>8, <3>2, <4>1 DEF Seen, RELEASE
    <3> QED
      BY <3>1, <3>2
  <2>10. m.shift_left <=> w.shift
    <3>1. /\ c = 42 => base = 42 /\ make
          /\ c = 170 => base = 42 /\ ~make
          /\ c # 42 /\ c # 170 => base # 42
      BY <2>1 DEF Bases
    <3> HIDE DEF base, make, repeat, m, w
    <3> QED
      BY <2>5, <2>8, <3>1 DEF Seen, ModifiersBecome
  <2>11. m.ctrl_right <=> w.ctrl
    <3>1. /\ c = 29 => base = 29 /\ make
          /\ c = 157 => base = 29 /\ ~make
          /\ c # 29 /\ c # 157 => base # 29
      BY <2>1 DEF Bases
    <3> HIDE DEF base, make, repeat, m, w
    <3> QED
      BY <2>5, <2>8, <3>1 DEF Seen, ModifiersBecome
  <2>12. m.caps_lock <=> w.caps
    <3>1. c = 58 <=> base = 58 /\ make
      BY <2>1 DEF Bases
    <3>2. repeat <=> make /\ base \in v.down
      BY DEF Seen
    <3>3. v.caps \in BOOLEAN /\ mods.caps_lock \in BOOLEAN /\ (mods.caps_lock <=> v.caps)
      BY DEF Seen, View, KeyboardTypeOK, Held, Lock
    <3> HIDE DEF base, make, repeat, m, w
    <3>4. CASE base = 58 /\ make /\ ~repeat
      <4>1. m.caps_lock = ~mods.caps_lock /\ c = 58 /\ 58 \notin v.down
        BY <2>5, <3>1, <3>2, <3>4 DEF ModifiersBecome
      <4>2. w.caps = (v.caps # TRUE)
        BY <2>8, <4>1
      <4> QED
        BY <3>3, <4>1, <4>2
    <3>5. CASE ~(base = 58 /\ make /\ ~repeat)
      <4>1. m.caps_lock = mods.caps_lock /\ ~(c = 58 /\ 58 \notin v.down)
        BY <2>5, <3>1, <3>2, <3>5 DEF ModifiersBecome
      <4>2. w.caps = (v.caps # FALSE)
        BY <2>8, <4>1
      <4> QED
        BY <3>3, <4>1, <4>2
    <3> QED
      BY <3>4, <3>5
  <2>13. Seen(w)'
    <3> HIDE DEF w, m, make, base
    <3> QED
      BY <1>1, <2>2, <2>5, <2>6, <2>7, <2>8, <2>9, <2>10, <2>11, <2>12 DEF Seen, ModifiersBecome
  <2>14. ASSUME c = 30, ~v.ext PROVE typed' = <<LetterOf(v)>>
    <3>1. base = 30 /\ make /\ ~mods.extended
      BY <2>1, <2>14 DEF Seen, Bases
    <3>2. typed' = Emitted(base, m, repeat)
      BY <2>2, <3>1
    <3> DEFINE ch == get_char_from_scancode(base, m)
    <3> HIDE DEF base, make, repeat, m
    <3>3. Emitted(base, m, repeat) = process_character(base, m)
      BY <3>1, KeyboardInputAssumption DEF Emitted, Reboots
    <3>4. ch = (IF v.shift # v.caps THEN uppercase[30] ELSE lowercase[30])
      <4>1. shift_active(m) <=> v.shift
        BY <2>5, <3>1 DEF shift_active, Seen, ModifiersBecome
      <4>2. m.caps_lock <=> v.caps
        BY <2>5, <3>1 DEF Seen, ModifiersBecome
      <4>3. shift_active(m) \in BOOLEAN /\ m.caps_lock \in BOOLEAN
            /\ v.shift \in BOOLEAN /\ v.caps \in BOOLEAN
        BY <2>5 DEF shift_active, Seen, View, Held, Lock, ModifiersBecome
      <4>4. (shift_active(m) # m.caps_lock) <=> (v.shift # v.caps)
        BY <4>1, <4>2, <4>3
      <4> QED
        BY <3>1, <4>4 DEF get_char_from_scancode
    <3>5. ch \in DOMAIN Control
      BY <3>4, KeyboardInputAssumption
    <3>6. (ctrl_active(m) /\ ~alt_active(m)) <=> v.ctrl
      BY <2>5, <3>1 DEF ctrl_active, alt_active, Seen, ModifiersBecome
    <3>7. process_character(base, m) =
            IF ctrl_active(m) /\ ~alt_active(m) /\ ch \in DOMAIN Control
            THEN <<Control[ch]>> ELSE <<ch>>
      BY <3>1, KeyboardInputAssumption DEF process_character
    <3> HIDE DEF ch
    <3>8. typed' = IF v.ctrl THEN <<Control[ch]>> ELSE <<ch>>
      BY <3>2, <3>3, <3>5, <3>6, <3>7
    <3> QED
      BY <3>4, <3>8 DEF LetterOf
  <2> QED
    BY <2>13, <2>14
<1> QED
  BY <1>2, <1>3
-----------------------------------------------------------------------------
(* The codes on their way lead the decoder from state u to state w.        *)

Leads(u, E, w) ==
  \E f \in [0 .. Len(E) -> View] :
     /\ f[0] = u /\ f[Len(E)] = w
     /\ \A i \in 1 .. Len(E) : Fits(f[i - 1], E[i]) /\ f[i] = Decoded(f[i - 1], E[i].code)

LEMMA LeadsNowhere ==
  ASSUME NEW u, NEW w
  PROVE  Leads(u, <<>>, w) <=> u \in View /\ u = w
<1>1. ASSUME u \in View, u = w PROVE Leads(u, <<>>, w)
  <2> DEFINE f == [i \in 0 .. 0 |-> u]
  <2>1. f \in [0 .. 0 -> View] /\ f[0] = u
    BY <1>1
  <2> HIDE DEF f
  <2> QED
    BY <1>1, <2>1 DEF Leads
<1>2. ASSUME Leads(u, <<>>, w) PROVE u \in View /\ u = w
  BY <1>2 DEF Leads
<1> QED
  BY <1>1, <1>2

LEMMA LeadsOne ==
  ASSUME NEW u \in View, NEW e, Fits(u, e)
  PROVE  Leads(u, <<e>>, Decoded(u, e.code))
<1> DEFINE w == Decoded(u, e.code)
           f == [i \in 0 .. 1 |-> IF i = 0 THEN u ELSE w]
<1>1. w \in View
  BY DecodedIsView DEF Fits
<1> HIDE DEF w
<1>2. f \in [0 .. 1 -> View] /\ f[0] = u /\ f[1] = w
  BY <1>1
<1> HIDE DEF f
<1>3. Len(<<e>>) = 1 /\ <<e>>[1] = e
  OBVIOUS
<1>4. \A i \in 1 .. 1 : Fits(f[i - 1], <<e>>[i]) /\ f[i] = Decoded(f[i - 1], <<e>>[i].code)
  <2>1. Fits(f[1 - 1], <<e>>[1]) /\ f[1] = Decoded(f[1 - 1], <<e>>[1].code)
    BY <1>2, <1>3 DEF w
  <2> QED
    BY <2>1
<1> QED
  BY <1>2, <1>3, <1>4 DEF Leads, w

LEMMA LeadsOn ==
  ASSUME NEW S, NEW E \in Seq(S), NEW F \in Seq(S), NEW u, NEW v, NEW w,
         Leads(u, E, v), Leads(v, F, w)
  PROVE  Leads(u, E \o F, w)
<1>1. PICK f \in [0 .. Len(E) -> View] :
        /\ f[0] = u /\ f[Len(E)] = v
        /\ \A i \in 1 .. Len(E) : Fits(f[i - 1], E[i]) /\ f[i] = Decoded(f[i - 1], E[i].code)
  BY DEF Leads
<1>2. PICK g \in [0 .. Len(F) -> View] :
        /\ g[0] = v /\ g[Len(F)] = w
        /\ \A i \in 1 .. Len(F) : Fits(g[i - 1], F[i]) /\ g[i] = Decoded(g[i - 1], F[i].code)
  BY DEF Leads
<1> DEFINE m == Len(E)
           n == Len(F)
           G == E \o F
           h == [i \in 0 .. m + n |-> IF i <= m THEN f[i] ELSE g[i - m]]
<1>3. m \in Nat /\ n \in Nat /\ Len(G) = m + n
  OBVIOUS
<1>4. \A i \in 1 .. m + n : G[i] = IF i <= m THEN E[i] ELSE F[i - m]
  OBVIOUS
<1> HIDE DEF m, n, G
<1>5. h \in [0 .. m + n -> View]
  <2> SUFFICES ASSUME NEW i \in 0 .. m + n PROVE (IF i <= m THEN f[i] ELSE g[i - m]) \in View
    OBVIOUS
  <2>1. i <= m => i \in 0 .. m
    BY <1>3
  <2>2. ~(i <= m) => i - m \in 0 .. n
    BY <1>3
  <2> QED
    BY <2>1, <2>2 DEF m, n
<1>6. h[0] = u
  BY <1>1, <1>3
<1>7. h[m + n] = w
  <2>1. CASE n = 0
    <3>1. v = w
      BY <1>2, <2>1 DEF n
    <3> QED
      BY <1>1, <1>3, <2>1, <3>1 DEF m
  <2>2. CASE n # 0
    <3>1. m + n \in 0 .. m + n /\ ~(m + n <= m) /\ m + n - m = n
      BY <1>3, <2>2
    <3>2. h[m + n] = g[n]
      BY <3>1
    <3> QED
      BY <1>2, <3>2 DEF n
  <2> QED
    BY <2>1, <2>2
<1>8. ASSUME NEW i \in 1 .. m + n
      PROVE  Fits(h[i - 1], G[i]) /\ h[i] = Decoded(h[i - 1], G[i].code)
  <2>1. CASE i <= m
    <3>1. i \in 0 .. m + n /\ i - 1 \in 0 .. m + n /\ i - 1 <= m /\ i \in 1 .. m
      BY <1>3, <2>1
    <3>2. h[i] = f[i] /\ h[i - 1] = f[i - 1] /\ G[i] = E[i]
      BY <1>4, <2>1, <3>1
    <3> HIDE DEF h
    <3> QED
      BY <1>1, <3>1, <3>2 DEF m
  <2>2. CASE i = m + 1
    <3>1. i \in 0 .. m + n /\ i - 1 \in 0 .. m + n /\ i - 1 = m /\ i - m = 1 /\ ~(i <= m)
          /\ 1 \in 1 .. n
      BY <1>3, <2>2
    <3>2. h[i] = g[1] /\ h[i - 1] = f[m] /\ G[i] = F[1]
      BY <1>3, <1>4, <3>1
    <3>3. f[m] = g[0]
      BY <1>1, <1>2 DEF m
    <3>4. Fits(g[1 - 1], F[1]) /\ g[1] = Decoded(g[1 - 1], F[1].code)
      BY <1>2, <3>1 DEF n
    <3> HIDE DEF h
    <3> QED
      BY <3>2, <3>3, <3>4
  <2>3. CASE i > m + 1
    <3>1. /\ i \in 0 .. m + n /\ i - 1 \in 0 .. m + n /\ ~(i - 1 <= m) /\ ~(i <= m)
          /\ i - m \in 1 .. n /\ (i - 1) - m = (i - m) - 1
      BY <1>3, <2>3
    <3>2. h[i] = g[i - m] /\ h[i - 1] = g[(i - m) - 1] /\ G[i] = F[i - m]
      BY <1>4, <3>1
    <3> HIDE DEF h
    <3> QED
      BY <1>2, <3>1, <3>2 DEF n
  <2> QED
    BY <1>3, <2>1, <2>2, <2>3
<1> HIDE DEF h
<1>9. Leads(u, G, w)
  BY <1>3, <1>5, <1>6, <1>7, <1>8 DEF Leads
<1> QED
  BY <1>9 DEF G

LEMMA LeadsFirst ==
  ASSUME NEW S, NEW E \in Seq(S), E # <<>>, NEW u, NEW w, Leads(u, E, w)
  PROVE  Fits(u, Head(E)) /\ Leads(Decoded(u, Head(E).code), Tail(E), w)
<1>1. PICK f \in [0 .. Len(E) -> View] :
        /\ f[0] = u /\ f[Len(E)] = w
        /\ \A i \in 1 .. Len(E) : Fits(f[i - 1], E[i]) /\ f[i] = Decoded(f[i - 1], E[i].code)
  BY DEF Leads
<1> DEFINE n == Len(Tail(E))
           g == [i \in 0 .. n |-> f[i + 1]]
           T == Tail(E)
<1>2. n \in Nat /\ Len(E) = n + 1 /\ Head(E) = E[1] /\ \A i \in 1 .. n : T[i] = E[i + 1]
  OBVIOUS
<1> HIDE DEF n, T
<1>3. Fits(u, Head(E)) /\ f[1] = Decoded(u, Head(E).code)
  <2>1. 1 \in 1 .. Len(E) /\ 1 - 1 = 0
    BY <1>2
  <2> QED
    BY <1>1, <1>2, <2>1
<1>4. g \in [0 .. n -> View] /\ g[0] = f[1] /\ g[n] = w
  BY <1>1, <1>2
<1>5. ASSUME NEW i \in 1 .. n
      PROVE  Fits(g[i - 1], T[i]) /\ g[i] = Decoded(g[i - 1], T[i].code)
  <2>1. i + 1 \in 1 .. Len(E) /\ i \in 0 .. n /\ i - 1 \in 0 .. n /\ (i + 1) - 1 = i
        /\ (i - 1) + 1 = i
    BY <1>2
  <2>2. g[i] = f[i + 1] /\ g[i - 1] = f[i] /\ T[i] = E[i + 1]
    BY <1>2, <2>1
  <2> HIDE DEF g
  <2> QED
    BY <1>1, <2>1, <2>2
<1> HIDE DEF g
<1>6. Leads(f[1], T, w)
  <2>1. Len(T) = n
    BY DEF T, n
  <2> QED
    BY <1>4, <1>5, <2>1 DEF Leads
<1> QED
  BY <1>3, <1>6 DEF T
-----------------------------------------------------------------------------
(* The keys and the decoder's state at the end of the codes they sent.     *)

Meanings == {"", lowercase[30], uppercase[30], Control[lowercase[30]], Control[uppercase[30]]}
Entries  == [code : Codes, means : Meanings]

\* The decoder's state when nothing is on its way.  While a cursor key is down it may
\* have been told that Shift is not.
Matches(w) ==
  /\ ~w.ext
  /\ w.shift => Shifted
  /\ "Up" \notin held => (w.shift <=> Shifted)
  /\ w.ctrl <=> "RCtrl" \in held
  /\ w.caps <=> capital
  /\ 58 \in w.down <=> "Caps" \in held
  /\ 30 \in w.down => "a" \in held
  /\ 42 \in w.down => "LShift" \in held
  /\ 29 \in w.down => "RCtrl" \in held
  /\ 72 \in w.down => "Up" \in held

\* The inductive invariant: the codes on their way lead the decoder from its state
\* to one that matches the keys.
TraceInv ==
  /\ held \subseteq Key /\ capital \in BOOLEAN
  /\ wire \in Seq(Entries) /\ (obf = <<>> \/ \E e \in Entries : obf = <<e>>)
  /\ \E u, w : Seen(u) /\ Leads(u, obf \o wire, w) /\ Matches(w)
  /\ LetterAsMeant

LEMMA LeadsToView ==
  ASSUME NEW E, Len(E) \in Nat, NEW u, NEW w, Leads(u, E, w)
  PROVE  u \in View /\ w \in View
BY DEF Leads

\* What a code does, for the codes other than the prefix.
Turns(v, c, w) ==
  /\ w \in View /\ ~w.ext
  /\ w.shift <=> (c = 42 \/ (c # 170 /\ v.shift))
  /\ w.ctrl <=> (c = 29 \/ (c # 157 /\ v.ctrl))
  /\ w.caps <=> (IF c = 58 /\ 58 \notin v.down THEN ~v.caps ELSE v.caps)
  /\ \A b \in Bases : b \in w.down <=> (b = c \/ (b + 128 # c /\ b \in v.down))

LEMMA DecodedTurns ==
  ASSUME NEW v \in View, NEW c \in Codes \ {224}
  PROVE  Turns(v, c, Decoded(v, c))
<1> DEFINE w == Decoded(v, c)
<1>1. /\ w.ext = FALSE
      /\ w.shift = (c = 42 \/ (c # 170 /\ v.shift))
      /\ w.ctrl = (c = 29 \/ (c # 157 /\ v.ctrl))
      /\ w.caps = (v.caps # (c = 58 /\ 58 \notin v.down))
      /\ w.down = (IF c < 128 THEN v.down \cup {c} ELSE v.down \ {c - 128})
  BY DEF Decoded
<1>2. w \in View
  BY DecodedIsView
<1> HIDE DEF w
<1>3. ASSUME NEW b \in Bases
      PROVE  b \in w.down <=> (b = c \/ (b + 128 # c /\ b \in v.down))
  <2>1. CASE c < 128
    BY <1>1, <2>1 DEF Bases
  <2>2. CASE ~(c < 128)
    <3>1. b # c /\ (b = c - 128 <=> b + 128 = c)
      BY <2>2 DEF Bases, Codes
    <3> QED
      BY <1>1, <2>2, <3>1
  <2> QED
    BY <2>1, <2>2
<1>4. w.caps <=> (IF c = 58 /\ 58 \notin v.down THEN ~v.caps ELSE v.caps)
  BY <1>1 DEF View
<1>5. Turns(v, c, w)
  BY <1>1, <1>2, <1>3, <1>4 DEF Turns
<1> QED
  BY <1>5 DEF w

LEMMA CodeLeads ==
  ASSUME NEW v \in View, NEW c \in Codes \ {29, 157, 224}, NEW mean,
         mean # "" => c = 30 /\ ~v.ext /\ mean = LetterOf(v)
  PROVE  Leads(v, <<[code |-> c, means |-> mean]>>, Decoded(v, c))
<1> DEFINE e == [code |-> c, means |-> mean]
<1>1. Fits(v, e) /\ e.code = c
  BY DEF Fits
<1> HIDE DEF e
<1>2. Leads(v, <<e>>, Decoded(v, e.code))
  BY <1>1, LeadsOne
<1> QED
  BY <1>1, <1>2 DEF e

\* The codes as sequences.
LEMMA TwoPairs ==
  ASSUME NEW a, NEW b
  PROVE  <<a>> \o <<b>> = <<a, b>>
<1> DEFINE s == <<a>> \o <<b>>
           t == <<a, b>>
<1>1. <<a>> \in Seq({a, b}) /\ <<b>> \in Seq({a, b}) /\ t \in Seq({a, b})
  OBVIOUS
<1>2. s \in Seq({a, b}) /\ Len(s) = 2 /\ s[1] = a /\ s[2] = b
  BY <1>1
<1>3. Len(t) = 2 /\ t[1] = a /\ t[2] = b
  OBVIOUS
<1> HIDE DEF s, t
<1>4. \A i \in 1 .. Len(s) : s[i] = t[i]
  <2>1. \A i \in 1 .. 2 : i = 1 \/ i = 2
    OBVIOUS
  <2> QED
    BY <1>2, <1>3, <2>1
<1>5. s = t
  BY <1>1, <1>2, <1>3, <1>4, SeqEqual
<1> QED
  BY <1>5 DEF s, t

LEMMA PrefixedLeads ==
  ASSUME NEW v \in View, NEW c \in Codes \ {224}
  PROVE  Leads(v, <<[code |-> 224, means |-> ""], [code |-> c, means |-> ""]>>, Decoded(v, c))
<1> DEFINE e1 == [code |-> 224, means |-> ""]
           e2 == [code |-> c, means |-> ""]
           x  == Decoded(v, 224)
<1>1. Fits(v, e1) /\ e1.code = 224 /\ e2.code = c
  BY DEF Fits, Codes
<1>2. x \in View /\ x.ext
  <2>1. 224 \in Codes
    BY DEF Codes
  <2>2. x.ext
    BY DEF Decoded, View
  <2> QED
    BY <2>1, <2>2, DecodedIsView
<1>3. Fits(x, e2)
  BY <1>2 DEF Fits
<1>4. Decoded(x, c) = Decoded(v, c)
  <2>1. x.shift = v.shift /\ x.ctrl = v.ctrl /\ x.caps = v.caps /\ x.down = v.down
    BY DEF Decoded, View
  <2> HIDE DEF x
  <2> QED
    BY <2>1 DEF Decoded
<1> HIDE DEF e1, e2, x
<1>5. Leads(v, <<e1>>, Decoded(v, e1.code)) /\ Leads(x, <<e2>>, Decoded(x, e2.code))
  BY <1>1, <1>2, <1>3, LeadsOne
<1>6. Leads(v, <<e1>>, x) /\ Leads(x, <<e2>>, Decoded(v, c))
  BY <1>1, <1>4, <1>5 DEF x
<1>7. <<e1>> \in Seq({e1, e2}) /\ <<e2>> \in Seq({e1, e2})
  OBVIOUS
<1>8. Leads(v, <<e1>> \o <<e2>>, Decoded(v, c))
  BY <1>6, <1>7, LeadsOn
<1>9. <<e1>> \o <<e2>> = <<e1, e2>>
  BY TwoPairs
<1> QED
  BY <1>8, <1>9 DEF e1, e2
-----------------------------------------------------------------------------
(* The steps.                                                              *)

\* What a key that sends codes puts on the wire.
Sent(k, codes) ==
  [n \in 1 .. Len(codes) |->
     [code  |-> codes[n],
      means |-> IF k = "a" /\ codes[n] = 30 THEN Letter ELSE ""]]
Plain(c) == [code |-> c, means |-> ""]
PlainTwo(c, d) == <<Plain(c), Plain(d)>>
PlainFour(c, d, e, f) == PlainTwo(c, d) \o PlainTwo(e, f)

LEMMA ShortSeqs ==
  ASSUME NEW S
  PROVE  <<>> \in Seq(S) /\ \A e \in S : <<e>> \in Seq(S)
OBVIOUS

LEMMA LetterIsMeaning ==
  ASSUME capital \in BOOLEAN
  PROVE  Letter \in Meanings
BY DEF Letter, Meanings

LEMMA PlainIsEntry ==
  ASSUME NEW c \in Codes
  PROVE  Plain(c) \in Entries
BY DEF Plain, Entries, Meanings

\* One code, two, and four, as they are put on the wire.
LEMMA SentOne ==
  ASSUME NEW k, NEW c
  PROVE  Sent(k, <<c>>) = <<[code |-> c, means |-> IF k = "a" /\ c = 30 THEN Letter ELSE ""]>>
<1> DEFINE e == [code |-> c, means |-> IF k = "a" /\ c = 30 THEN Letter ELSE ""]
<1>1. Len(<<c>>) = 1 /\ <<c>>[1] = c
  OBVIOUS
<1>2. Sent(k, <<c>>) = [n \in 1 .. 1 |-> e]
  <2>1. \A n \in 1 .. 1 : <<c>>[n] = c
    OBVIOUS
  <2> QED
    BY <1>1, <2>1 DEF Sent
<1> HIDE DEF e
<1>3. [n \in 1 .. 1 |-> e] = <<e>>
  OBVIOUS
<1> QED
  BY <1>2, <1>3 DEF e

LEMMA SentTwo ==
  ASSUME NEW k, k # "a", NEW c, NEW d
  PROVE  Sent(k, <<c, d>>) = <<Plain(c), Plain(d)>>
<1> DEFINE s == <<c, d>>
           t == <<Plain(c), Plain(d)>>
           g == [n \in 1 .. 2 |-> Plain(s[n])]
<1>1. Len(s) = 2 /\ s[1] = c /\ s[2] = d
  OBVIOUS
<1>2. t \in Seq({Plain(c), Plain(d)}) /\ Len(t) = 2 /\ t[1] = Plain(c) /\ t[2] = Plain(d)
  OBVIOUS
<1> HIDE DEF s, t
<1>3. Sent(k, s) = g
  BY <1>1 DEF Sent, Plain
<1>4. \A n \in 1 .. 2 : n = 1 \/ n = 2
  OBVIOUS
<1>5. g \in Seq({Plain(c), Plain(d)})
  BY <1>1, <1>4
<1>6. Len(g) = 2 /\ \A n \in 1 .. 2 : g[n] = t[n]
  BY <1>1, <1>2, <1>4
<1> HIDE DEF g
<1>7. g = t
  BY <1>2, <1>5, <1>6, SeqEqual
<1> QED
  BY <1>3, <1>7 DEF s, t

LEMMA SentFour ==
  ASSUME NEW c, NEW d, NEW e, NEW f
  PROVE  Sent("Up", <<c, d, e, f>>) = PlainFour(c, d, e, f)
<1> DEFINE s == <<c, d, e, f>>
           P == {Plain(c), Plain(d), Plain(e), Plain(f)}
           x == PlainTwo(c, d)
           y == PlainTwo(e, f)
           t == x \o y
           g == [n \in 1 .. 4 |-> Plain(s[n])]
<1>1. Len(s) = 4 /\ s[1] = c /\ s[2] = d /\ s[3] = e /\ s[4] = f
  OBVIOUS
<1>2. /\ x \in Seq(P) /\ Len(x) = 2 /\ x[1] = Plain(c) /\ x[2] = Plain(d)
      /\ y \in Seq(P) /\ Len(y) = 2 /\ y[1] = Plain(e) /\ y[2] = Plain(f)
  BY DEF PlainTwo
<1> HIDE DEF s, x, y, P
<1>3. /\ t \in Seq(P) /\ Len(t) = 4
      /\ t[1] = Plain(c) /\ t[2] = Plain(d) /\ t[3] = Plain(e) /\ t[4] = Plain(f)
  <2>1. t \in Seq(P) /\ Len(t) = 4
        /\ \A i \in 1 .. 4 : t[i] = IF i <= 2 THEN x[i] ELSE y[i - 2]
    <3>1. /\ t \in Seq(P) /\ Len(t) = Len(x) + Len(y)
          /\ \A i \in 1 .. Len(x) + Len(y) :
               t[i] = IF i <= Len(x) THEN x[i] ELSE y[i - Len(x)]
      BY <1>2, ConcatProperties
    <3> HIDE DEF t
    <3> QED
      BY <1>2, <3>1
  <2> HIDE DEF t
  <2>2. t[1] = x[1] /\ t[2] = x[2] /\ t[3] = y[1] /\ t[4] = y[2]
    BY <2>1
  <2> QED
    BY <1>2, <2>1, <2>2
<1> HIDE DEF t
<1>4. Sent("Up", s) = g
  BY <1>1 DEF Sent, Plain
<1>5. \A n \in 1 .. 4 : n = 1 \/ n = 2 \/ n = 3 \/ n = 4
  OBVIOUS
<1>6. g[1] = t[1] /\ g[2] = t[2] /\ g[3] = t[3] /\ g[4] = t[4]
  BY <1>1, <1>3
<1>7. g \in Seq(P) /\ Len(g) = 4
  BY <1>1, <1>5 DEF P
<1>8. \A n \in 1 .. 4 : g[n] = t[n]
  BY <1>5, <1>6
<1> HIDE DEF g
<1>9. g = t
  BY <1>3, <1>7, <1>8, SeqEqual
<1> QED
  BY <1>4, <1>9 DEF s, t, x, y, PlainFour, PlainTwo

\* A key whose codes lead to a state that matches the keys afterwards.
LEMMA SendKeeps ==
  ASSUME TraceInv, NEW k, NEW codes, Send(k, codes), Sent(k, codes) \in Seq(Entries),
         held' \subseteq Key, capital' \in BOOLEAN,
         \A w \in View : Matches(w) =>
            \E w2 : Leads(w, Sent(k, codes), w2) /\ Matches(w2)'
  PROVE  TraceInv'
<1> DEFINE S == Sent(k, codes)
<1>1. PICK u, w : Seen(u) /\ Leads(u, obf \o wire, w) /\ Matches(w)
  BY DEF TraceInv
<1>2. wire \in Seq(Entries) /\ obf \in Seq(Entries) /\ obf \o wire \in Seq(Entries)
  <2>1. wire \in Seq(Entries) /\ (obf = <<>> \/ \E e \in Entries : obf = <<e>>)
    BY DEF TraceInv
  <2>2. obf \in Seq(Entries)
    BY <2>1, ShortSeqs
  <2> QED
    BY <2>1, <2>2, ConcatProperties
<1>3. wire' = wire \o S /\ obf' = obf /\ meant' = meant /\ UNCHANGED kbdVars
  BY DEF Send, Sent
<1>4. w \in View
  <2>1. Len(obf \o wire) \in Nat
    BY <1>2
  <2> QED
    BY <1>1, <2>1, LeadsToView
<1>5. PICK w2 : Leads(w, S, w2) /\ Matches(w2)'
  BY <1>1, <1>4
<1> HIDE DEF S
<1>6. S \in Seq(Entries)
  BY DEF S
<1>7. Leads(u, (obf \o wire) \o S, w2)
  BY <1>1, <1>2, <1>5, <1>6, LeadsOn
<1>8. (obf \o wire) \o S = obf' \o wire'
  <2>1. (obf \o wire) \o S = obf \o (wire \o S)
    BY <1>2, <1>6, ConcatAssociative
  <2> QED
    BY <1>3, <2>1 DEF S
<1>9. Seen(u)'
  BY <1>1, <1>3 DEF Seen, kbdVars, KeyboardTypeOK
<1>10. wire' \in Seq(Entries)
  BY <1>2, <1>3, <1>6, ConcatProperties
<1>11. LetterAsMeant'
  BY <1>3 DEF TraceInv, LetterAsMeant, kbdVars
<1>12. obf' = <<>> \/ \E e \in Entries : obf' = <<e>>
  BY <1>3 DEF TraceInv
<1>13. Leads(u, obf' \o wire', w2)
  BY <1>7, <1>8
<1>14. (\E v1, v2 : Seen(v1) /\ Leads(v1, obf \o wire, v2) /\ Matches(v2))'
  BY <1>5, <1>9, <1>13
<1> QED
  BY <1>10, <1>11, <1>12, <1>14 DEF TraceInv

\* The character sent with the letter's code is what the decoder makes of it.
Says(k, c, w) == k = "a" /\ c = 30 => Letter \in {"", LetterOf(w)}

LEMMA OtherCode ==
  ASSUME NEW k, NEW c, k # "a" \/ c # 30, NEW w
  PROVE  Says(k, c, w)
BY DEF Says

\* A key that sends one code, a prefixed code, or two prefixed codes.
LEMMA OneCode ==
  ASSUME TraceInv, NEW k, NEW c \in Codes \ {29, 157, 224}, Send(k, <<c>>),
         held' \subseteq Key, capital' \in BOOLEAN,
         \A w \in View : Matches(w) =>
            Says(k, c, w) /\ Matches(Decoded(w, c))'
  PROVE  TraceInv'
<1> DEFINE mean == IF k = "a" /\ c = 30 THEN Letter ELSE ""
           e == [code |-> c, means |-> mean]
<1>1. Sent(k, <<c>>) = <<e>>
  BY SentOne
<1>2. e \in Entries
  <2>1. capital \in BOOLEAN
    BY DEF TraceInv
  <2>2. mean \in Meanings
    BY <2>1, LetterIsMeaning DEF Meanings
  <2> HIDE DEF mean
  <2> QED
    BY <2>2 DEF Entries
<1>3. ASSUME NEW w \in View, Matches(w)
      PROVE  \E w2 : Leads(w, Sent(k, <<c>>), w2) /\ Matches(w2)'
  <2>1. ~w.ext
    BY <1>3 DEF Matches
  <2>2. mean # "" => c = 30 /\ ~w.ext /\ mean = LetterOf(w)
    BY <1>3, <2>1 DEF Says
  <2> HIDE DEF mean
  <2>3. Leads(w, <<e>>, Decoded(w, c))
    BY <2>2, CodeLeads
  <2>4. Matches(Decoded(w, c))'
    BY <1>3
  <2> HIDE DEF e
  <2> QED
    BY <1>1, <2>3, <2>4
<1>4. Sent(k, <<c>>) \in Seq(Entries)
  <2> HIDE DEF e
  <2> QED
    BY <1>1, <1>2, ShortSeqs
<1> QED
  BY <1>3, <1>4, SendKeeps

LEMMA TwoCodes ==
  ASSUME TraceInv, NEW k, k # "a", NEW c \in Codes \ {224}, Send(k, <<224, c>>),
         held' \subseteq Key, capital' \in BOOLEAN,
         \A w \in View : Matches(w) => Matches(Decoded(w, c))'
  PROVE  TraceInv'
<1> DEFINE S == <<Plain(224), Plain(c)>>
<1>1. Sent(k, <<224, c>>) = S
  BY SentTwo
<1>2. S \in Seq(Entries)
  <2>1. Plain(224) \in Entries /\ Plain(c) \in Entries
    BY PlainIsEntry DEF Codes
  <2>2. <<Plain(224)>> \o <<Plain(c)>> = S
    BY TwoPairs
  <2> HIDE DEF S
  <2> QED
    BY <2>1, <2>2, ShortSeqs, ConcatProperties
<1>3. ASSUME NEW w \in View, Matches(w)
      PROVE  \E w2 : Leads(w, Sent(k, <<224, c>>), w2) /\ Matches(w2)'
  <2>1. Leads(w, S, Decoded(w, c))
    BY PrefixedLeads DEF Plain
  <2>2. Matches(Decoded(w, c))'
    BY <1>3
  <2> HIDE DEF S
  <2> QED
    BY <1>1, <2>1, <2>2
<1>4. Sent(k, <<224, c>>) \in Seq(Entries)
  BY <1>1, <1>2
<1> QED
  BY <1>3, <1>4, SendKeeps

LEMMA FourCodes ==
  ASSUME TraceInv, NEW c \in Codes \ {224}, NEW d \in Codes \ {224},
         Send("Up", <<224, c, 224, d>>), held' \subseteq Key, capital' \in BOOLEAN,
         \A w \in View : Matches(w) => Matches(Decoded(Decoded(w, c), d))'
  PROVE  TraceInv'
<1> DEFINE x == <<Plain(224), Plain(c)>>
           y == <<Plain(224), Plain(d)>>
           S == x \o y
<1>1. Sent("Up", <<224, c, 224, d>>) = S
  <2>1. Sent("Up", <<224, c, 224, d>>) = PlainFour(224, c, 224, d)
    <3> DEFINE p == 224
    <3> HIDE DEF p
    <3>1. Sent("Up", <<p, c, p, d>>) = PlainFour(p, c, p, d)
      BY SentFour, Zenon
    <3> QED
      BY <3>1 DEF p
  <2>2. PlainFour(224, c, 224, d) = S
    BY DEF PlainFour, PlainTwo
  <2> HIDE DEF S
  <2> QED
    BY <2>1, <2>2
<1>2. x \in Seq(Entries) /\ y \in Seq(Entries)
  <2>1. Plain(224) \in Entries /\ Plain(c) \in Entries /\ Plain(d) \in Entries
    BY PlainIsEntry DEF Codes
  <2>2. <<Plain(224)>> \o <<Plain(c)>> = x /\ <<Plain(224)>> \o <<Plain(d)>> = y
    BY TwoPairs
  <2> HIDE DEF x, y
  <2> QED
    BY <2>1, <2>2, ShortSeqs, ConcatProperties
<1>3. S \in Seq(Entries)
  <2> HIDE DEF x, y
  <2> QED
    BY <1>2, ConcatProperties
<1>4. ASSUME NEW w \in View, Matches(w)
      PROVE  \E w2 : Leads(w, Sent("Up", <<224, c, 224, d>>), w2) /\ Matches(w2)'
  <2> DEFINE v == Decoded(w, c)
  <2>1. v \in View
    BY DecodedIsView
  <2>2. Leads(w, x, v)
    BY PrefixedLeads DEF Plain
  <2>3. Matches(Decoded(v, d))'
    BY <1>4
  <2> HIDE DEF v
  <2>4. Leads(v, y, Decoded(v, d))
    BY <2>1, PrefixedLeads DEF Plain
  <2> HIDE DEF x, y
  <2>5. Leads(w, S, Decoded(v, d))
    BY <1>2, <2>2, <2>4, LeadsOn
  <2> HIDE DEF S
  <2> QED
    BY <1>1, <2>3, <2>5
<1>5. Sent("Up", <<224, c, 224, d>>) \in Seq(Entries)
  <2> HIDE DEF S
  <2> QED
    BY <1>1, <1>3
<1> QED
  BY <1>4, <1>5, SendKeeps

\* After each key's codes the decoder's state matches the keys.
LEMMA LetterKeeps ==
  ASSUME TraceInv, Press("a") \/ Repeat("a") \/ Release("a"), "a" \in Key
  PROVE  TraceInv'
<1>1. held \subseteq Key /\ capital \in BOOLEAN
  BY DEF TraceInv
<1>2. ASSUME Press("a") \/ Repeat("a") PROVE TraceInv'
  <2>1. Send("a", <<30>>) /\ held' = held \cup {"a"} /\ capital' = (capital # FALSE)
    BY <1>1, <1>2 DEF Press, Repeat, MakeCodes
  <2>2. held' \subseteq Key /\ capital' = capital
    BY <1>1, <2>1
  <2>3. ASSUME NEW w \in View, Matches(w)
        PROVE  Says("a", 30, w) /\ Matches(Decoded(w, 30))'
    <3>1. 30 \in Codes \ {224}
      BY DEF Codes, Bases
    <3>2. Turns(w, 30, Decoded(w, 30))
      BY <3>1, DecodedTurns
    <3>3. Matches(Decoded(w, 30))'
      <4> DEFINE x == Decoded(w, 30)
      <4> HIDE DEF x
      <4>1. Turns(w, 30, x)
        BY <3>2 DEF x
      <4>2. Matches(x)'
        <5>1. /\ ~x.ext /\ (x.shift <=> w.shift) /\ (x.ctrl <=> w.ctrl) /\ (x.caps <=> w.caps)
              /\ 30 \in x.down /\ (58 \in x.down <=> 58 \in w.down)
              /\ (42 \in x.down <=> 42 \in w.down) /\ (29 \in x.down <=> 29 \in w.down)
              /\ (72 \in x.down <=> 72 \in w.down)
          BY <4>1 DEF Turns, Bases
        <5>2. \A k \in {"LShift", "Up", "RCtrl", "Caps"} : k \in held' <=> k \in held
          BY <2>1
        <5>3. "a" \in held'
          BY <2>1
        <5> QED
          BY <2>2, <2>3, <5>1, <5>2, <5>3 DEF Matches, Shifted
      <4> QED
        BY <4>2 DEF x
    <3>4. "Up" \notin held => Letter = LetterOf(w)
      <4>1. w.shift \in BOOLEAN /\ w.caps \in BOOLEAN /\ w.ctrl \in BOOLEAN /\ Shifted \in BOOLEAN
        BY DEF View, Shifted
      <4>2. "Up" \notin held =>
              (w.shift <=> Shifted) /\ (w.ctrl <=> "RCtrl" \in held) /\ (w.caps <=> capital)
        BY <2>3 DEF Matches
      <4>3. "Up" \notin held => ((Shifted # capital) <=> (w.shift # w.caps))
        BY <1>1, <4>1, <4>2
      <4> QED
        BY <4>2, <4>3 DEF Letter, LetterOf
    <3>5. "Up" \in held => Letter = ""
      BY DEF Letter
    <3> QED
      BY <3>3, <3>4, <3>5 DEF Says
  <2> DEFINE c == 30
  <2>4. /\ c \in Codes \ {29, 157, 224} /\ Send("a", <<c>>)
        /\ \A w \in View : Matches(w) => Says("a", c, w) /\ Matches(Decoded(w, c))'
    BY <2>1, <2>3 DEF Codes, Bases
  <2> HIDE DEF c
  <2> QED
    BY <1>1, <2>1, <2>2, <2>4, OneCode
<1>3. ASSUME Release("a") PROVE TraceInv'
  <2>1. Send("a", <<158>>) /\ held' = held \ {"a"} /\ capital' = capital
    BY <1>3 DEF Release, BreakCodes
  <2>2. held' \subseteq Key
    BY <1>1, <2>1
  <2>3. ASSUME NEW w \in View, Matches(w)
        PROVE  Says("a", 158, w) /\ Matches(Decoded(w, 158))'
    <3>0. Says("a", 158, w)
      BY OtherCode
    <3> DEFINE x == Decoded(w, 158)
    <3>1. Turns(w, 158, x)
      BY DecodedTurns DEF Codes
    <3> HIDE DEF x
    <3>2. Matches(x)'
      BY <2>1, <2>3, <3>1 DEF Matches, Turns, Shifted, Bases
    <3> QED
      BY <3>0, <3>2 DEF x
  <2> DEFINE c == 158
  <2>4. /\ c \in Codes \ {29, 157, 224} /\ Send("a", <<c>>)
        /\ \A w \in View : Matches(w) => Says("a", c, w) /\ Matches(Decoded(w, c))'
    BY <2>1, <2>3 DEF Codes
  <2> HIDE DEF c
  <2> QED
    BY <1>1, <2>1, <2>2, <2>4, OneCode
<1> QED
  BY <1>2, <1>3

LEMMA ShiftKeeps ==
  ASSUME TraceInv, Press("LShift") \/ Repeat("LShift") \/ Release("LShift"), "LShift" \in Key
  PROVE  TraceInv'
<1>1. held \subseteq Key /\ capital \in BOOLEAN
  BY DEF TraceInv
<1>2. ASSUME Press("LShift") \/ Repeat("LShift") PROVE TraceInv'
  <2> DEFINE c == 42
  <2>1. Send("LShift", <<42>>) /\ held' = held \cup {"LShift"} /\ capital' = capital
    BY <1>1, <1>2 DEF Press, Repeat, MakeCodes
  <2>2. held' \subseteq Key /\ capital' \in BOOLEAN
    BY <1>1, <2>1
  <2>3. ASSUME NEW w \in View, Matches(w) PROVE Matches(Decoded(w, 42))'
    <3> DEFINE x == Decoded(w, 42)
    <3>1. Turns(w, 42, x)
      BY DecodedTurns DEF Codes, Bases
    <3> HIDE DEF x
    <3>2. /\ ~x.ext /\ x.shift /\ (x.ctrl <=> w.ctrl) /\ (x.caps <=> w.caps)
          /\ 42 \in x.down /\ (58 \in x.down <=> 58 \in w.down)
          /\ (30 \in x.down <=> 30 \in w.down) /\ (29 \in x.down <=> 29 \in w.down)
          /\ (72 \in x.down <=> 72 \in w.down)
      BY <3>1 DEF Turns, Bases
    <3>3. /\ "LShift" \in held'
          /\ \A k \in {"a", "Up", "RCtrl", "Caps"} : k \in held' <=> k \in held
      BY <2>1
    <3>4. Matches(x)'
      BY <2>1, <2>3, <3>2, <3>3 DEF Matches, Shifted
    <3> QED
      BY <3>4 DEF x
  <2>4. c \in Codes \ {29, 157, 224} /\ Send("LShift", <<c>>)
    BY <2>1 DEF Codes, Bases
  <2>5. \A w \in View : Matches(w) => Matches(Decoded(w, c))'
    BY <2>3
  <2> HIDE DEF c
  <2>6. \A w \in View : Matches(w) => Says("LShift", c, w) /\ Matches(Decoded(w, c))'
    BY <2>5, OtherCode
  <2> QED
    BY <2>2, <2>4, <2>6, OneCode
<1>3. ASSUME Release("LShift") PROVE TraceInv'
  <2> DEFINE c == 170
  <2>1. Send("LShift", <<170>>) /\ held' = held \ {"LShift"} /\ capital' = capital
    BY <1>3 DEF Release, BreakCodes
  <2>2. held' \subseteq Key /\ capital' \in BOOLEAN
    BY <1>1, <2>1
  <2>3. ASSUME NEW w \in View, Matches(w) PROVE Matches(Decoded(w, 170))'
    <3> DEFINE x == Decoded(w, 170)
    <3>1. Turns(w, 170, x)
      BY DecodedTurns DEF Codes
    <3> HIDE DEF x
    <3>2. /\ ~x.ext /\ ~x.shift /\ (x.ctrl <=> w.ctrl) /\ (x.caps <=> w.caps)
          /\ 42 \notin x.down /\ (58 \in x.down <=> 58 \in w.down)
          /\ (30 \in x.down <=> 30 \in w.down) /\ (29 \in x.down <=> 29 \in w.down)
          /\ (72 \in x.down <=> 72 \in w.down)
      BY <3>1 DEF Turns, Bases
    <3>3. /\ "LShift" \notin held'
          /\ \A k \in {"a", "Up", "RCtrl", "Caps"} : k \in held' <=> k \in held
      BY <2>1
    <3>4. Matches(x)'
      BY <2>1, <2>3, <3>2, <3>3 DEF Matches, Shifted
    <3> QED
      BY <3>4 DEF x
  <2>4. c \in Codes \ {29, 157, 224} /\ Send("LShift", <<c>>)
    BY <2>1 DEF Codes
  <2>5. \A w \in View : Matches(w) => Matches(Decoded(w, c))'
    BY <2>3
  <2> HIDE DEF c
  <2>6. \A w \in View : Matches(w) => Says("LShift", c, w) /\ Matches(Decoded(w, c))'
    BY <2>5, OtherCode
  <2> QED
    BY <2>2, <2>4, <2>6, OneCode
<1> QED
  BY <1>2, <1>3

LEMMA CapsKeeps ==
  ASSUME TraceInv, Press("Caps") \/ Repeat("Caps") \/ Release("Caps"), "Caps" \in Key
  PROVE  TraceInv'
<1>1. held \subseteq Key /\ capital \in BOOLEAN
  BY DEF TraceInv
<1>2. ASSUME Press("Caps") \/ Repeat("Caps") PROVE TraceInv'
  <2> DEFINE c == 58
  <2>1. /\ Send("Caps", <<58>>) /\ held' = held \cup {"Caps"}
        /\ capital' = IF "Caps" \in held THEN capital ELSE ~capital
    BY <1>1, <1>2 DEF Press, Repeat, MakeCodes
  <2>2. held' \subseteq Key /\ capital' \in BOOLEAN
    BY <1>1, <2>1
  <2>3. ASSUME NEW w \in View, Matches(w) PROVE Matches(Decoded(w, 58))'
    <3> DEFINE x == Decoded(w, 58)
    <3>1. Turns(w, 58, x)
      BY DecodedTurns DEF Codes, Bases
    <3> HIDE DEF x
    <3>2. /\ ~x.ext /\ (x.shift <=> w.shift) /\ (x.ctrl <=> w.ctrl)
          /\ x.caps <=> IF 58 \in w.down THEN w.caps ELSE ~w.caps
          /\ 58 \in x.down /\ (42 \in x.down <=> 42 \in w.down)
          /\ (30 \in x.down <=> 30 \in w.down) /\ (29 \in x.down <=> 29 \in w.down)
          /\ (72 \in x.down <=> 72 \in w.down)
      BY <3>1 DEF Turns, Bases
    <3>3. /\ "Caps" \in held'
          /\ \A k \in {"a", "Up", "RCtrl", "LShift"} : k \in held' <=> k \in held
      BY <2>1
    <3>4. x.caps <=> capital'
      BY <1>1, <2>1, <2>3, <3>2 DEF Matches
    <3>5. Matches(x)'
      BY <2>3, <3>2, <3>3, <3>4 DEF Matches, Shifted
    <3> QED
      BY <3>5 DEF x
  <2>4. c \in Codes \ {29, 157, 224} /\ Send("Caps", <<c>>)
    BY <2>1 DEF Codes, Bases
  <2>5. \A w \in View : Matches(w) => Matches(Decoded(w, c))'
    BY <2>3
  <2> HIDE DEF c
  <2>6. \A w \in View : Matches(w) => Says("Caps", c, w) /\ Matches(Decoded(w, c))'
    BY <2>5, OtherCode
  <2> QED
    BY <2>2, <2>4, <2>6, OneCode
<1>3. ASSUME Release("Caps") PROVE TraceInv'
  <2> DEFINE c == 186
  <2>1. Send("Caps", <<186>>) /\ held' = held \ {"Caps"} /\ capital' = capital
    BY <1>3 DEF Release, BreakCodes
  <2>2. held' \subseteq Key /\ capital' \in BOOLEAN
    BY <1>1, <2>1
  <2>3. ASSUME NEW w \in View, Matches(w) PROVE Matches(Decoded(w, 186))'
    <3> DEFINE x == Decoded(w, 186)
    <3>1. Turns(w, 186, x)
      BY DecodedTurns DEF Codes
    <3> HIDE DEF x
    <3>2. /\ ~x.ext /\ (x.shift <=> w.shift) /\ (x.ctrl <=> w.ctrl) /\ (x.caps <=> w.caps)
          /\ 58 \notin x.down /\ (42 \in x.down <=> 42 \in w.down)
          /\ (30 \in x.down <=> 30 \in w.down) /\ (29 \in x.down <=> 29 \in w.down)
          /\ (72 \in x.down <=> 72 \in w.down)
      BY <3>1 DEF Turns, Bases
    <3>3. /\ "Caps" \notin held'
          /\ \A k \in {"a", "Up", "RCtrl", "LShift"} : k \in held' <=> k \in held
      BY <2>1
    <3>4. Matches(x)'
      BY <2>1, <2>3, <3>2, <3>3 DEF Matches, Shifted
    <3> QED
      BY <3>4 DEF x
  <2>4. c \in Codes \ {29, 157, 224} /\ Send("Caps", <<c>>)
    BY <2>1 DEF Codes
  <2>5. \A w \in View : Matches(w) => Matches(Decoded(w, c))'
    BY <2>3
  <2> HIDE DEF c
  <2>6. \A w \in View : Matches(w) => Says("Caps", c, w) /\ Matches(Decoded(w, c))'
    BY <2>5, OtherCode
  <2> QED
    BY <2>2, <2>4, <2>6, OneCode
<1> QED
  BY <1>2, <1>3

LEMMA ControlKeeps ==
  ASSUME TraceInv, Press("RCtrl") \/ Repeat("RCtrl") \/ Release("RCtrl"), "RCtrl" \in Key
  PROVE  TraceInv'
<1>1. held \subseteq Key /\ capital \in BOOLEAN
  BY DEF TraceInv
<1>2. ASSUME Press("RCtrl") \/ Repeat("RCtrl") PROVE TraceInv'
  <2> DEFINE c == 29
  <2>1. Send("RCtrl", <<224, 29>>) /\ held' = held \cup {"RCtrl"} /\ capital' = capital
    BY <1>1, <1>2 DEF Press, Repeat, MakeCodes
  <2>2. held' \subseteq Key /\ capital' \in BOOLEAN
    BY <1>1, <2>1
  <2>3. ASSUME NEW w \in View, Matches(w) PROVE Matches(Decoded(w, 29))'
    <3> DEFINE x == Decoded(w, 29)
    <3>1. Turns(w, 29, x)
      BY DecodedTurns DEF Codes, Bases
    <3> HIDE DEF x
    <3>2. /\ ~x.ext /\ (x.shift <=> w.shift) /\ x.ctrl /\ (x.caps <=> w.caps)
          /\ 29 \in x.down /\ (58 \in x.down <=> 58 \in w.down)
          /\ (30 \in x.down <=> 30 \in w.down) /\ (42 \in x.down <=> 42 \in w.down)
          /\ (72 \in x.down <=> 72 \in w.down)
      BY <3>1 DEF Turns, Bases
    <3>3. /\ "RCtrl" \in held'
          /\ \A k \in {"a", "Up", "LShift", "Caps"} : k \in held' <=> k \in held
      BY <2>1
    <3>4. Matches(x)'
      BY <2>1, <2>3, <3>2, <3>3 DEF Matches, Shifted
    <3> QED
      BY <3>4 DEF x
  <2>4. c \in Codes \ {224} /\ Send("RCtrl", <<224, c>>)
    BY <2>1 DEF Codes, Bases
  <2>5. \A w \in View : Matches(w) => Matches(Decoded(w, c))'
    BY <2>3
  <2> HIDE DEF c
  <2> QED
    BY <2>2, <2>4, <2>5, TwoCodes
<1>3. ASSUME Release("RCtrl") PROVE TraceInv'
  <2> DEFINE c == 157
  <2>1. Send("RCtrl", <<224, 157>>) /\ held' = held \ {"RCtrl"} /\ capital' = capital
    BY <1>3 DEF Release, BreakCodes
  <2>2. held' \subseteq Key /\ capital' \in BOOLEAN
    BY <1>1, <2>1
  <2>3. ASSUME NEW w \in View, Matches(w) PROVE Matches(Decoded(w, 157))'
    <3> DEFINE x == Decoded(w, 157)
    <3>1. Turns(w, 157, x)
      BY DecodedTurns DEF Codes
    <3> HIDE DEF x
    <3>2. /\ ~x.ext /\ (x.shift <=> w.shift) /\ ~x.ctrl /\ (x.caps <=> w.caps)
          /\ 29 \notin x.down /\ (58 \in x.down <=> 58 \in w.down)
          /\ (30 \in x.down <=> 30 \in w.down) /\ (42 \in x.down <=> 42 \in w.down)
          /\ (72 \in x.down <=> 72 \in w.down)
      BY <3>1 DEF Turns, Bases
    <3>3. /\ "RCtrl" \notin held'
          /\ \A k \in {"a", "Up", "LShift", "Caps"} : k \in held' <=> k \in held
      BY <2>1
    <3>4. Matches(x)'
      BY <2>1, <2>3, <3>2, <3>3 DEF Matches, Shifted
    <3> QED
      BY <3>4 DEF x
  <2>4. c \in Codes \ {224} /\ Send("RCtrl", <<224, c>>)
    BY <2>1 DEF Codes
  <2>5. \A w \in View : Matches(w) => Matches(Decoded(w, c))'
    BY <2>3
  <2> HIDE DEF c
  <2> QED
    BY <2>2, <2>4, <2>5, TwoCodes
<1> QED
  BY <1>2, <1>3

LEMMA CursorKeeps ==
  ASSUME TraceInv, Press("Up") \/ Repeat("Up") \/ Release("Up"), "Up" \in Key
  PROVE  TraceInv'
<1>1. held \subseteq Key /\ capital \in BOOLEAN
  BY DEF TraceInv
<1>2. ASSUME Press("Up") \/ Repeat("Up"), Shifted PROVE TraceInv'
  <2> DEFINE c == 170
             d == 72
  <2>1. Send("Up", <<224, 170, 224, 72>>) /\ held' = held \cup {"Up"} /\ capital' = capital
    BY <1>1, <1>2 DEF Press, Repeat, MakeCodes
  <2>2. held' \subseteq Key /\ capital' \in BOOLEAN
    BY <1>1, <2>1
  <2>3. ASSUME NEW w \in View, Matches(w) PROVE Matches(Decoded(Decoded(w, 170), 72))'
    <3> DEFINE v == Decoded(w, 170)
               x == Decoded(v, 72)
    <3>1. Turns(w, 170, v)
      BY DecodedTurns DEF Codes
    <3> HIDE DEF v
    <3>2. Turns(v, 72, x)
      <4>1. v \in View
        BY <3>1 DEF Turns
      <4> QED
        BY <4>1, DecodedTurns DEF Codes, Bases
    <3> HIDE DEF x
    <3>3. /\ ~v.shift /\ (v.ctrl <=> w.ctrl) /\ (v.caps <=> w.caps)
          /\ 42 \notin v.down /\ (58 \in v.down <=> 58 \in w.down)
          /\ (30 \in v.down <=> 30 \in w.down) /\ (29 \in v.down <=> 29 \in w.down)
      BY <3>1 DEF Turns, Bases
    <3>4. /\ ~x.ext /\ (x.shift <=> v.shift) /\ (x.ctrl <=> v.ctrl) /\ (x.caps <=> v.caps)
          /\ 72 \in x.down /\ (58 \in x.down <=> 58 \in v.down)
          /\ (30 \in x.down <=> 30 \in v.down) /\ (29 \in x.down <=> 29 \in v.down)
          /\ (42 \in x.down <=> 42 \in v.down)
      BY <3>2 DEF Turns, Bases
    <3>5. /\ "Up" \in held'
          /\ \A k \in {"a", "LShift", "RCtrl", "Caps"} : k \in held' <=> k \in held
      BY <2>1
    <3>6. Matches(x)'
      BY <2>1, <2>3, <3>3, <3>4, <3>5 DEF Matches, Shifted
    <3> QED
      BY <3>6 DEF x, v
  <2>4. c \in Codes \ {224} /\ d \in Codes \ {224} /\ Send("Up", <<224, c, 224, d>>)
    BY <2>1 DEF Codes, Bases
  <2>5. \A w \in View : Matches(w) => Matches(Decoded(Decoded(w, c), d))'
    BY <2>3
  <2> HIDE DEF c, d
  <2> QED
    BY <2>2, <2>4, <2>5, FourCodes
<1>3. ASSUME Press("Up") \/ Repeat("Up"), ~Shifted PROVE TraceInv'
  <2> DEFINE c == 72
  <2>1. Send("Up", <<224, 72>>) /\ held' = held \cup {"Up"} /\ capital' = capital
    BY <1>1, <1>3 DEF Press, Repeat, MakeCodes
  <2>2. held' \subseteq Key /\ capital' \in BOOLEAN
    BY <1>1, <2>1
  <2>3. ASSUME NEW w \in View, Matches(w) PROVE Matches(Decoded(w, 72))'
    <3> DEFINE x == Decoded(w, 72)
    <3>1. Turns(w, 72, x)
      BY DecodedTurns DEF Codes, Bases
    <3> HIDE DEF x
    <3>2. /\ ~x.ext /\ (x.shift <=> w.shift) /\ (x.ctrl <=> w.ctrl) /\ (x.caps <=> w.caps)
          /\ 72 \in x.down /\ (58 \in x.down <=> 58 \in w.down)
          /\ (30 \in x.down <=> 30 \in w.down) /\ (29 \in x.down <=> 29 \in w.down)
          /\ (42 \in x.down <=> 42 \in w.down)
      BY <3>1 DEF Turns, Bases
    <3>3. /\ "Up" \in held'
          /\ \A k \in {"a", "LShift", "RCtrl", "Caps"} : k \in held' <=> k \in held
      BY <2>1
    <3>4. Matches(x)'
      BY <2>1, <2>3, <3>2, <3>3 DEF Matches, Shifted
    <3> QED
      BY <3>4 DEF x
  <2>4. c \in Codes \ {224} /\ Send("Up", <<224, c>>)
    BY <2>1 DEF Codes, Bases
  <2>5. \A w \in View : Matches(w) => Matches(Decoded(w, c))'
    BY <2>3
  <2> HIDE DEF c
  <2> QED
    BY <2>2, <2>4, <2>5, TwoCodes
<1>4. ASSUME Release("Up"), Shifted PROVE TraceInv'
  <2> DEFINE c == 200
             d == 42
  <2>1. Send("Up", <<224, 200, 224, 42>>) /\ held' = held \ {"Up"} /\ capital' = capital
    BY <1>1, <1>4 DEF Release, BreakCodes
  <2>2. held' \subseteq Key /\ capital' \in BOOLEAN
    BY <1>1, <2>1
  <2>3. ASSUME NEW w \in View, Matches(w) PROVE Matches(Decoded(Decoded(w, 200), 42))'
    <3> DEFINE v == Decoded(w, 200)
               x == Decoded(v, 42)
    <3>1. Turns(w, 200, v)
      BY DecodedTurns DEF Codes
    <3> HIDE DEF v
    <3>2. Turns(v, 42, x)
      <4>1. v \in View
        BY <3>1 DEF Turns
      <4> QED
        BY <4>1, DecodedTurns DEF Codes, Bases
    <3> HIDE DEF x
    <3>3. /\ (v.ctrl <=> w.ctrl) /\ (v.caps <=> w.caps)
          /\ 72 \notin v.down /\ (58 \in v.down <=> 58 \in w.down)
          /\ (30 \in v.down <=> 30 \in w.down) /\ (29 \in v.down <=> 29 \in w.down)
      BY <3>1 DEF Turns, Bases
    <3>4. /\ ~x.ext /\ x.shift /\ (x.ctrl <=> v.ctrl) /\ (x.caps <=> v.caps)
          /\ 42 \in x.down /\ (58 \in x.down <=> 58 \in v.down)
          /\ (30 \in x.down <=> 30 \in v.down) /\ (29 \in x.down <=> 29 \in v.down)
          /\ (72 \in x.down <=> 72 \in v.down)
      BY <3>2 DEF Turns, Bases
    <3>5. /\ "Up" \notin held'
          /\ \A k \in {"a", "LShift", "RCtrl", "Caps"} : k \in held' <=> k \in held
      BY <2>1
    <3>6. Matches(x)'
      BY <1>4, <2>1, <2>3, <3>3, <3>4, <3>5 DEF Matches, Shifted
    <3> QED
      BY <3>6 DEF x, v
  <2>4. c \in Codes \ {224} /\ d \in Codes \ {224} /\ Send("Up", <<224, c, 224, d>>)
    BY <2>1 DEF Codes, Bases
  <2>5. \A w \in View : Matches(w) => Matches(Decoded(Decoded(w, c), d))'
    BY <2>3
  <2> HIDE DEF c, d
  <2> QED
    BY <2>2, <2>4, <2>5, FourCodes
<1>5. ASSUME Release("Up"), ~Shifted PROVE TraceInv'
  <2> DEFINE c == 200
  <2>1. Send("Up", <<224, 200>>) /\ held' = held \ {"Up"} /\ capital' = capital
    BY <1>1, <1>5 DEF Release, BreakCodes
  <2>2. held' \subseteq Key /\ capital' \in BOOLEAN
    BY <1>1, <2>1
  <2>3. ASSUME NEW w \in View, Matches(w) PROVE Matches(Decoded(w, 200))'
    <3> DEFINE x == Decoded(w, 200)
    <3>1. Turns(w, 200, x)
      BY DecodedTurns DEF Codes
    <3> HIDE DEF x
    <3>2. /\ ~x.ext /\ (x.shift <=> w.shift) /\ (x.ctrl <=> w.ctrl) /\ (x.caps <=> w.caps)
          /\ 72 \notin x.down /\ (58 \in x.down <=> 58 \in w.down)
          /\ (30 \in x.down <=> 30 \in w.down) /\ (29 \in x.down <=> 29 \in w.down)
          /\ (42 \in x.down <=> 42 \in w.down)
      BY <3>1 DEF Turns, Bases
    <3>3. /\ "Up" \notin held'
          /\ \A k \in {"a", "LShift", "RCtrl", "Caps"} : k \in held' <=> k \in held
      BY <2>1
    <3>4. Matches(x)'
      BY <1>5, <2>1, <2>3, <3>2, <3>3 DEF Matches, Shifted
    <3> QED
      BY <3>4 DEF x
  <2>4. c \in Codes \ {224} /\ Send("Up", <<224, c>>)
    BY <2>1 DEF Codes
  <2>5. \A w \in View : Matches(w) => Matches(Decoded(w, c))'
    BY <2>3
  <2> HIDE DEF c
  <2> QED
    BY <2>2, <2>4, <2>5, TwoCodes
<1> QED
  BY <1>2, <1>3, <1>4, <1>5

LEMMA TraceStays ==
  ASSUME TraceInv, UNCHANGED <<kbdVars, deviceVars>>
  PROVE  TraceInv'
<1>1. UNCHANGED <<mods, key_states, repeat_event, reboot_requested, typed, held, capital,
                  wire, obf, meant>>
  BY DEF kbdVars, deviceVars
<1>2. PICK u, w : Seen(u) /\ Leads(u, obf \o wire, w) /\ Matches(w)
  BY DEF TraceInv
<1>3. Seen(u)'
  BY <1>1, <1>2 DEF Seen, KeyboardTypeOK
<1>4. Matches(w)'
  BY <1>1, <1>2 DEF Matches, Shifted
<1>5. LetterAsMeant'
  BY <1>1 DEF TraceInv, LetterAsMeant
<1>6. (\E v1, v2 : Seen(v1) /\ Leads(v1, obf \o wire, v2) /\ Matches(v2))'
  BY <1>1, <1>2, <1>3, <1>4
<1> QED
  BY <1>1, <1>5, <1>6 DEF TraceInv

\* A byte in front of the codes that wait.
LEMMA Prepended ==
  ASSUME NEW S, NEW e \in S, NEW q \in Seq(S)
  PROVE  /\ <<e>> \o q \in Seq(S) /\ <<e>> \o q # <<>>
         /\ Head(<<e>> \o q) = e /\ Tail(<<e>> \o q) = q
<1> DEFINE r == <<e>> \o q
<1>1. <<e>> \in Seq(S) /\ Len(<<e>>) = 1 /\ <<e>>[1] = e /\ Len(q) \in Nat
  OBVIOUS
<1>2. /\ r \in Seq(S) /\ Len(r) = 1 + Len(q)
      /\ \A i \in 1 .. 1 + Len(q) : r[i] = IF i <= 1 THEN e ELSE q[i - 1]
  <2>1. /\ r \in Seq(S) /\ Len(r) = Len(<<e>>) + Len(q)
        /\ \A i \in 1 .. Len(<<e>>) + Len(q) :
              r[i] = IF i <= Len(<<e>>) THEN <<e>>[i] ELSE q[i - Len(<<e>>)]
    BY <1>1, ConcatProperties
  <2> HIDE DEF r
  <2>2. \A i \in 1 .. 1 + Len(q) : i <= 1 => i = 1
    BY <1>1
  <2> QED
    BY <1>1, <2>1, <2>2
<1> HIDE DEF r
<1>3. r # <<>> /\ Head(r) = e
  BY <1>1, <1>2
<1>4. Tail(r) \in Seq(S) /\ Len(Tail(r)) = Len(q)
  BY <1>1, <1>2, <1>3
<1>5. \A i \in 1 .. Len(q) : Tail(r)[i] = q[i]
  BY <1>1, <1>2, <1>3
<1>6. Tail(r) = q
  BY <1>4, <1>5, SeqEqual
<1> QED
  BY <1>2, <1>3, <1>6 DEF r

\* The byte the handler reads is the next of the codes.
LEMMA HandlerDecodes ==
  ASSUME TraceInv, KeyboardHandler
  PROVE  TraceInv'
<1>1. CASE obf = <<>>
  <2>1. UNCHANGED <<kbdVars, deviceVars>>
    BY <1>1 DEF KeyboardHandler
  <2> QED
    BY <2>1, TraceStays
<1>2. CASE obf # <<>>
  <2>1. PICK e \in Entries : obf = <<e>>
    BY <1>2 DEF TraceInv
  <2>2. PICK u, w : Seen(u) /\ Leads(u, obf \o wire, w) /\ Matches(w)
    BY DEF TraceInv
  <2>3. /\ scancode(e.code) /\ obf' = <<>> /\ meant' = e.means
        /\ UNCHANGED <<held, capital, wire>>
    <3>1. obf[1] = e
      BY <2>1
    <3> QED
      BY <1>2, <3>1 DEF KeyboardHandler
  <2>4. wire \in Seq(Entries)
    BY DEF TraceInv
  <2> DEFINE E == <<e>> \o wire
  <2>5. E \in Seq(Entries) /\ E # <<>> /\ Head(E) = e /\ Tail(E) = wire
    BY <2>4, Prepended
  <2>6. Leads(u, E, w)
    BY <2>1, <2>2
  <2> HIDE DEF E
  <2>7. Fits(u, e) /\ Leads(Decoded(u, e.code), wire, w)
    BY <2>5, <2>6, LeadsFirst
  <2>8. e.code \in Codes /\ (e.code \in {29, 157} => u.ext)
    BY <2>7 DEF Fits
  <2>9. /\ Seen(Decoded(u, e.code))'
        /\ e.code = 30 /\ ~u.ext => typed' = <<LetterOf(u)>>
    BY <2>2, <2>3, <2>8, Decodes
  <2>10. LetterAsMeant'
    BY <2>3, <2>7, <2>9 DEF LetterAsMeant, Fits
  <2>11. obf' \o wire' = wire
    BY <2>3, <2>4
  <2>12. Matches(w)'
    BY <2>2, <2>3 DEF Matches, Shifted
  <2>13. (\E v1, v2 : Seen(v1) /\ Leads(v1, obf \o wire, v2) /\ Matches(v2))'
    BY <2>7, <2>9, <2>11, <2>12
  <2> QED
    BY <2>3, <2>10, <2>13 DEF TraceInv
<1> QED
  BY <1>1, <1>2

LEMMA HeadAndTail ==
  ASSUME NEW S, NEW q \in Seq(S), q # <<>>
  PROVE  <<Head(q)>> \o Tail(q) = q
<1> DEFINE e == Head(q)
           t == Tail(q)
           r == <<e>> \o t
<1>1. e \in S /\ t \in Seq(S) /\ Len(q) \in Nat /\ Len(t) \in Nat /\ Len(q) = 1 + Len(t)
      /\ q[1] = e /\ \A i \in 1 .. Len(t) : t[i] = q[i + 1]
  OBVIOUS
<1> HIDE DEF e, t
<1>2. <<e>> \in Seq(S) /\ Len(<<e>>) = 1 /\ <<e>>[1] = e
  BY <1>1
<1>3. /\ r \in Seq(S) /\ Len(r) = Len(<<e>>) + Len(t)
      /\ \A i \in 1 .. Len(<<e>>) + Len(t) :
            r[i] = IF i <= Len(<<e>>) THEN <<e>>[i] ELSE t[i - Len(<<e>>)]
  BY <1>1, <1>2, ConcatProperties
<1> HIDE DEF r
<1>4. Len(r) = Len(q)
  BY <1>1, <1>2, <1>3
<1>5. ASSUME NEW i \in 1 .. Len(r) PROVE r[i] = q[i]
  <2>1. CASE i = 1
    BY <1>1, <1>2, <1>3, <2>1
  <2>2. CASE i # 1
    <3>1. i - 1 \in 1 .. Len(t) /\ (i - 1) + 1 = i /\ ~(i <= 1)
      BY <1>1, <1>4, <2>2
    <3>2. r[i] = t[i - 1] /\ t[i - 1] = q[i]
      BY <1>1, <1>2, <1>3, <3>1
    <3> QED
      BY <3>2
  <2> QED
    BY <2>1, <2>2
<1>6. r = q
  BY <1>3, <1>4, <1>5, SeqEqual
<1> QED
  BY <1>6 DEF r, e, t

\* The byte that enters the output buffer is still the first of the codes.
LEMMA FillMoves ==
  ASSUME TraceInv, Fill
  PROVE  TraceInv'
<1>1. /\ wire \in Seq(Entries) /\ wire # <<>> /\ obf = <<>>
      /\ obf' = <<Head(wire)>> /\ wire' = Tail(wire)
      /\ UNCHANGED <<mods, key_states, repeat_event, reboot_requested, typed, held, capital,
                     meant>>
  BY DEF TraceInv, Fill, kbdVars
<1>2. Head(wire) \in Entries /\ Tail(wire) \in Seq(Entries)
  BY <1>1
<1>3. obf' \o wire' = obf \o wire
  <2>1. <<Head(wire)>> \o Tail(wire) = wire
    BY <1>1, HeadAndTail
  <2>2. obf \o wire = wire
    BY <1>1
  <2> QED
    BY <1>1, <2>1, <2>2
<1>4. PICK u, w : Seen(u) /\ Leads(u, obf \o wire, w) /\ Matches(w)
  BY DEF TraceInv
<1>5. Seen(u)'
  BY <1>1, <1>4 DEF Seen, KeyboardTypeOK
<1>6. Matches(w)'
  BY <1>1, <1>4 DEF Matches, Shifted
<1>7. LetterAsMeant'
  BY <1>1 DEF TraceInv, LetterAsMeant
<1>8. (\E v1, v2 : Seen(v1) /\ Leads(v1, obf \o wire, v2) /\ Matches(v2))'
  BY <1>3, <1>4, <1>5, <1>6
<1> QED
  BY <1>1, <1>2, <1>7, <1>8 DEF TraceInv

\* Every step keeps the invariant.
LEMMA TraceKept ==
  ASSUME TraceInv, [InputNext]_inputVars
  PROVE  TraceInv'
<1>1. CASE UNCHANGED inputVars
  BY <1>1, TraceStays DEF inputVars
<1>2. CASE Elsewhere
  BY <1>2, TraceStays DEF Elsewhere
<1>3. CASE KeyboardHandler
  BY <1>3, HandlerDecodes
<1>4. CASE Fill
  BY <1>4, FillMoves
<1>5. CASE \E k \in Key : Press(k) \/ Repeat(k) \/ Release(k)
  <2>1. PICK k \in Key : Press(k) \/ Repeat(k) \/ Release(k)
    BY <1>5
  <2>2. k \in {"a", "LShift", "Caps", "RCtrl", "Up"}
    BY KeyboardInputAssumption
  <2>3. CASE k = "a"
    BY <2>1, <2>3, LetterKeeps
  <2>4. CASE k = "LShift"
    BY <2>1, <2>4, ShiftKeeps
  <2>5. CASE k = "Caps"
    BY <2>1, <2>5, CapsKeeps
  <2>6. CASE k = "RCtrl"
    BY <2>1, <2>6, ControlKeeps
  <2>7. CASE k = "Up"
    BY <2>1, <2>7, CursorKeeps
  <2> QED
    BY <2>2, <2>3, <2>4, <2>5, <2>6, <2>7
<1> QED
  BY <1>1, <1>2, <1>3, <1>4, <1>5 DEF InputNext

LEMMA TraceInit == InputInit => TraceInv
<1> SUFFICES ASSUME InputInit PROVE TraceInv
  OBVIOUS
<1> DEFINE u == [ext |-> FALSE, shift |-> FALSE, ctrl |-> FALSE, caps |-> FALSE, down |-> {}]
<1>1. /\ mods = [m \in Held \cup Lock \cup {"extended"} |-> FALSE]
      /\ key_states = {} /\ repeat_event = FALSE /\ reboot_requested = FALSE
      /\ held = {} /\ capital = FALSE /\ wire = <<>> /\ obf = <<>> /\ meant = ""
  BY DEF InputInit, KeyboardInit
<1>2. KeyboardTypeOK
  BY <1>1 DEF KeyboardTypeOK
<1>3. u \in View
  BY DEF View
<1>4. Seen(u)
  <2>1. /\ mods.extended = FALSE /\ mods.shift_left = FALSE /\ mods.ctrl_right = FALSE
        /\ mods.caps_lock = FALSE /\ mods.shift_right = FALSE /\ mods.ctrl_left = FALSE
        /\ mods.alt_left = FALSE /\ mods.alt_right = FALSE
    BY <1>1 DEF Held, Lock
  <2> QED
    BY <1>1, <1>2, <1>3, <2>1 DEF Seen
<1>5. Matches(u)
  BY <1>1 DEF Matches, Shifted
<1> HIDE DEF u
<1>6. Leads(u, obf \o wire, u)
  <2>1. obf = <<>> /\ wire = <<>>
    BY <1>1
  <2>2. obf \o wire = <<>>
    BY <2>1
  <2> QED
    BY <1>3, <2>2, LeadsNowhere
<1>7. wire \in Seq(Entries)
  BY <1>1, ShortSeqs
<1> QED
  BY <1>1, <1>4, <1>5, <1>6, <1>7 DEF TraceInv, LetterAsMeant

\* With no code on its way the decoder is in the state that matches the keys.
LEMMA TraceImplies == TraceInv => ModifiersFollowKeys /\ LetterAsMeant
<1> SUFFICES ASSUME TraceInv PROVE ModifiersFollowKeys
  BY DEF TraceInv
<1>1. PICK u, w : Seen(u) /\ Leads(u, obf \o wire, w) /\ Matches(w)
  BY DEF TraceInv
<1>2. KeyboardTypeOK
  BY <1>1 DEF Seen
<1>3. ASSUME Quiet
      PROVE  /\ ~mods.extended
             /\ "Up" \notin held => (mods.shift_left <=> Shifted)
             /\ mods.ctrl_right <=> "RCtrl" \in held
             /\ ~mods.ctrl_left
             /\ mods.caps_lock = capital
             /\ held = {} => key_states = {}
  <2>1. obf \o wire = <<>>
    BY <1>3 DEF Quiet
  <2>2. u = w
    BY <1>1, <2>1, LeadsNowhere
  <2>3. Seen(w) /\ Matches(w)
    BY <1>1, <2>2
  <2>4. ~mods.extended /\ ("Up" \notin held => (mods.shift_left <=> Shifted))
        /\ (mods.ctrl_right <=> "RCtrl" \in held) /\ ~mods.ctrl_left
    BY <2>3 DEF Seen, Matches
  <2>5. mods.caps_lock = capital
    <3>1. mods.caps_lock <=> capital
      BY <2>3 DEF Seen, Matches
    <3>2. mods.caps_lock \in BOOLEAN /\ capital \in BOOLEAN
      BY <1>2 DEF KeyboardTypeOK, Lock, TraceInv
    <3> QED
      BY <3>1, <3>2
  <2>6. held = {} => key_states = {}
    <3>1. key_states \subseteq Bases
      BY <2>3 DEF Seen, View
    <3>2. held = {} => \A b \in Bases : b \notin key_states
      BY <2>3 DEF Seen, Matches, Bases
    <3> QED
      BY <3>1, <3>2
  <2> QED
    BY <2>4, <2>5, <2>6
<1> QED
  BY <1>2, <1>3 DEF ModifiersFollowKeys

\* However many codes wait when the next key is used, whatever the layout, and however
\* presses, repeats and releases interleave with the handler: once every code has been
\* decoded the modifiers are those of the keys that are down, Caps Lock that of its
\* presses, and with no key down the decoder takes none to be down
\* (keyboard.c:221-249, 291-342).
THEOREM ModifiersFollow == InputSpec => []ModifiersFollowKeys
<1>1. TraceInv /\ [InputNext]_inputVars => TraceInv'
  BY TraceKept
<1> QED
  BY <1>1, TraceInit, TraceImplies, PTL DEF InputSpec

\* And the letter key puts the character the user meant when the key went down, although
\* the codes before its own were decoded only later (keyboard.c:178-187, 379-408).
THEOREM LettersAsMeant == InputSpec => []LetterAsMeant
<1>1. TraceInv /\ [InputNext]_inputVars => TraceInv'
  BY TraceKept
<1> QED
  BY <1>1, TraceInit, TraceImplies, PTL DEF InputSpec
=============================================================================
