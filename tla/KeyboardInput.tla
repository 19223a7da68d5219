---------------------------- MODULE KeyboardInput ----------------------------
(***************************************************************************)
(* A key from the finger to the character ring: the keyboard and its       *)
(* controller, which send the codes of set 1 one at a time and raise       *)
(* request 1 for each; the dispatch of the interrupt; and the decoder,     *)
(* which reads one byte for each interrupt.                                *)
(*                                                                         *)
(* No key is pressed before remap: a byte that waits in the controller     *)
(* then would never be read (see the README).                              *)
(***************************************************************************)
EXTENDS Interrupts, Keyboard

CONSTANTS
  Key,           \* the keys of this keyboard
  MAX_WIRE       \* bound: codes waiting when the next key is used

ASSUME KeyboardInputAssumption ==
  /\ MAX_WIRE \in Nat /\ 1 \in Registered \cap Opened
  /\ Key \subseteq {"a", "LShift", "Caps", "RCtrl", "Up"}
  /\ 30 \in DOMAIN lowercase
  /\ lowercase[30] \in DOMAIN Control /\ uppercase[30] \in DOMAIN Control
  /\ key_repeat_enabled

VARIABLES
  held,          \* the keys that are down
  capital,       \* the user has pressed Caps Lock an odd number of times
  wire,          \* the codes the keyboard has still to send, each with the
                 \* character the user means by it, "" if that is not known
  obf,           \* the byte in the controller's output buffer, if any
  meant          \* the character meant by the byte decoded last

deviceVars == <<held, capital, wire, obf, meant>>
inputVars  == <<irqVars, kbdVars, deviceVars>>

InputInit ==
  /\ IrqInit /\ KeyboardInit
  /\ held = {} /\ capital = FALSE
  /\ wire = <<>> /\ obf = <<>> /\ meant = ""

\* The codes a key sends.  While a Shift key is down, a cursor key first releases it
\* and puts it back at its end.
Shifted == "LShift" \in held
MakeCodes(k) ==
  CASE k = "a"      -> <<30>>
    [] k = "LShift" -> <<42>>
    [] k = "Caps"   -> <<58>>
    [] k = "RCtrl"  -> <<224, 29>>
    [] k = "Up"     -> IF Shifted THEN <<224, 170, 224, 72>> ELSE <<224, 72>>
BreakCodes(k) ==
  CASE k = "a"      -> <<158>>
    [] k = "LShift" -> <<170>>
    [] k = "Caps"   -> <<186>>
    [] k = "RCtrl"  -> <<224, 157>>
    [] k = "Up"     -> IF Shifted THEN <<224, 200, 224, 42>> ELSE <<224, 200>>

\* The character the user means by the letter key, "" while a cursor key is down.
Letter ==
  LET c == IF Shifted # capital THEN uppercase[30] ELSE lowercase[30]
  IN  IF "Up" \in held THEN "" ELSE IF "RCtrl" \in held THEN Control[c] ELSE c

Send(k, codes) ==
  /\ Len(wire) <= MAX_WIRE
  /\ wire' = wire \o [n \in 1 .. Len(codes) |->
                        [code  |-> codes[n],
                         means |-> IF k = "a" /\ codes[n] = 30 THEN Letter ELSE ""]]
  /\ UNCHANGED <<irqVars, kbdVars, obf, meant>>

Press(k) ==
  /\ boot # "remap" /\ k \notin held
  /\ Send(k, MakeCodes(k))
  /\ held' = held \cup {k}
  /\ capital' = (capital # (k = "Caps"))

\* The keyboard repeats the press of a key that stays down.
Repeat(k) ==
  /\ k \in held
  /\ Send(k, MakeCodes(k))
  /\ UNCHANGED <<held, capital>>

Release(k) ==
  /\ k \in held
  /\ Send(k, BreakCodes(k))
  /\ held' = held \ {k}
  /\ UNCHANGED capital

\* The next byte enters the empty output buffer, and its edge is latched.
Fill ==
  /\ obf = <<>> /\ wire # <<>>
  /\ obf' = <<Head(wire)>> /\ wire' = Tail(wire)
  /\ irr' = irr \cup {1}
  /\ UNCHANGED <<isr, imr, irq_handlers, boot, IF_flag, frames, kbdVars, held, capital, meant>>

\* keyboard_handler: with no byte it gives up after 1000 looks at the status.
KeyboardHandler ==
  /\ HandlerReturns(1)
  /\ IF obf = <<>>
     THEN UNCHANGED <<kbdVars, deviceVars>>
     ELSE /\ scancode(obf[1].code)
          /\ obf' = <<>> /\ meant' = obf[1].means
          /\ UNCHANGED <<held, capital, wire>>

\* Everything that is not about the keyboard.
Elsewhere ==
  /\ \/ Start \/ cli \/ Dispatch
     \/ \E i \in Registered : Accept(i)
     \/ \E i \in Registered \ {1} : Raise(i) \/ HandlerReturns(i)
     \/ SpuriousMaster \/ SpuriousSlave
  /\ UNCHANGED <<kbdVars, deviceVars>>

InputNext ==
  \/ \E k \in Key : Press(k) \/ Repeat(k) \/ Release(k)
  \/ Fill \/ KeyboardHandler \/ Elsewhere

InputSpec == InputInit /\ [][InputNext]_inputVars
-----------------------------------------------------------------------------
\* Every code sent has been decoded.
Quiet == wire = <<>> /\ obf = <<>>

\* When every code has been decoded, the modifiers are those of the keys that are
\* down and of the presses of Caps Lock, whatever prefixes, repeats and releases of
\* Shift on behalf of a cursor key came in between (keyboard.c:221-249, 291-342).
ModifiersFollowKeys ==
  /\ KeyboardTypeOK
  /\ Quiet =>
       /\ ~mods.extended
       /\ "Up" \notin held => (mods.shift_left <=> Shifted)
       /\ mods.ctrl_right <=> "RCtrl" \in held
       /\ ~mods.ctrl_left
       /\ mods.caps_lock = capital
       /\ held = {} => key_states = {}

\* The decoder puts for the letter key what the user meant when the key went down,
\* although it decodes the code after the codes that were still waiting then
\* (keyboard.c:178-187, 379-408).
LetterAsMeant == meant # "" => typed = <<meant>>

\* A byte in the output buffer has a request that is latched, or being dispatched to
\* a handler that will read it: the keyboard waits for that read before it raises
\* the next edge, so a byte without a request would be the last one
\* (interrupts.c:189-211, keyboard.c:209-219 and 284).
ByteHasRequest ==
  obf # <<>> =>
    \/ 1 \in irr
    \/ \E n \in DOMAIN frames : frames[n].irq = 1 /\ frames[n].at # "eoi"
=============================================================================
