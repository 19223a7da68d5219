------------------------------- MODULE Keyboard -------------------------------
(***************************************************************************)
(* The scancode decoder of keyboard_handler (drivers/keyboard/keyboard.c): *)
(* modifiers, prefixes, key repeat, and what a scancode puts into the      *)
(* character ring.  A scancode is a byte of set 1: a prefix, or a key's    *)
(* base code, with 128 added when the key is released.                     *)
(***************************************************************************)
EXTENDS Integers, Sequences

CONSTANTS
  lowercase, uppercase,   \* the current layout's maps, for its one-character keys
  Control,                \* the control character of each character that has one
  key_repeat_enabled      \* no code calls keyboard_set_key_repeat

ASSUME KeyboardAssumption ==
  /\ DOMAIN lowercase \subseteq 0 .. 127 /\ DOMAIN uppercase = DOMAIN lowercase
  /\ key_repeat_enabled \in BOOLEAN

VARIABLES
  mods,               \* the keyboard_mods_t
  key_states,         \* the base codes whose bit is set
  repeat_event, reboot_requested,
  typed               \* what the last scancode put into the ring

kbdVars == <<mods, key_states, repeat_event, reboot_requested, typed>>

Scancode == 0 .. 255
PREFIX_E0 == 224
PREFIX_E1 == 225
RELEASE   == 128

Held == {"shift_left", "shift_right", "ctrl_left", "ctrl_right",
         "alt_left", "alt_right", "gui_left", "gui_right"}
Lock == {"caps_lock", "num_lock", "scroll_lock"}

KeyboardInit ==
  /\ mods = [m \in Held \cup Lock \cup {"extended"} |-> FALSE]
  /\ key_states = {}
  /\ repeat_event = FALSE /\ reboot_requested = FALSE
  /\ typed = <<>>

shift_active(m) == m.shift_left \/ m.shift_right
ctrl_active(m)  == m.ctrl_left \/ m.ctrl_right
alt_active(m)   == m.alt_left \/ m.alt_right

\* The modifier a key holds down, and the lock it toggles.
HeldBy(base, extended) ==
  CASE base = 42 -> {"shift_left"}
    [] base = 54 -> {"shift_right"}
    [] base = 29 -> {IF extended THEN "ctrl_right" ELSE "ctrl_left"}
    [] base = 56 -> {IF extended THEN "alt_right" ELSE "alt_left"}
    [] base = 91 -> {"gui_left"}
    [] base = 92 -> {"gui_right"}
    [] OTHER -> {}
ToggledBy(base) ==
  CASE base = 58 -> {"caps_lock"}
    [] base = 69 -> {"num_lock"}
    [] base = 70 -> {"scroll_lock"}
    [] OTHER -> {}

\* Faulty: a lock goes on toggling while its key is held.
SpecialKeysRepeat(base, make, repeat) ==
  [m \in DOMAIN mods |->
     CASE m \in HeldBy(base, mods.extended) -> make
       [] m \in ToggledBy(base) /\ make -> ~mods[m]
       [] OTHER -> mods[m]]

handle_special_keys(base, make, repeat) ==
  [m \in DOMAIN mods |->
     CASE m \in HeldBy(base, mods.extended) -> make
       [] m \in ToggledBy(base) /\ make /\ ~repeat -> ~mods[m]
       [] OTHER -> mods[m]]

\* The escape sequence of a cursor key.
handle_cursor_movement(base) ==
  CASE base = 72 -> <<"ESC", "[", "A">>
    [] base = 80 -> <<"ESC", "[", "B">>
    [] base = 75 -> <<"ESC", "[", "D">>
    [] base = 77 -> <<"ESC", "[", "C">>
    [] base = 71 -> <<"ESC", "[", "H">>
    [] base = 79 -> <<"ESC", "[", "F">>
    [] base = 83 -> <<"ESC", "[", "3", "~">>
    [] OTHER -> <<>>

\* Faulty: caps lock overrides shift.
LetterCapsOrShift(base, m) ==
  IF shift_active(m) \/ m.caps_lock THEN uppercase[base] ELSE lowercase[base]

get_char_from_scancode(base, m) ==
  IF shift_active(m) # m.caps_lock THEN uppercase[base] ELSE lowercase[base]

\* A key whose name in the map is longer than a character puts nothing.
process_character(base, m) ==
  IF base = 28 THEN <<"\n">>
  ELSE IF base \notin DOMAIN lowercase THEN <<>>
  ELSE LET c == get_char_from_scancode(base, m)
       IN  IF ctrl_active(m) /\ ~alt_active(m) /\ c \in DOMAIN Control
           THEN <<Control[c]>> ELSE <<c>>

Reboots(base, m, repeat) ==
  mods.extended /\ base = 83 /\ ctrl_active(m) /\ alt_active(m) /\ ~repeat

\* What the press of a key puts, with the modifiers m as they are afterwards.
Emitted(base, m, repeat) ==
  CASE repeat /\ ~key_repeat_enabled    -> <<>>
    [] mods.extended /\ base = 28       -> <<"\n">>
    [] Reboots(base, m, repeat)         -> <<>>
    [] mods.extended                    -> handle_cursor_movement(base)
    [] base = 14                        -> <<"BS">>
    [] OTHER                            -> process_character(base, m)
-----------------------------------------------------------------------------
prefix(sc) ==
  /\ sc \in {PREFIX_E0, PREFIX_E1}
  /\ mods' = [mods EXCEPT !.extended = (sc = PREFIX_E0)]
  /\ typed' = <<>>
  /\ UNCHANGED <<key_states, repeat_event, reboot_requested>>

key(sc) ==
  /\ sc \notin {PREFIX_E0, PREFIX_E1}
  /\ LET base   == sc % RELEASE
         make   == sc < RELEASE
         repeat == make /\ base \in key_states
         m      == handle_special_keys(base, make, repeat)
     IN  /\ repeat_event' = repeat
         /\ key_states' = IF make THEN key_states \cup {base} ELSE key_states \ {base}
         /\ mods' = [m EXCEPT !.extended = FALSE]
         /\ typed' = IF make THEN Emitted(base, m, repeat) ELSE <<>>
         /\ reboot_requested' = (reboot_requested \/ (make /\ Reboots(base, m, repeat)))

scancode(sc) == prefix(sc) \/ key(sc)
-----------------------------------------------------------------------------
\* Types of the variables.
KeyboardTypeOK ==
  /\ mods \in [Held \cup Lock \cup {"extended"} -> BOOLEAN]
  /\ key_states \subseteq 0 .. 127
  /\ repeat_event \in BOOLEAN /\ reboot_requested \in BOOLEAN
=============================================================================
