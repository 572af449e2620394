------------------------------ MODULE Keyboard ------------------------------
(***************************************************************************)
(* The scan-code decoder (drivers/keyboard.rs) behind a PS/2 keyboard.     *)
(*                                                                         *)
(* The keyboard sends a sequence of bytes per key, of one to six bytes,    *)
(* and every byte is an interrupt of its own; the decoder carries its      *)
(* state from one to the next.  `wire' holds the bytes sent and not yet    *)
(* read, so a key may go down or up while the bytes of another are still   *)
(* on their way.  `held' and `caps' are the keys themselves, and `meant'   *)
(* what their user asked for and has not been decoded: the decoder does    *)
(* not see these three.                                                    *)
(***************************************************************************)
EXTENDS Integers, FiniteSets, Sequences, SequencesExt, TLC

CONSTANTS
  Keys,      \* the keys in use, by the names of Scancode below
  MAX_HELD,  \* bound: keys held down at a time
  WIRE       \* bound: bytes not yet read when another key is sent

\* What the constants must satisfy.
KeyboardBounds == MAX_HELD \in Nat \ {0} /\ WIRE \in Nat \ {0}

VARIABLES
  kb,     \* struct Keyboard
  wire,   \* bytes the controller will deliver, oldest first
  held,   \* keys that are down
  caps,   \* what the user takes caps lock to be
  meant   \* keys asked for, whose bytes are not all read

vars == <<kb, wire, held, caps, meant>>

None == -1
Flags == {"extended", "left_shift", "right_shift", "left_ctrl", "right_ctrl",
          "left_alt", "right_alt", "caps_lock", "num_lock", "scroll_lock"}
New == [f \in Flags |-> FALSE] @@ [pause_remaining |-> 0]

(* ----------------------------- key tables ------------------------------ *)

Named(name) == [name |-> name, char |-> 0]
Char(c) == [name |-> "Char", char |-> c]

\* The characters of codes 0x02 to 0x53, 0 where the code is no character.
NormalChars ==
  <<0, 49, 50, 51, 52, 53, 54, 55, 56, 57, 48, 45, 61, 0, 0,
    113, 119, 101, 114, 116, 121, 117, 105, 111, 112, 91, 93, 0, 0,
    97, 115, 100, 102, 103, 104, 106, 107, 108, 59, 39, 96, 0, 92,
    122, 120, 99, 118, 98, 110, 109, 44, 46, 47, 0, 42, 0, 0, 0,
    0, 0, 0, 0, 0, 0, 0, 0, 0, 0, 0, 0,
    55, 56, 57, 45, 52, 53, 54, 43, 49, 50, 51, 48, 46>>

NormalNames ==
  1 :> "Escape" @@ 14 :> "Backspace" @@ 15 :> "Tab" @@ 28 :> "Enter" @@ 29 :> "LeftCtrl"
  @@ 42 :> "LeftShift" @@ 54 :> "RightShift" @@ 56 :> "LeftAlt" @@ 57 :> "Space"
  @@ 58 :> "CapsLock" @@ 69 :> "NumLock" @@ 70 :> "ScrollLock"
  @@ [code \in (59 .. 68) \cup {87, 88} |-> "F"]

ExtendedNames ==
  28 :> "Enter" @@ 29 :> "RightCtrl" @@ 56 :> "RightAlt" @@ 71 :> "Home" @@ 72 :> "ArrowUp"
  @@ 73 :> "PageUp" @@ 75 :> "ArrowLeft" @@ 77 :> "ArrowRight" @@ 79 :> "End"
  @@ 80 :> "ArrowDown" @@ 81 :> "PageDown" @@ 82 :> "Insert" @@ 83 :> "Delete"

normal_key(code) ==
  CASE code \in DOMAIN NormalNames -> Named(NormalNames[code])
    [] code \in DOMAIN NormalChars /\ NormalChars[code] # 0 -> Char(NormalChars[code])
    [] OTHER -> Named("Unknown")

extended_key(code) ==
  CASE code \in DOMAIN ExtendedNames -> Named(ExtendedNames[code])
    [] code = 53 -> Char(47)
    [] OTHER -> Named("Unknown")

(* ------------------------------ characters ----------------------------- *)

IsLetter(c) == c \in 97 .. 122

\* 1234567890-=[]\;'`,./ and, in the same places, !@#$%^&*()_+{}|:"~<>?
Unshifted == <<49, 50, 51, 52, 53, 54, 55, 56, 57, 48, 45, 61, 91, 93, 92, 59, 39, 96, 44, 46, 47>>
Shifted   == <<33, 64, 35, 36, 37, 94, 38, 42, 40, 41, 95, 43, 123, 125, 124, 58, 34, 126, 60, 62, 63>>

Shift(c) == IF c \in ToSet(Unshifted) THEN Shifted[CHOOSE i \in DOMAIN Unshifted : Unshifted[i] = c]
            ELSE c

Ascii == "Space" :> 32 @@ "Enter" :> 10 @@ "Tab" :> 9 @@ "Backspace" :> 8 @@ "Escape" :> 27

\* Ctrl is tested before the case is: 'A' and 'a' both give byte 1.  The
\* code's second test of Ctrl, for the other characters, never applies to them.
to_ascii(k, key) ==
  LET shifted == k.left_shift \/ k.right_shift
      upper == shifted # k.caps_lock
  IN  CASE key.name = "Char" /\ IsLetter(key.char) ->
             CASE k.right_alt /\ key.char = 119 -> 124
               [] k.left_ctrl \/ k.right_ctrl -> key.char - 96
               [] upper -> key.char - 32
               [] OTHER -> key.char
        [] key.name = "Char" -> IF shifted THEN Shift(key.char) ELSE key.char
        [] key.name \in DOMAIN Ascii -> Ascii[key.name]
        [] OTHER -> None

(* -------------------------- process_scancode --------------------------- *)

FlagOf == "LeftShift" :> "left_shift" @@ "RightShift" :> "right_shift" @@ "LeftCtrl" :> "left_ctrl"
  @@ "RightCtrl" :> "right_ctrl" @@ "LeftAlt" :> "left_alt" @@ "RightAlt" :> "right_alt"

LockOf == "CapsLock" :> "caps_lock" @@ "NumLock" :> "num_lock" @@ "ScrollLock" :> "scroll_lock"

\* The flags after a key of the given name went up or down.
Modified(k, name, released) ==
  CASE name \in DOMAIN FlagOf -> [k EXCEPT ![FlagOf[name]] = ~released]
    [] name \in DOMAIN LockOf /\ ~released -> [k EXCEPT ![LockOf[name]] = ~@]
    [] OTHER -> k

\* No event, or one the interrupt handler ignores.
Silent(k) == [kb |-> k, name |-> "none", ascii |-> None]

\* A prefix applies to the one code after it.
PrefixUsed(k) == [k EXCEPT !.extended = FALSE]

\* The decoder after one byte, and the event: the key that went down and its
\* character, if it has one.
process_scancode(k, scancode) ==
  LET code == scancode % 128
      released == scancode >= 128
      key == IF k.extended THEN extended_key(code) ELSE normal_key(code)
      k2 == Modified(PrefixUsed(k), key.name, released)
  IN  CASE k.pause_remaining > 0 -> Silent([k EXCEPT !.pause_remaining = @ - 1])
        [] k.pause_remaining = 0 /\ scancode = 225 ->
             Silent([k EXCEPT !.extended = FALSE, !.pause_remaining = 5])
        [] k.pause_remaining = 0 /\ scancode = 224 -> Silent([k EXCEPT !.extended = TRUE])
        [] OTHER -> IF released THEN Silent(k2)
                    ELSE [kb |-> k2, name |-> key.name, ascii |-> to_ascii(k2, key)]

(* ------------------ what the interrupt handler passes on --------------- *)

SpecialKeys ==
  "ArrowLeft" :> 128 @@ "ArrowRight" :> 129 @@ "ArrowUp" :> 130 @@ "ArrowDown" :> 131
  @@ "Home" :> 132 @@ "End" :> 133 @@ "Delete" :> 134 @@ "PageUp" :> 135 @@ "PageDown" :> 136

\* Control bytes other than these, such as Ctrl-A, are dropped.
Passed(byte) == byte \in {10, 9, 8, 3, 17, 19, 27} \/ byte \in 32 .. 126

\* Mutant: every control character is passed on.
BytesSpecialOnly(event) ==
  CASE event.name \in DOMAIN SpecialKeys -> <<SpecialKeys[event.name]>>
    [] event.ascii # None -> <<event.ascii>>
    [] OTHER -> <<>>

\* The byte handed to a queue for an event, if any.
Bytes(event) ==
  CASE event.ascii # None -> IF Passed(event.ascii) THEN <<event.ascii>> ELSE <<>>
    [] event.ascii = None /\ event.name \in DOMAIN SpecialKeys -> <<SpecialKeys[event.name]>>
    [] OTHER -> <<>>

(* ---------------------- the keyboard and its user ---------------------- *)

\* Scan codes of the keys in use; those of Gray are sent with the prefix 0xE0.
Scancode ==
  "c" :> 46 @@ "w" :> 17 @@ "7" :> 8 @@ "enter" :> 28 @@ "lshift" :> 42 @@ "rshift" :> 54
  @@ "lctrl" :> 29 @@ "rctrl" :> 29 @@ "lalt" :> 56 @@ "altgr" :> 56 @@ "caps" :> 58
  @@ "left" :> 75 @@ "kp_enter" :> 28 @@ "pause" :> 0

Gray == {"rctrl", "altgr", "left", "kp_enter"}
Arrows == {"left"}

Down(set) == held \cap set # {}

\* An arrow key pretends that the shift keys are up while it is down.
FakeShift(offset) ==
  (IF "lshift" \in held THEN <<224, 42 + offset>> ELSE <<>>)
  \o (IF "rshift" \in held THEN <<224, 54 + offset>> ELSE <<>>)

Make(key) ==
  CASE key = "pause" -> IF Down({"lctrl", "rctrl"}) THEN <<224, 70, 224, 198>>
                        ELSE <<225, 29, 69, 225, 157, 197>>
    [] key \in Arrows -> FakeShift(128) \o <<224, Scancode[key]>>
    [] key \in Gray \ Arrows -> <<224, Scancode[key]>>
    [] OTHER -> <<Scancode[key]>>

Break(key) ==
  CASE key = "pause" -> <<>>
    [] key \in Arrows -> <<224, Scancode[key] + 128>> \o FakeShift(0)
    [] key \in Gray \ Arrows -> <<224, Scancode[key] + 128>>
    [] OTHER -> <<Scancode[key] + 128>>

\* What the user means by a key, given the other keys that are down: the
\* letters with their legends and control characters, of which the system
\* takes Ctrl-C and not Ctrl-W.
Meaning(key) ==
  LET shift == Down({"lshift", "rshift"})
      ctrl == Down({"lctrl", "rctrl"})
      big == shift # caps
  IN  CASE key = "c" -> IF ctrl THEN <<3>> ELSE IF big THEN <<67>> ELSE <<99>>
        [] key = "w" -> IF Down({"altgr"}) THEN <<124>> ELSE IF ctrl THEN <<>>
                        ELSE IF big THEN <<87>> ELSE <<119>>
        [] key = "7" -> IF shift THEN <<38>> ELSE <<55>>
        [] key \in {"enter", "kp_enter"} -> <<10>>
        [] key = "left" -> <<128>>
        [] OTHER -> <<>>

(* ------------------------------- actions ------------------------------- *)

Init ==
  /\ kb = New
  /\ wire = <<>>
  /\ held = {}
  /\ caps = FALSE
  /\ meant = <<>>

\* A key goes down, or repeats while it is down.  Caps lock repeats too, and
\* every repetition counts, for the decoder as for its user.
Press(key) ==
  /\ Len(wire) <= WIRE
  /\ key \notin held => Cardinality(held) < MAX_HELD
  /\ wire' = wire \o Make(key)
  /\ held' = IF key = "pause" THEN held ELSE held \cup {key}
  /\ caps' = (caps # (key = "caps"))
  /\ meant' = meant \o Meaning(key)
  /\ UNCHANGED kb

Release(key) ==
  /\ key \in held
  /\ Len(wire) <= WIRE
  /\ wire' = wire \o Break(key)
  /\ held' = held \ {key}
  /\ UNCHANGED <<kb, caps, meant>>

\* keyboard_interrupt_handler, up to the choice of a queue, which is KeyInput's.
KeyboardInterrupt ==
  /\ wire # <<>>
  /\ LET event == process_scancode(kb, Head(wire))
     IN  /\ kb' = event.kb
         /\ meant' = SubSeq(meant, 1 + Len(Bytes(event)), Len(meant))
  /\ wire' = Tail(wire)
  /\ UNCHANGED <<held, caps>>

Next ==
  \/ \E key \in Keys : Press(key)
  \/ \E key \in Keys : Release(key)
  \/ KeyboardInterrupt

Spec == Init /\ [][Next]_vars

(* ------------------------------ properties ----------------------------- *)

\* The decoder and the bytes it has produced once it has read all of `wire'.
Decoded ==
  FoldLeft(LAMBDA acc, scancode :
             LET event == process_scancode(acc.kb, scancode)
             IN  [kb |-> event.kb, bytes |-> acc.bytes \o Bytes(event)],
           [kb |-> kb, bytes |-> <<>>], wire)

\* However keys overlap and wherever between two bytes the decoder stands,
\* the bytes on the way decode to the keys the user meant, in their order:
\* no scan code of one key is taken for a part of another, no prefix or
\* shift that the keyboard itself inserts becomes a key, and a character is
\* built with the modifiers that were down when its key was pressed.
KeysDecodeAsMeant == Decoded.bytes = meant

\* When it has read them all, process_scancode has exactly the modifiers that
\* are down, the two keys of a pair told apart; no prefix and no part of a
\* Pause sequence is left over, and caps lock is what its user takes it to be.
FlagsFollowKeys ==
  Decoded.kb = [New EXCEPT
    !.left_shift = Down({"lshift"}), !.right_shift = Down({"rshift"}),
    !.left_ctrl = Down({"lctrl"}), !.right_ctrl = Down({"rctrl"}),
    !.left_alt = Down({"lalt"}), !.right_alt = Down({"altgr"}),
    !.caps_lock = caps]
=============================================================================
