-------------------------------- MODULE Keys --------------------------------
(***************************************************************************)
(* From scan codes to what keyboard_interrupt does: the flags for shift,   *)
(* caps lock, control and alt, the tables of characters, and the choice of *)
(* what a key means.  What is done then is in LineDiscipline, Screen and   *)
(* ProcessControl.                                                         *)
(*                                                                         *)
(* A key sends its code when it is pressed, again and again while it is    *)
(* held, and the code plus 128 when it is released.  The right control and *)
(* alt keys send the codes of the left ones, after a prefix that the       *)
(* handler takes for a key without a meaning.                              *)
(***************************************************************************)
EXTENDS Integers, Sequences

CONSTANTS
  Codes,     \* the codes of the keys that are pressed, modifiers excepted
  Garbage    \* what the uninitialised c of scan_code_to_char may be

VARIABLES
  caps_lock_on, shift_on, ctrl_on, alt_on,
  scan,      \* history: the code that came last
  did,       \* what the handler did for it
  held,      \* history: modifier keys that are held down
  unsure     \* history: kinds of modifiers of which one key was released
             \* and another one stayed down, with nothing pressed since

kvars == <<caps_lock_on, shift_on, ctrl_on, alt_on, scan, did, held, unsure>>

SCAN_ESC == 1
SCAN_BACKSPACE == 14
SCAN_TAB == 15
SCAN_ENTER == 28
SCAN_CTRL == 29
SCAN_L == 38
SCAN_LSHIFT == 42
SCAN_RSHIFT == 54
SCAN_ALT == 56
SCAN_CAPS == 58
SCAN_FONE == 59
SCAN_FTHREE == 61
DUMMY == 58
Prefix == 224

-----------------------------------------------------------------------------
(* The tables: digits, letters in alphabetical order, then ` - = [ ] \ ;   *)
(* ' , . / and space.                                                      *)

Scans == <<11, 2, 3, 4, 5, 6, 7, 8, 9, 10,
           30, 48, 46, 32, 18, 33, 34, 35, 23, 36, 37, 38, 50,
           49, 24, 25, 16, 19, 31, 20, 22, 47, 17, 45, 21, 44,
           41, 12, 13, 26, 27, 43, 39, 40, 51, 52, 53, 57>>

Digits == [i \in 1 .. 10 |-> 47 + i]
OverDigits == <<41, 33, 64, 35, 36, 37, 94, 38, 42, 40>>
LowerCase == [i \in 1 .. 26 |-> 96 + i]
UpperCase == [i \in 1 .. 26 |-> 64 + i]
Marks == <<96, 45, 61, 91, 93, 92, 59, 39, 44, 46, 47, 32>>
OverMarks == <<126, 95, 43, 123, 125, 124, 58, 34, 60, 62, 63, 32>>

scan_code_set == Digits \o LowerCase \o Marks
scan_code_set_caps == Digits \o UpperCase \o Marks
scan_code_set_shift == OverDigits \o UpperCase \o OverMarks
scan_code_set_shift_caps == OverDigits \o LowerCase \o OverMarks

(* The characters that scan_code_to_char may return: one, or any for a     *)
(* code that is in no table.                                               *)
ScanCodeToChar(code, shift, caps) ==
  LET table == IF shift = 1
                 THEN IF caps = 1 THEN scan_code_set_shift_caps
                                  ELSE scan_code_set_shift
                 ELSE IF caps = 1 THEN scan_code_set_caps ELSE scan_code_set
      at == {i \in 1 .. Len(Scans) : Scans[i] = code}
  IN  IF at = {} THEN Garbage ELSE {table[i] : i \in at}

-----------------------------------------------------------------------------
Flag(on, code, set, reset) ==
  IF code \in set THEN 1 ELSE IF code \in reset THEN 0 ELSE on

(* mutant: the release of the right shift key is ignored *)
SetKeyboardFlagsLeft(code) ==
  /\ ctrl_on' = Flag(ctrl_on, code, {SCAN_CTRL}, {SCAN_CTRL + 128})
  /\ shift_on' = Flag(shift_on, code, {SCAN_LSHIFT, SCAN_RSHIFT},
                      {SCAN_LSHIFT + 128})
  /\ alt_on' = Flag(alt_on, code, {SCAN_ALT}, {SCAN_ALT + 128})
  /\ caps_lock_on' = IF code = SCAN_CAPS THEN 1 - caps_lock_on ELSE caps_lock_on

SetKeyboardFlags(code) ==
  /\ ctrl_on' = Flag(ctrl_on, code, {SCAN_CTRL}, {SCAN_CTRL + 128})
  /\ shift_on' = Flag(shift_on, code, {SCAN_LSHIFT, SCAN_RSHIFT},
                      {SCAN_LSHIFT + 128, SCAN_RSHIFT + 128})
  /\ alt_on' = Flag(alt_on, code, {SCAN_ALT}, {SCAN_ALT + 128})
  /\ caps_lock_on' = IF code = SCAN_CAPS THEN 1 - caps_lock_on ELSE caps_lock_on

Types(code) ==
  /\ code < DUMMY
  /\ code \notin {SCAN_LSHIFT, SCAN_RSHIFT, SCAN_CTRL, SCAN_TAB, SCAN_ESC,
                  SCAN_ALT}

(* The tests of keyboard_interrupt, in their order.  Those for a terminal  *)
(* do not return, but none of the others holds for a function key.         *)
Meaning(code, caps, shift, ctrl, alt) ==
  IF alt = 1 /\ code \in SCAN_FONE .. SCAN_FTHREE
    THEN {<<"terminal", code - SCAN_FONE + 1>>}
  ELSE IF ctrl = 1 /\ code = SCAN_L THEN {<<"clear", 0>>}
  ELSE IF code = SCAN_ENTER THEN {<<"enter", 0>>}
  ELSE IF code = SCAN_BACKSPACE THEN {<<"backspace", 0>>}
  ELSE IF Types(code)
    THEN {<<"type", c>> : c \in ScanCodeToChar(code, shift, caps)}
  ELSE {<<"nothing", 0>>}

Interrupt(code) ==
  /\ scan' = code
  /\ SetKeyboardFlags(code)
  /\ did' \in Meaning(code, caps_lock_on', shift_on', ctrl_on', alt_on')

-----------------------------------------------------------------------------
Modifiers == {[kind |-> "shift", code |-> SCAN_LSHIFT, right |-> FALSE],
              [kind |-> "shift", code |-> SCAN_RSHIFT, right |-> TRUE],
              [kind |-> "ctrl", code |-> SCAN_CTRL, right |-> FALSE],
              [kind |-> "ctrl", code |-> SCAN_CTRL, right |-> TRUE],
              [kind |-> "alt", code |-> SCAN_ALT, right |-> FALSE],
              [kind |-> "alt", code |-> SCAN_ALT, right |-> TRUE]}

KeysInit ==
  /\ caps_lock_on = 0 /\ shift_on = 0 /\ ctrl_on = 0 /\ alt_on = 0
  /\ scan = Prefix
  /\ did = <<"nothing", 0>>
  /\ held = {}
  /\ unsure = {}

(* A key, pressed, held or released.                                       *)
Key(code) ==
  /\ Interrupt(code) \/ Interrupt(code + 128)
  /\ UNCHANGED <<held, unsure>>

(* The prefix comes first and changes nothing but what was done last.      *)
ExtendedPrefix == Interrupt(Prefix) /\ UNCHANGED <<held, unsure>>

Press(m) ==
  /\ Interrupt(m.code)
  /\ held' = held \cup {m}
  /\ unsure' = unsure \ {m.kind}

Release(m) ==
  /\ m \in held
  /\ Interrupt(m.code + 128)
  /\ held' = held \ {m}
  /\ unsure' = IF \E n \in held' : n.kind = m.kind THEN unsure \cup {m.kind}
                                                   ELSE unsure \ {m.kind}

KeysNext == \/ \E code \in Codes : Key(code)
            \/ ExtendedPrefix
            \/ \E m \in Modifiers : Press(m) \/ Release(m)

-----------------------------------------------------------------------------
(* The legends of a keyboard, row by row from the left: the code of the    *)
(* first key of a row, and the characters without and with shift.          *)
Rows ==
  {[first |-> 2,
    plain |-> <<49, 50, 51, 52, 53, 54, 55, 56, 57, 48, 45, 61>>,
    shifted |-> <<33, 64, 35, 36, 37, 94, 38, 42, 40, 41, 95, 43>>],
   [first |-> 16,
    plain |-> <<113, 119, 101, 114, 116, 121, 117, 105, 111, 112, 91, 93>>,
    shifted |-> <<81, 87, 69, 82, 84, 89, 85, 73, 79, 80, 123, 125>>],
   [first |-> 30,
    plain |-> <<97, 115, 100, 102, 103, 104, 106, 107, 108, 59, 39, 96>>,
    shifted |-> <<65, 83, 68, 70, 71, 72, 74, 75, 76, 58, 34, 126>>],
   [first |-> 43,
    plain |-> <<92, 122, 120, 99, 118, 98, 110, 109, 44, 46, 47>>,
    shifted |-> <<124, 90, 88, 67, 86, 66, 78, 77, 60, 62, 63>>],
   [first |-> 57, plain |-> <<32>>, shifted |-> <<32>>]}

Holds(kind) == \E m \in held : m.kind = kind

(* The character of a key: caps lock is for letters only, and shift undoes *)
(* it.                                                                     *)
Legend(row) ==
  LET i == scan - row.first + 1
      letter == row.plain[i] \in 97 .. 122
      upper == IF letter THEN Holds("shift") # (caps_lock_on = 1)
                         ELSE Holds("shift")
  IN  IF upper THEN row.shifted[i] ELSE row.plain[i]

(* What the last code did is what the user expects from the key and from   *)
(* the modifiers that are held down, in whatever order they were pressed,  *)
(* held and released; nothing happens at the release of a key.  Left out:  *)
(* a modifier of which only one of two keys was released.                  *)
KeyMeans ==
  unsure = {} =>
    /\ \A row \in Rows :
         scan \in row.first .. row.first + Len(row.plain) - 1 =>
           did = IF scan = SCAN_L /\ Holds("ctrl") THEN <<"clear", 0>>
                                                   ELSE <<"type", Legend(row)>>
    /\ did[1] = "terminal" <=>
         scan \in SCAN_FONE .. SCAN_FTHREE /\ Holds("alt")
    /\ scan >= 128 => did = <<"nothing", 0>>

=============================================================================
