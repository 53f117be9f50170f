------------------------------- MODULE Screen -------------------------------
(***************************************************************************)
(* The text screen: putc, scroll_up, clear, the echo and the editing that  *)
(* keyboard_interrupt does on it, and the copies of the screens of the     *)
(* terminals that are not shown.                                           *)
(*                                                                         *)
(* screen_x and screen_y are not kept in range: Backspace at the left edge *)
(* makes screen_x negative, and a byte of video memory is addressed as     *)
(* NUM_COLS * screen_y + screen_x.  The page below video memory is not     *)
(* mapped, so a negative address ends in the page fault handler, which     *)
(* never returns.                                                          *)
(***************************************************************************)
EXTENDS TerminalSet

CONSTANTS
  NumCols,     \* NUM_COLS (80 in the code)
  NumRows,     \* NUM_ROWS (25 in the code)
  Glyphs,      \* printable characters
  MaxWrite     \* the longest text that a program writes at once

Blank == 0     \* an empty cell: 0 or ' '

ASSUME ScreenAssumption ==
  /\ NumCols \in Nat /\ NumCols > 1 /\ NumRows \in Nat \ {0}
  /\ NumRows * NumCols <= 2^16    \* a cursor position has 16 bits
  /\ Glyphs \subseteq Nat \ {Blank, LineFeed}
  /\ MaxWrite \in Nat

VARIABLES
  display,      \* [video_mem, screen_x, screen_y, cursor]
  line_idx,     \* end_buf_idx: characters of the line that is typed
  shown,        \* current_terminal
  screens,      \* terminal -> display (without cursor) and line_idx
  seen,         \* history: hidden terminal -> [display, idx] when left
  faulted       \* the page fault handler loops

svars == <<display, line_idx, shown, screens, seen, faulted>>

NumCells == NumRows * NumCols
ClearVideo == [i \in 0 .. NumCells - 1 |-> Blank]

(* % of C takes the sign of its left operand.                              *)
Rem(a, b) == IF a >= 0 THEN a % b ELSE -((-a) % b)

Pos(d) == NumCols * d.screen_y + d.screen_x

(* update_cursor(screen_x, screen_y): 16 bits go to the VGA registers.     *)
UpdateCursor(d) == [d EXCEPT !.cursor = Pos(d) % 2^16]

-----------------------------------------------------------------------------
ScrollUp(d) ==
  UpdateCursor([d EXCEPT
    !.video_mem = [i \in 0 .. NumCells - 1 |->
       IF i + NumCols < NumCells THEN d.video_mem[i + NumCols] ELSE Blank],
    !.screen_x = 0,
    !.screen_y = NumRows - 1])

Clear(d) ==
  UpdateCursor([d EXCEPT !.video_mem = ClearVideo, !.screen_x = 0,
                         !.screen_y = 0])

NewLine(d) == IF d.screen_y + 1 >= NumRows
                THEN ScrollUp(d)
                ELSE [d EXCEPT !.screen_x = 0, !.screen_y = @ + 1]

(* The row after the last one is row 0: the test that would scroll comes   *)
(* after the reduction and never holds.                                    *)
PutGlyph(d, c) ==
  LET x == d.screen_x + 1
      y == IF x >= NumCols THEN d.screen_y + 1 ELSE d.screen_y
  IN  [d EXCEPT !.video_mem[Pos(d)] = c,
                !.screen_x = Rem(x, NumCols),
                !.screen_y = y % NumRows]

Putc(d, c) == UpdateCursor(IF c = LineFeed THEN NewLine(d) ELSE PutGlyph(d, c))

BlankDisplay == [video_mem |-> ClearVideo, screen_x |-> 0, screen_y |-> 0,
                 cursor |-> 0]
NoCopy == [video |-> ClearVideo, x |-> 0, y |-> 0, idx |-> 0]
NotSeen == [display |-> BlankDisplay, idx |-> 0]

ScreenInit ==
  /\ display = BlankDisplay
  /\ line_idx = 0
  /\ shown = 1
  /\ screens = [t \in Terminals |-> NoCopy]
  /\ seen = [t \in Terminals |-> NotSeen]
  /\ faulted = FALSE

-----------------------------------------------------------------------------
(* The loop of terminal_write: the display after each of its rounds.       *)
Written(d, text) ==
  LET put[n \in 0 .. Len(text)] == IF n = 0 THEN d ELSE Putc(put[n - 1], text[n])
  IN  put

(* terminal_write, with interrupts disabled.                               *)
TerminalWrite(text) ==
  /\ ~faulted
  /\ display' = Written(display, text)[Len(text)]
  /\ UNCHANGED <<line_idx, shown, screens, seen, faulted>>

(* terminal_read takes the line.                                           *)
TerminalRead ==
  /\ ~faulted
  /\ line_idx' = 0
  /\ UNCHANGED <<display, shown, screens, seen, faulted>>

(* mutant: the corner is not treated apart           *)
EchoNoScroll(d, c) == Putc(d, c)

Echo(d, c) ==
  Putc(IF d.screen_x = NumCols - 1 /\ d.screen_y = NumRows - 1
         THEN ScrollUp(d) ELSE UpdateCursor(d), c)

(* The last character that fits in the buffer is not shown any more.       *)
EchoChar(c) ==
  /\ ~faulted
  /\ line_idx < BufferSize - 1
  /\ line_idx' = line_idx + 1
  /\ display' = IF line_idx' > BufferSize - 2 THEN display
                                                 ELSE Echo(display, c)
  /\ UNCHANGED <<shown, screens, seen, faulted>>

EchoEnter ==
  /\ ~faulted
  /\ display' = UpdateCursor(NewLine(display))
  /\ UNCHANGED <<line_idx, shown, screens, seen, faulted>>

EchoBackspace ==
  LET x == Rem(display.screen_x - 1, NumCols)
      d == [display EXCEPT !.screen_x = x, !.screen_y = @ % NumRows]
  IN  /\ ~faulted
      /\ line_idx > 0
      /\ IF Pos(d) < 0
           THEN faulted' = TRUE /\ UNCHANGED <<display, line_idx>>
           ELSE /\ display' = UpdateCursor([d EXCEPT !.video_mem[Pos(d)] = Blank])
                /\ line_idx' = line_idx - 1
                /\ UNCHANGED faulted
      /\ UNCHANGED <<shown, screens, seen>>

(* Ctrl+L leaves the line that is typed.                                   *)
KeyClear ==
  /\ ~faulted
  /\ display' = Clear(display)
  /\ UNCHANGED <<line_idx, shown, screens, seen, faulted>>

(* mutant: the cursor is left where it was           *)
ShowNoCursor(s) ==
  [video_mem |-> s.video, screen_x |-> s.x, screen_y |-> s.y,
   cursor |-> display.cursor]

Show(s) ==
  UpdateCursor([video_mem |-> s.video, screen_x |-> s.x, screen_y |-> s.y,
                cursor |-> display.cursor])

(* mutant: screen_y is not saved                     *)
SaveNoRow ==
  [video |-> display.video_mem, x |-> display.screen_x,
   y |-> screens[shown].y, idx |-> line_idx]

Save == [video |-> display.video_mem, x |-> display.screen_x,
         y |-> display.screen_y, idx |-> line_idx]

(* terminal_switch, then terminalone, terminaltwo or terminalthree.  The   *)
(* copy of the terminal that is shown is left out: the next switch writes  *)
(* it before anybody reads it.                                             *)
ShowTerminal(t) ==
  LET now == [screens EXCEPT ![shown] = Save]
  IN  /\ ~faulted
      /\ screens' = [now EXCEPT ![t] = NoCopy]
      /\ display' = Show(now[t])
      /\ line_idx' = now[t].idx
      /\ shown' = t
      /\ seen' = [seen EXCEPT ![shown] =
                                [display |-> display, idx |-> line_idx],
                              ![t] = NotSeen]
      /\ UNCHANGED faulted

Texts == UNION {[1 .. n -> Glyphs \cup {LineFeed}] : n \in 1 .. MaxWrite}

ScreenNext == \/ \E text \in Texts : TerminalWrite(text)
              \/ TerminalRead
              \/ \E c \in Glyphs : EchoChar(c)
              \/ EchoEnter \/ EchoBackspace \/ KeyClear
              \/ \E t \in Terminals : ShowTerminal(t)

ScreenSpec == ScreenInit /\ [][ScreenNext]_svars

-----------------------------------------------------------------------------
(* Every variable keeps its type.                                          *)
ScreenTypeOK ==
  /\ display.video_mem \in [0 .. NumCells - 1 -> Glyphs \cup {Blank}]
  /\ display.screen_x \in 1 - NumCols .. NumCols - 1
  /\ display.screen_y \in 0 .. NumRows - 1
  /\ line_idx \in 0 .. BufferSize - 1
  /\ shown \in Terminals
  /\ faulted \in BOOLEAN

(* A kernel that still runs has the place of the next character inside     *)
(* video memory, although screen_x alone may be negative, and the VGA      *)
(* shows its cursor there: after every key, every write and every switch.  *)
CursorShown ==
  /\ Pos(display) \in 0 .. NumCells - 1
  /\ display.cursor = Pos(display)

(* A character that is typed appears just before the cursor, at the bottom *)
(* right corner, too, where the screen scrolls first.                      *)
EchoVisible ==
  [][\A c \in Glyphs :
       EchoChar(c) /\ line_idx' <= BufferSize - 2 =>
         /\ Pos(display') > 0
         /\ display'.video_mem[Pos(display') - 1] = c]_svars

(* A terminal that is shown again looks as it did when it was left: its    *)
(* text, its cursor and the length of its line.                            *)
ScreensKept ==
  [][\A t \in Terminals \ {shown} :
       ShowTerminal(t) => display' = seen[t].display
                         /\ line_idx' = seen[t].idx]_svars

=============================================================================
