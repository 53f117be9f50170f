---------------------------- MODULE ScreenProofs ----------------------------
(***************************************************************************)
(* Proofs about Screen, for every size of the screen, of the line buffer   *)
(* and of the texts that programs write.                                   *)
(*                                                                         *)
(* The inductive invariant says of every display, the one that is shown    *)
(* and the ones that were left, that the place of the next character is    *)
(* not below video memory (screen_x alone may be negative) and that the    *)
(* cursor is there; and of every hidden terminal, that the copy the kernel *)
(* keeps is the display that was left.                                     *)
(***************************************************************************)
EXTENDS Screen, NaturalsInduction, WellFoundedInduction, TLAPS

Display == [video_mem : [0 .. NumCells - 1 -> Glyphs \cup {Blank}],
            screen_x : 1 - NumCols .. NumCols - 1,
            screen_y : 0 .. NumRows - 1,
            cursor : Int]

(* The display d with another text and another place.                      *)
Moved(d, v, x, y) == [d EXCEPT !.video_mem = v, !.screen_x = x, !.screen_y = y]

Fits(v, x, y) ==
  /\ v \in [0 .. NumCells - 1 -> Glyphs \cup {Blank}]
  /\ x \in 1 - NumCols .. NumCols - 1
  /\ y \in 0 .. NumRows - 1

(* A display that the kernel can go on with.                               *)
Placed(d) == d \in Display /\ Pos(d) >= 0

Good(d) == Placed(d) /\ d.cursor = Pos(d)

HiddenKept(t) ==
  /\ Good(seen[t].display)
  /\ seen[t].idx \in 0 .. BufferSize - 1
  /\ screens[t] = [video |-> seen[t].display.video_mem,
                 x |-> seen[t].display.screen_x,
                 y |-> seen[t].display.screen_y,
                 idx |-> seen[t].idx]

ScreenInv ==
  /\ Good(display)
  /\ line_idx \in 0 .. BufferSize - 1
  /\ shown \in Terminals
  /\ faulted \in BOOLEAN
  /\ DOMAIN screens = Terminals /\ DOMAIN seen = Terminals
  /\ screens = [t \in Terminals |-> screens[t]]
  /\ seen = [t \in Terminals |-> seen[t]]
  /\ \A t \in Terminals \ {shown} : HiddenKept(t)

-----------------------------------------------------------------------------
(* Arithmetic of the screen.                                               *)

(* A set of natural numbers that is not empty has a least element.         *)
LEMMA LeastNumber ==
  ASSUME NEW T \in SUBSET Nat, T # {}
  PROVE  \E n \in T : \A m \in T : n <= m
<1> DEFINE R == OpToRel(<, Nat)
<1>1. IsWellFoundedOn(R, Nat)
  BY NatLessThanWellFounded
<1>2. \A x, y \in Nat : x < y => <<x, y>> \in R
  BY DEF OpToRel
<1> HIDE DEF R
<1>3. PICK x \in T : \A y \in T : ~ (<<y, x>> \in R)
  BY <1>1, WFMin
<1>4. \A y \in T : ~ (y < x) /\ x \in Nat /\ y \in Nat
  BY <1>2, <1>3
<1> QED BY <1>3, <1>4

(* The rows above the last one end before the last one begins.             *)
LEMMA RowBound ==
  ASSUME NEW y \in 0 .. NumRows - 1
  PROVE  /\ NumCols * y \in Nat
         /\ NumCols * (y + 1) = NumCols * y + NumCols
         /\ NumCols * (y + 1) <= NumCells
         /\ NumCells \in Nat
         /\ NumCells <= 65536
<1> USE ScreenAssumption, TerminalAssumption
<1>1. NumCols \in Nat /\ NumRows \in Nat /\ y \in Nat /\ y + 1 \in Nat
  OBVIOUS
<1>2. NumCols * y \in Nat /\ NumCells \in Nat
  BY <1>1 DEF NumCells
<1>3. NumCols * (y + 1) = NumCols * y + NumCols
  BY <1>1
<1>4. NumCols * (y + 1) <= NumCells
  <2>1. PICK k \in Nat : NumRows = y + 1 + k
    <3>1. NumRows - (y + 1) \in Nat
      BY <1>1
    <3>2. NumRows = y + 1 + (NumRows - (y + 1))
      BY <1>1
    <3> QED BY <3>1, <3>2
  <2>2. NumCells = NumCols * (y + 1) + NumCols * k
    BY <1>1, <2>1 DEF NumCells
  <2>3. NumCols * k \in Nat /\ NumCols * (y + 1) \in Nat
    BY <1>1, <2>1
  <2> QED BY <2>2, <2>3
<1>5. NumCells <= 65536
  BY DEF NumCells
<1> QED BY <1>2, <1>3, <1>4, <1>5

(* The place of the next character is inside video memory.                 *)
LEMMA PosBound ==
  ASSUME NEW d, Placed(d)
  PROVE  /\ Pos(d) \in 0 .. NumCells - 1
         /\ Pos(d) % 2^16 = Pos(d)
<1> USE ScreenAssumption, TerminalAssumption
<1>1. d.screen_x \in 1 - NumCols .. NumCols - 1 /\ d.screen_y \in 0 .. NumRows - 1
  BY DEF Placed, Display
<1>2. /\ NumCols * d.screen_y \in Nat
      /\ NumCols * (d.screen_y + 1) = NumCols * d.screen_y + NumCols
      /\ NumCols * (d.screen_y + 1) <= NumCells
      /\ NumCells \in Nat
      /\ NumCells <= 65536
  BY <1>1, RowBound
<1> DEFINE r == NumCols * d.screen_y
           p == Pos(d)
<1>3. p = r + d.screen_x /\ p >= 0
  BY DEF Pos, Placed
<1>4. r \in Nat /\ r + NumCols <= NumCells
  BY <1>2
<1> HIDE DEF r, p
<1>5. p \in 0 .. NumCells - 1
  BY <1>1, <1>2, <1>3, <1>4
<1>6. p % 65536 = p
  BY <1>5, <1>2
<1> QED BY <1>5, <1>6 DEF p

(* A display stays one when its parts are replaced by parts of one.        *)
LEMMA DisplayParts ==
  ASSUME NEW d \in Display, NEW v, NEW x, NEW y, Fits(v, x, y)
  PROVE  /\ Moved(d, v, x, y) \in Display
         /\ Moved(d, v, x, y).video_mem = v
         /\ Moved(d, v, x, y).screen_x = x
         /\ Moved(d, v, x, y).screen_y = y
<1> DEFINE V == [0 .. NumCells - 1 -> Glyphs \cup {Blank}]
           S == 1 - NumCols .. NumCols - 1
           R == 0 .. NumRows - 1
<1>1. v \in V /\ x \in S /\ y \in R
  BY DEF Fits
<1>2. Display = [video_mem : V, screen_x : S, screen_y : R, cursor : Int]
  BY DEF Display
<1> HIDE DEF V, S, R
<1> QED BY <1>1, <1>2 DEF Moved

LEMMA UpdateCursorGood ==
  ASSUME NEW d, Placed(d)
  PROVE  /\ Good(UpdateCursor(d))
         /\ UpdateCursor(d).video_mem = d.video_mem
         /\ UpdateCursor(d).screen_x = d.screen_x
         /\ UpdateCursor(d).screen_y = d.screen_y
         /\ UpdateCursor(d) = [d EXCEPT !.cursor = Pos(d)]
<1>1. UpdateCursor(d) = [d EXCEPT !.cursor = Pos(d)]
  BY PosBound DEF UpdateCursor
<1>2. Pos(d) \in Int
  BY PosBound
<1> DEFINE e == UpdateCursor(d)
<1>3. e \in Display
  BY <1>1, <1>2 DEF Placed, Display
<1>4. /\ e.video_mem = d.video_mem
      /\ e.screen_x = d.screen_x
      /\ e.screen_y = d.screen_y
      /\ e.cursor = Pos(d)
  BY <1>1 DEF Placed, Display
<1>5. Pos(e) = Pos(d)
  BY <1>4 DEF Pos
<1> QED BY <1>1, <1>3, <1>4, <1>5 DEF Placed, Good

(* scroll_up leaves a good display, at the start of the last row.          *)
LEMMA ScrollUpGood ==
  ASSUME NEW d, Placed(d)
  PROVE  /\ Good(ScrollUp(d))
         /\ ScrollUp(d).screen_x = 0
         /\ ScrollUp(d).screen_y = NumRows - 1
<1> USE ScreenAssumption, TerminalAssumption
<1> DEFINE vm == [i \in 0 .. NumCells - 1 |->
                   IF i + NumCols < NumCells THEN d.video_mem[i + NumCols] ELSE Blank]
           e == [d EXCEPT !.video_mem = vm, !.screen_x = 0, !.screen_y = NumRows - 1]
<1>1. ScrollUp(d) = UpdateCursor(e)
  BY DEF ScrollUp
<1>2. d.video_mem \in [0 .. NumCells - 1 -> Glyphs \cup {Blank}] /\ NumCells \in Nat
  BY RowBound DEF Placed, Display, NumCells
<1>3. vm \in [0 .. NumCells - 1 -> Glyphs \cup {Blank}]
  <2> SUFFICES ASSUME NEW i \in 0 .. NumCells - 1
               PROVE  (IF i + NumCols < NumCells THEN d.video_mem[i + NumCols] ELSE Blank)
                        \in Glyphs \cup {Blank}
    OBVIOUS
  <2>1. CASE i + NumCols < NumCells
    <3>1. i + NumCols \in 0 .. NumCells - 1
      BY <2>1, <1>2
    <3> QED BY <3>1, <2>1, <1>2
  <2>2. CASE ~ (i + NumCols < NumCells)
    BY <2>2
  <2> QED BY <2>1, <2>2
<1> HIDE DEF vm
<1>4. d \in Display /\ 0 \in 1 - NumCols .. NumCols - 1 /\ NumRows - 1 \in 0 .. NumRows - 1
  BY DEF Placed
<1>5. e \in Display /\ e.screen_x = 0 /\ e.screen_y = NumRows - 1
  <2>1. e = Moved(d, vm, 0, NumRows - 1)
    BY DEF Moved
  <2>2. Fits(vm, 0, NumRows - 1)
    BY <1>3, <1>4 DEF Fits
  <2> HIDE DEF e
  <2> QED BY <1>4, <2>1, <2>2, DisplayParts
<1>6. Pos(e) >= 0
  <2>1. NumCols * (NumRows - 1) \in Nat
    BY RowBound
  <2> QED BY <2>1, <1>5 DEF Pos
<1>7. Placed(e)
  BY <1>5, <1>6 DEF Placed
<1> QED BY <1>1, <1>5, <1>7, UpdateCursorGood

LEMMA ClearGood ==
  ASSUME NEW d, Placed(d)
  PROVE  Good(Clear(d))
<1> USE ScreenAssumption, TerminalAssumption
<1> DEFINE e == [d EXCEPT !.video_mem = ClearVideo, !.screen_x = 0, !.screen_y = 0]
<1>1. ClearVideo \in [0 .. NumCells - 1 -> Glyphs \cup {Blank}]
  BY DEF ClearVideo
<1>2. e \in Display /\ e.screen_x = 0 /\ e.screen_y = 0
  <2>1. d \in Display /\ 0 \in 1 - NumCols .. NumCols - 1 /\ 0 \in 0 .. NumRows - 1
    BY DEF Placed
  <2>2. e = Moved(d, ClearVideo, 0, 0)
    BY DEF Moved
  <2>3. Fits(ClearVideo, 0, 0)
    BY <1>1, <2>1 DEF Fits
  <2> HIDE DEF e
  <2> QED BY <2>1, <2>2, <2>3, DisplayParts
<1>3. Placed(e)
  BY <1>2 DEF Placed, Pos
<1> QED BY <1>3, UpdateCursorGood DEF Clear

LEMMA NewLinePlaced ==
  ASSUME NEW d, Placed(d)
  PROVE  Placed(NewLine(d))
<1> USE ScreenAssumption, TerminalAssumption
<1>1. CASE d.screen_y + 1 >= NumRows
  BY <1>1, ScrollUpGood DEF NewLine, Good
<1>2. CASE ~ (d.screen_y + 1 >= NumRows)
  <2> DEFINE e == [d EXCEPT !.screen_x = 0, !.screen_y = @ + 1]
  <2>1. NewLine(d) = e
    BY <1>2 DEF NewLine
  <2>2. d.screen_y + 1 \in 0 .. NumRows - 1
    BY <1>2 DEF Placed, Display
  <2>3. e \in Display /\ e.screen_x = 0 /\ e.screen_y = d.screen_y + 1
    <3>1. /\ d \in Display /\ 0 \in 1 - NumCols .. NumCols - 1
          /\ d.video_mem \in [0 .. NumCells - 1 -> Glyphs \cup {Blank}]
      BY DEF Placed, Display
    <3>2. e = Moved(d, d.video_mem, 0, d.screen_y + 1)
      BY <3>1 DEF Display, Moved
    <3>3. Fits(d.video_mem, 0, d.screen_y + 1)
      BY <2>2, <3>1 DEF Fits
    <3> HIDE DEF e
    <3> QED BY <3>1, <3>2, <3>3, DisplayParts
  <2>4. NumCols * (d.screen_y + 1) \in Nat
    BY <2>2, RowBound
  <2>5. Pos(e) >= 0
    BY <2>3, <2>4 DEF Pos
  <2> QED BY <2>1, <2>3, <2>5 DEF Placed
<1> QED BY <1>1, <1>2

(* putc of a glyph: the place it goes to and the place after it.           *)
LEMMA PutGlyphPlaced ==
  ASSUME NEW d, Placed(d), NEW c \in Glyphs
  PROVE  /\ Placed(PutGlyph(d, c))
         /\ PutGlyph(d, c).video_mem[Pos(d)] = c
         /\ ~ (d.screen_x = NumCols - 1 /\ d.screen_y = NumRows - 1)
              => Pos(PutGlyph(d, c)) = Pos(d) + 1
<1> USE ScreenAssumption, TerminalAssumption
<1> DEFINE x == d.screen_x + 1
           y == IF x >= NumCols THEN d.screen_y + 1 ELSE d.screen_y
           X == Rem(x, NumCols)
           Y == y % NumRows
           p == Pos(d)
           e == PutGlyph(d, c)
<1>1. /\ d.video_mem \in [0 .. NumCells - 1 -> Glyphs \cup {Blank}]
      /\ d.screen_x \in 1 - NumCols .. NumCols - 1
      /\ d.screen_y \in 0 .. NumRows - 1
      /\ d \in Display
  BY DEF Placed, Display
<1>2. p \in 0 .. NumCells - 1
  BY PosBound
<1>3. p = NumCols * d.screen_y + d.screen_x /\ NumCols * d.screen_y \in Nat
  BY <1>1, RowBound DEF Pos
<1>4. e = [d EXCEPT !.video_mem = [d.video_mem EXCEPT ![p] = c],
                    !.screen_x = X, !.screen_y = Y]
  BY <1>1 DEF PutGlyph, Display
<1>5. CASE x >= NumCols
  <2>1. x = NumCols /\ y = d.screen_y + 1
    BY <1>1, <1>5
  <2>2. X = 0
    BY <2>1 DEF Rem
  <2>3. Y \in 0 .. NumRows - 1 /\ NumCols * Y \in Nat
    <3>1. y \in Nat /\ NumRows \in Nat \ {0}
      BY <2>1, <1>1
    <3>2. Y \in 0 .. NumRows - 1
      BY <3>1
    <3> HIDE DEF Y
    <3> QED BY <3>2, RowBound
  <2>4. e \in Display /\ e.screen_x = 0 /\ e.screen_y = Y /\ e.video_mem[p] = c
    <3>1. 0 \in 1 - NumCols .. NumCols - 1
      OBVIOUS
    <3> DEFINE v == [d.video_mem EXCEPT ![p] = c]
    <3> HIDE DEF X, Y, p, e
    <3>2. v \in [0 .. NumCells - 1 -> Glyphs \cup {Blank}] /\ v[p] = c
      BY <1>1, <1>2
    <3>3. e = Moved(d, v, 0, Y)
      BY <1>4, <2>2 DEF Moved
    <3> HIDE DEF v
    <3>4. Fits(v, 0, Y)
      BY <2>3, <3>1, <3>2 DEF Fits
    <3>5. e \in Display /\ e.video_mem = v /\ e.screen_x = 0 /\ e.screen_y = Y
      <4>1. d \in Display
        BY <1>1
      <4> QED BY <4>1, <3>3, <3>4, DisplayParts
    <3> QED BY <3>2, <3>5
  <2>5. Pos(e) = NumCols * Y
    <3> HIDE DEF Y, e
    <3> QED BY <2>3, <2>4 DEF Pos
  <2>6. ASSUME ~ (d.screen_x = NumCols - 1 /\ d.screen_y = NumRows - 1)
        PROVE  Pos(e) = p + 1
    <3>1. d.screen_x = NumCols - 1 /\ d.screen_y + 1 \in 0 .. NumRows - 1
      <4>1. NumCols \in Nat /\ NumRows \in Nat /\ d.screen_x \in Int
            /\ d.screen_y \in 0 .. NumRows - 1
        BY <1>1
      <4>2. d.screen_x + 1 = NumCols
        BY <2>1
      <4> HIDE ScreenAssumption, TerminalAssumption
      <4> HIDE DEF x, y, X, Y, p, e
      <4>3. d.screen_x = NumCols - 1
        BY <4>1, <4>2
      <4>4. d.screen_y # NumRows - 1
        BY <2>6, <4>3
      <4> QED BY <4>1, <4>3, <4>4
    <3>2. Y = d.screen_y + 1
      BY <2>1, <3>1
    <3>3. NumCols * (d.screen_y + 1) = NumCols * d.screen_y + NumCols
      BY <1>1, RowBound
    <3> HIDE DEF Y, p, e
    <3> QED BY <3>1, <3>2, <3>3, <2>5, <1>3
  <2>7. Placed(e)
    <3> HIDE DEF Y, e
    <3> QED BY <2>3, <2>4, <2>5 DEF Placed
  <2> QED BY <2>4, <2>6, <2>7
<1>6. CASE ~ (x >= NumCols)
  <2>1. x \in 2 - NumCols .. NumCols - 1 /\ y = d.screen_y
    BY <1>1, <1>6
  <2>2. X = x
    <3>1. CASE x >= 0
      <4>1. x \in 0 .. NumCols - 1
        BY <2>1, <3>1
      <4> HIDE DEF x
      <4> QED BY <4>1 DEF Rem
    <3>2. CASE ~ (x >= 0)
      <4>1. -x \in 0 .. NumCols - 1 /\ x \in Int
        BY <2>1, <3>2
      <4> HIDE DEF x
      <4>2. (-x) % NumCols = -x
        BY <4>1
      <4> QED BY <4>1, <4>2, <3>2 DEF Rem
    <3> QED BY <3>1, <3>2
  <2>3. Y = d.screen_y
    <3>1. y \in 0 .. NumRows - 1 /\ y = d.screen_y
      BY <2>1, <1>1
    <3> HIDE DEF y
    <3> QED BY <3>1
  <2>4. X = d.screen_x + 1 /\ X \in 1 - NumCols .. NumCols - 1
    BY <2>1, <2>2, <1>1
  <2>5. /\ e \in Display /\ e.screen_x = d.screen_x + 1
        /\ e.screen_y = d.screen_y /\ e.video_mem[p] = c
    <3> DEFINE v == [d.video_mem EXCEPT ![p] = c]
    <3> HIDE DEF X, Y, p, e
    <3>1. v \in [0 .. NumCells - 1 -> Glyphs \cup {Blank}] /\ v[p] = c
      BY <1>1, <1>2
    <3>2. e = Moved(d, v, X, d.screen_y)
      BY <1>4, <2>3 DEF Moved
    <3> HIDE DEF v
    <3>3. Fits(v, X, d.screen_y)
      BY <1>1, <2>4, <3>1 DEF Fits
    <3>4. /\ e \in Display /\ e.video_mem = v
          /\ e.screen_x = X /\ e.screen_y = d.screen_y
      <4>1. d \in Display
        BY <1>1
      <4> QED BY <4>1, <3>2, <3>3, DisplayParts
    <3> QED BY <2>4, <3>1, <3>4
  <2>6. Pos(e) = p + 1
    <3> DEFINE r == NumCols * d.screen_y
    <3>1. Pos(e) = r + (d.screen_x + 1)
      <4> HIDE DEF e
      <4> QED BY <2>5 DEF Pos
    <3>2. p = r + d.screen_x /\ r \in Nat
      BY <1>3
    <3> HIDE DEF p, e, r
    <3> QED BY <1>1, <3>1, <3>2
  <2>7. Placed(e)
    <3> HIDE DEF p, e
    <3> QED BY <1>2, <2>5, <2>6 DEF Placed
  <2> QED BY <2>5, <2>6, <2>7
<1> QED BY <1>5, <1>6

LEMMA PutcGood ==
  ASSUME NEW d, Placed(d), NEW c \in Glyphs \cup {LineFeed}
  PROVE  Good(Putc(d, c))
<1>1. CASE c = LineFeed
  BY <1>1, NewLinePlaced, UpdateCursorGood DEF Putc
<1>2. CASE c # LineFeed
  BY <1>2, PutGlyphPlaced, UpdateCursorGood DEF Putc
<1> QED BY <1>1, <1>2

(* The echo of a glyph ends just before the cursor.                        *)
LEMMA EchoShows ==
  ASSUME NEW d, Placed(d), NEW c \in Glyphs
  PROVE  /\ Good(Echo(d, c))
         /\ Pos(Echo(d, c)) > 0
         /\ Echo(d, c).video_mem[Pos(Echo(d, c)) - 1] = c
<1> USE ScreenAssumption, TerminalAssumption
<1> DEFINE corner(e) == e.screen_x = NumCols - 1 /\ e.screen_y = NumRows - 1
           f == IF corner(d) THEN ScrollUp(d) ELSE UpdateCursor(d)
           g == PutGlyph(f, c)
<1>1. Placed(f) /\ ~ corner(f)
  <2>1. CASE corner(d)
    <3>1. f = ScrollUp(d)
      BY <2>1
    <3>2. Good(f) /\ f.screen_x = 0
      BY <3>1, ScrollUpGood
    <3> QED BY <3>2 DEF Good
  <2>2. CASE ~ corner(d)
    <3>1. f = UpdateCursor(d)
      BY <2>2
    <3>2. Good(f) /\ f.screen_x = d.screen_x /\ f.screen_y = d.screen_y
      BY <3>1, UpdateCursorGood
    <3> QED BY <2>2, <3>2 DEF Good
  <2> QED BY <2>1, <2>2
<1>2. c # LineFeed
  OBVIOUS
<1>3. Echo(d, c) = UpdateCursor(g)
  BY <1>2 DEF Echo, Putc
<1> HIDE DEF f
<1>4. Placed(g) /\ g.video_mem[Pos(f)] = c /\ Pos(g) = Pos(f) + 1
  BY <1>1, PutGlyphPlaced
<1>5. Pos(f) \in 0 .. NumCells - 1
  BY <1>1, PosBound
<1> HIDE DEF g
<1> DEFINE h == Echo(d, c)
<1>6. /\ Good(h) /\ h.video_mem = g.video_mem
      /\ h.screen_x = g.screen_x /\ h.screen_y = g.screen_y
  BY <1>3, <1>4, UpdateCursorGood
<1> HIDE DEF h
<1>7. Pos(h) = Pos(f) + 1
  BY <1>4, <1>6 DEF Pos
<1>8. Pos(h) > 0 /\ Pos(h) - 1 = Pos(f)
  BY <1>5, <1>7
<1> QED BY <1>4, <1>6, <1>8 DEF h

-----------------------------------------------------------------------------
(* terminal_write puts one character after the other.                      *)

PutAll(d, text, n, f) ==
  f = [i \in 0 .. n |-> IF i = 0 THEN d ELSE Putc(f[i - 1], text[i])]

(* The displays after each round of the loop exist.                        *)
LEMMA PutAllExists ==
  ASSUME NEW d, NEW text, NEW n \in Nat
  PROVE  \E f : PutAll(d, text, n, f)
<1> DEFINE T == {k \in Nat : ~ \E f : PutAll(d, text, k, f)}
<1> SUFFICES ASSUME T # {} PROVE FALSE
  BY DEF T
<1>1. T \in SUBSET Nat
  OBVIOUS
<1>2. PICK k \in T : \A m \in T : k <= m
  BY <1>1, LeastNumber
<1>3. k \in Nat /\ ~ \E f : PutAll(d, text, k, f)
  OBVIOUS
<1>4. \A m \in Nat : m \notin T => \E f : PutAll(d, text, m, f)
  OBVIOUS
<1> HIDE DEF T
<1>5. CASE k = 0
  <2> DEFINE g == [i \in 0 .. 0 |-> d]
  <2>1. \A i \in 0 .. 0 : i = 0
    OBVIOUS
  <2>2. g = [i \in 0 .. 0 |-> IF i = 0 THEN d ELSE Putc(g[i - 1], text[i])]
    BY <2>1
  <2> QED BY <2>2, <1>3, <1>5 DEF PutAll
<1>6. CASE k # 0
  <2>1. k - 1 \in Nat /\ ~ (k <= k - 1)
    BY <1>3, <1>6
  <2>2. k - 1 \notin T
    BY <1>2, <2>1
  <2>3. PICK f : PutAll(d, text, k - 1, f)
    BY <1>4, <2>1, <2>2
  <2> DEFINE g == [i \in 0 .. k |-> IF i = k THEN Putc(f[k - 1], text[k]) ELSE f[i]]
  <2>4. \A i \in 0 .. k - 1 : g[i] = f[i]
    BY <1>3
  <2>5. \A i \in 0 .. k - 1 : f[i] = IF i = 0 THEN d ELSE Putc(f[i - 1], text[i])
    BY <2>3 DEF PutAll
  <2>6. \A i \in 0 .. k : g[i] = IF i = 0 THEN d ELSE Putc(g[i - 1], text[i])
    <3> SUFFICES ASSUME NEW i \in 0 .. k
                 PROVE  g[i] = IF i = 0 THEN d ELSE Putc(g[i - 1], text[i])
      OBVIOUS
    <3>1. CASE i = k
      <4>1. g[i] = Putc(f[k - 1], text[k])
        BY <3>1
      <4>2. g[k - 1] = f[k - 1]
        BY <2>1, <2>4, <1>3
      <4> HIDE DEF g
      <4> QED BY <3>1, <4>1, <4>2, <1>6
    <3>2. CASE i # k
      <4>1. i \in 0 .. k - 1
        BY <3>2, <1>3
      <4>2. g[i] = f[i]
        BY <4>1, <2>4
      <4>3. CASE i = 0
        BY <4>1, <4>2, <4>3, <2>5
      <4>4. CASE i # 0
        <5>1. i - 1 \in 0 .. k - 1
          BY <4>1, <4>4, <1>3
        <5>2. g[i - 1] = f[i - 1]
          BY <5>1, <2>4
        <5> HIDE DEF g
        <5> QED BY <4>1, <4>2, <4>4, <5>2, <2>5
      <4> QED BY <4>3, <4>4
    <3> QED BY <3>1, <3>2
  <2>7. PutAll(d, text, k, g)
    <3>1. g = [i \in 0 .. k |-> g[i]]
      OBVIOUS
    <3> HIDE DEF g
    <3> QED BY <2>6, <3>1 DEF PutAll
  <2> HIDE DEF g
  <2> QED BY <1>3, <2>7
<1> QED BY <1>5, <1>6

(* Whatever a program writes, the display it leaves is good.               *)
LEMMA WrittenGood ==
  ASSUME NEW d, Good(d), NEW text \in Texts
  PROVE  Good(Written(d, text)[Len(text)])
<1>1. Len(text) \in Nat /\ \A i \in 1 .. Len(text) : text[i] \in Glyphs \cup {LineFeed}
  <2>1. PICK n \in 1 .. MaxWrite : text \in [1 .. n -> Glyphs \cup {LineFeed}]
    BY DEF Texts
  <2>2. n \in Nat
    BY ScreenAssumption, TerminalAssumption
  <2>3. Len(text) = n
    BY <2>1, <2>2
  <2> QED BY <2>1, <2>2, <2>3
<1> DEFINE n == Len(text)
           f == Written(d, text)
<1>2. f = CHOOSE g : PutAll(d, text, n, g)
  BY Zenon DEF Written, PutAll
<1>3. PutAll(d, text, n, f)
  <2>1. \E g : PutAll(d, text, n, g)
    BY <1>1, PutAllExists
  <2> HIDE DEF f, n
  <2> QED BY <1>2, <2>1, Zenon
<1> HIDE DEF f, n
<1>4. \A i \in 0 .. n : f[i] = IF i = 0 THEN d ELSE Putc(f[i - 1], text[i])
  BY <1>3 DEF PutAll
<1>5. n \in Nat /\ \A i \in 1 .. n : text[i] \in Glyphs \cup {LineFeed}
  BY <1>1 DEF n
<1> DEFINE T == {k \in Nat : k \in 0 .. n /\ ~ Good(f[k])}
<1>6. T = {}
  <2> SUFFICES ASSUME T # {} PROVE FALSE
    OBVIOUS
  <2>1. T \in SUBSET Nat
    OBVIOUS
  <2>2. PICK k \in T : \A m \in T : k <= m
    BY <2>1, LeastNumber
  <2>3. k \in 0 .. n /\ k \in Nat /\ ~ Good(f[k])
    OBVIOUS
  <2>4. \A m \in 0 .. n : m \notin T => Good(f[m])
    BY <1>5
  <2> HIDE DEF T
  <2>5. CASE k = 0
    <3>1. f[k] = d
      BY <2>3, <2>5, <1>4
    <3> QED BY <3>1, <2>3
  <2>6. CASE k # 0
    <3>1. k - 1 \in 0 .. n /\ ~ (k <= k - 1) /\ k \in 1 .. n
      BY <2>3, <2>6, <1>5
    <3>2. Good(f[k - 1])
      BY <3>1, <2>2, <2>4
    <3>3. f[k] = Putc(f[k - 1], text[k])
      BY <2>3, <2>6, <1>4
    <3>4. Placed(f[k - 1]) /\ text[k] \in Glyphs \cup {LineFeed}
      BY <3>1, <3>2, <1>5 DEF Good
    <3>5. Good(Putc(f[k - 1], text[k]))
      BY <3>4, PutcGood
    <3> QED BY <3>3, <3>5, <2>3
  <2> QED BY <2>5, <2>6
<1>7. n \in 0 .. n
  BY <1>5
<1>8. Good(f[n])
  BY <1>5, <1>6, <1>7
<1> QED BY <1>8 DEF f, n

-----------------------------------------------------------------------------
(* The invariant.                                                          *)

LEMMA InitInv == ScreenInit => ScreenInv
<1> SUFFICES ASSUME ScreenInit PROVE ScreenInv
  OBVIOUS
<1> USE ScreenAssumption, TerminalAssumption
<1>1. ClearVideo \in [0 .. NumCells - 1 -> Glyphs \cup {Blank}]
  BY DEF ClearVideo
<1>2. 0 \in 1 - NumCols .. NumCols - 1 /\ 0 \in 0 .. NumRows - 1 /\ 0 \in Int
  OBVIOUS
<1>3. BlankDisplay \in Display
  BY <1>1, <1>2 DEF BlankDisplay, Display
<1>4. Pos(BlankDisplay) = 0
  BY DEF Pos, BlankDisplay
<1>5. Good(BlankDisplay)
  BY <1>3, <1>4 DEF Good, Placed, BlankDisplay
<1>6. \A t \in Terminals : HiddenKept(t)
  <2> SUFFICES ASSUME NEW t \in Terminals PROVE HiddenKept(t)
    OBVIOUS
  <2>1. seen[t].display = BlankDisplay /\ seen[t].idx = 0 /\ screens[t] = NoCopy
    BY DEF ScreenInit, NotSeen
  <2>2. 0 \in 0 .. BufferSize - 1
    OBVIOUS
  <2> QED BY <2>1, <2>2, <1>5 DEF HiddenKept, NoCopy, BlankDisplay
<1>7. line_idx \in 0 .. BufferSize - 1
  BY DEF ScreenInit
<1> QED BY <1>5, <1>6, <1>7 DEF ScreenInit, ScreenInv

(* A step that changes what is shown, and nothing that is hidden.          *)
LEMMA ShownOnly ==
  ASSUME ScreenInv, Good(display'), line_idx' \in 0 .. BufferSize - 1,
         faulted' \in BOOLEAN, UNCHANGED <<shown, screens, seen>>
  PROVE  ScreenInv'
<1>1. \A t \in Terminals \ {shown} : HiddenKept(t)'
  BY DEF ScreenInv, HiddenKept
<1> QED BY <1>1 DEF ScreenInv

LEMMA WriteInv ==
  ASSUME ScreenInv, NEW text \in Texts, TerminalWrite(text)
  PROVE  ScreenInv'
<1>1. Good(display')
  BY WrittenGood DEF TerminalWrite, ScreenInv
<1> QED BY <1>1, ShownOnly DEF TerminalWrite, ScreenInv

LEMMA ReadInv ==
  ASSUME ScreenInv, TerminalRead
  PROVE  ScreenInv'
<1>1. Good(display') /\ line_idx' \in 0 .. BufferSize - 1
  BY ScreenAssumption, TerminalAssumption DEF TerminalRead, ScreenInv
<1> QED BY <1>1, ShownOnly DEF TerminalRead, ScreenInv

LEMMA CharInv ==
  ASSUME ScreenInv, NEW c \in Glyphs, EchoChar(c)
  PROVE  ScreenInv'
<1>1. Good(Echo(display, c)) /\ Good(display)
  BY EchoShows DEF ScreenInv, Good
<1>2. Good(display')
  BY <1>1 DEF EchoChar
<1>3. line_idx' \in 0 .. BufferSize - 1
  BY ScreenAssumption, TerminalAssumption DEF EchoChar, ScreenInv
<1> QED BY <1>2, <1>3, ShownOnly DEF EchoChar, ScreenInv

LEMMA EnterInv ==
  ASSUME ScreenInv, EchoEnter
  PROVE  ScreenInv'
<1>1. Placed(NewLine(display))
  BY NewLinePlaced DEF ScreenInv, Good
<1>2. Good(display')
  BY <1>1, UpdateCursorGood DEF EchoEnter
<1> QED BY <1>2, ShownOnly DEF EchoEnter, ScreenInv

LEMMA ClearInv ==
  ASSUME ScreenInv, KeyClear
  PROVE  ScreenInv'
<1>1. Good(display')
  BY ClearGood DEF KeyClear, ScreenInv, Good
<1> QED BY <1>1, ShownOnly DEF KeyClear, ScreenInv

(* Backspace goes on only when the place it clears is in video memory.     *)
LEMMA BackspaceInv ==
  ASSUME ScreenInv, EchoBackspace
  PROVE  ScreenInv'
<1> USE ScreenAssumption, TerminalAssumption
<1> DEFINE x == display.screen_x - 1
           X == Rem(x, NumCols)
           Y == display.screen_y % NumRows
           d == [display EXCEPT !.screen_x = X, !.screen_y = @ % NumRows]
           e == [d EXCEPT !.video_mem[Pos(d)] = Blank]
<1>1. /\ display \in Display
      /\ display.video_mem \in [0 .. NumCells - 1 -> Glyphs \cup {Blank}]
      /\ display.screen_x \in 1 - NumCols .. NumCols - 1
      /\ display.screen_y \in 0 .. NumRows - 1
  BY DEF ScreenInv, Good, Placed, Display
<1>2. CASE Pos(d) < 0
  <2>1. faulted' = TRUE /\ UNCHANGED <<display, line_idx>>
    BY <1>2 DEF EchoBackspace
  <2>2. UNCHANGED <<shown, screens, seen>>
    BY DEF EchoBackspace
  <2>3. Good(display') /\ line_idx' \in 0 .. BufferSize - 1
    BY <2>1 DEF ScreenInv
  <2> QED BY <2>1, <2>2, <2>3, ShownOnly
<1>3. CASE ~ (Pos(d) < 0)
  <2>1. /\ display' = UpdateCursor(e)
        /\ line_idx' = line_idx - 1
        /\ UNCHANGED <<faulted, shown, screens, seen>>
        /\ line_idx > 0
    BY <1>3 DEF EchoBackspace
  <2>2. X \in 1 - NumCols .. NumCols - 1
    <3>1. x \in -NumCols .. NumCols - 2 /\ NumCols \in Nat \ {0}
      BY <1>1
    <3> HIDE DEF x
    <3>2. CASE x >= 0
      <4>1. x % NumCols \in 0 .. NumCols - 1
        BY <3>1, <3>2
      <4> QED BY <3>1, <3>2, <4>1 DEF Rem
    <3>3. CASE ~ (x >= 0)
      <4>1. (-x) % NumCols \in 0 .. NumCols - 1
        BY <3>1, <3>3
      <4> QED BY <3>1, <3>3, <4>1 DEF Rem
    <3> QED BY <3>2, <3>3
  <2>3. Y \in 0 .. NumRows - 1
    BY <1>1
  <2>4. d \in Display /\ d.video_mem = display.video_mem
    <3> HIDE DEF X
    <3>1. d = Moved(display, display.video_mem, X, Y)
      BY <1>1 DEF Display, Moved
    <3> HIDE DEF Y, d
    <3>2. Fits(display.video_mem, X, Y)
      BY <1>1, <2>2, <2>3 DEF Fits
    <3> QED BY <1>1, <3>1, <3>2, DisplayParts
  <2>5. Placed(d)
    <3> HIDE DEF d
    <3>1. Pos(d) \in Int
      BY <2>4 DEF Display, Pos
    <3> QED BY <1>3, <2>4, <3>1 DEF Placed
  <2> HIDE DEF d
  <2>6. Pos(d) \in 0 .. NumCells - 1
    BY <2>5, PosBound
  <2> DEFINE v == [d.video_mem EXCEPT ![Pos(d)] = Blank]
  <2>7. v \in [0 .. NumCells - 1 -> Glyphs \cup {Blank}]
    BY <2>4, <1>1
  <2>8. d.screen_x \in 1 - NumCols .. NumCols - 1 /\ d.screen_y \in 0 .. NumRows - 1
    BY <2>4 DEF Display
  <2>9. e = Moved(d, v, d.screen_x, d.screen_y)
    BY <2>4 DEF Display, Moved
  <2> HIDE DEF v, e
  <2>10. e \in Display /\ e.screen_x = d.screen_x /\ e.screen_y = d.screen_y
    <3>1. Fits(v, d.screen_x, d.screen_y)
      BY <2>7, <2>8 DEF Fits
    <3> QED BY <2>4, <2>9, <3>1, DisplayParts
  <2>11. Placed(e)
    BY <2>5, <2>10 DEF Placed, Pos
  <2>12. Good(display')
    BY <2>1, <2>11, UpdateCursorGood
  <2>13. line_idx' \in 0 .. BufferSize - 1
    BY <2>1 DEF ScreenInv
  <2> QED BY <2>1, <2>12, <2>13, ShownOnly DEF ScreenInv
<1> QED BY <1>2, <1>3

(* What Show makes of the copy of a good display is that display.          *)
LEMMA ShowSame ==
  ASSUME NEW d, Good(d), NEW i,
         NEW s, s = [video |-> d.video_mem, x |-> d.screen_x, y |-> d.screen_y,
                     idx |-> i],
         display.cursor \in Int
  PROVE  Show(s) = d /\ s.idx = i
<1> DEFINE e == [video_mem |-> d.video_mem, screen_x |-> d.screen_x,
                 screen_y |-> d.screen_y, cursor |-> display.cursor]
<1>1. Show(s) = UpdateCursor(e) /\ s.idx = i
  BY DEF Show
<1>2. d \in Display /\ Pos(d) >= 0 /\ d.cursor = Pos(d)
  BY DEF Good, Placed
<1>3. /\ e.video_mem = d.video_mem /\ e.screen_x = d.screen_x
      /\ e.screen_y = d.screen_y /\ e \in Display
  BY <1>2 DEF Display
<1>4. Pos(e) = Pos(d)
  BY <1>3 DEF Pos
<1>5. Placed(e)
  BY <1>2, <1>3, <1>4 DEF Placed
<1>6. UpdateCursor(e) = [e EXCEPT !.cursor = d.cursor]
  <2>1. UpdateCursor(e) = [e EXCEPT !.cursor = Pos(e)]
    BY <1>5, UpdateCursorGood
  <2> QED BY <2>1, <1>2, <1>4
<1>7. [e EXCEPT !.cursor = d.cursor] = d
  BY <1>2 DEF Display
<1> QED BY <1>1, <1>6, <1>7

(* A switch to another terminal shows what was left there.                 *)
LEMMA SwitchShows ==
  ASSUME ScreenInv, NEW t \in Terminals \ {shown}, ShowTerminal(t)
  PROVE  display' = seen[t].display /\ line_idx' = seen[t].idx
<1> DEFINE now == [screens EXCEPT ![shown] = Save]
<1>1. now[t] = screens[t]
  BY DEF ScreenInv
<1>2. display' = Show(now[t]) /\ line_idx' = now[t].idx
  BY DEF ShowTerminal
<1>3. HiddenKept(t) /\ display.cursor \in Int
  BY DEF ScreenInv, Good, Placed, Display
<1> HIDE DEF now
<1> QED BY <1>1, <1>2, <1>3, ShowSame DEF HiddenKept

LEMMA SwitchInv ==
  ASSUME ScreenInv, NEW t \in Terminals, ShowTerminal(t)
  PROVE  ScreenInv'
<1> DEFINE cur == shown
           now == [screens EXCEPT ![cur] = Save]
           left == [display |-> display, idx |-> line_idx]
<1>1. /\ display' = Show(now[t])
      /\ line_idx' = now[t].idx
      /\ screens' = [now EXCEPT ![t] = NoCopy]
      /\ seen' = [seen EXCEPT ![cur] = left, ![t] = NotSeen]
      /\ shown' = t
      /\ UNCHANGED faulted
  BY DEF ShowTerminal
<1>2. /\ cur \in Terminals /\ Good(display) /\ display.cursor \in Int
      /\ line_idx \in 0 .. BufferSize - 1
      /\ faulted \in BOOLEAN
      /\ DOMAIN screens = Terminals /\ DOMAIN seen = Terminals
      /\ screens = [u \in Terminals |-> screens[u]]
      /\ seen = [u \in Terminals |-> seen[u]]
      /\ \A u \in Terminals \ {cur} : HiddenKept(u)
  BY DEF ScreenInv, Good, Placed, Display
<1>3. Good(display') /\ line_idx' \in 0 .. BufferSize - 1
  <2>1. CASE t = cur
    <3>1. now[t] = Save
      BY <2>1, <1>2
    <3>2. Show(Save) = display /\ Save.idx = line_idx
      BY <1>2, ShowSame DEF Save
    <3> QED BY <1>1, <1>2, <3>1, <3>2
  <2>2. CASE t # cur
    <3>1. display' = seen[t].display /\ line_idx' = seen[t].idx
      BY <2>2, SwitchShows
    <3> QED BY <2>2, <3>1, <1>2 DEF HiddenKept
  <2> QED BY <2>1, <2>2
<1>4. \A u \in Terminals \ {t} :
        /\ screens'[u] = IF u = cur THEN Save ELSE screens[u]
        /\ seen'[u] = IF u = cur THEN left ELSE seen[u]
  <2> HIDE DEF left
  <2> QED BY <1>1, <1>2
<1>5. \A u \in Terminals \ {t} : HiddenKept(u)'
  <2> SUFFICES ASSUME NEW u \in Terminals \ {t}
               PROVE  HiddenKept(u)'
    OBVIOUS
  <2>1. CASE u = cur
    <3>1. screens'[u] = Save /\ seen'[u] = left
      BY <1>4, <2>1
    <3>2. seen'[u].display = display /\ seen'[u].idx = line_idx
      BY <3>1
    <3> QED BY <3>1, <3>2, <1>2 DEF HiddenKept, Save
  <2>2. CASE u # cur
    <3>1. screens'[u] = screens[u] /\ seen'[u] = seen[u]
      BY <1>4, <2>2
    <3> QED BY <3>1, <2>2, <1>2 DEF HiddenKept
  <2> QED BY <2>1, <2>2
<1>6. /\ DOMAIN screens' = Terminals /\ DOMAIN seen' = Terminals
      /\ screens' = [u \in Terminals |-> screens'[u]]
      /\ seen' = [u \in Terminals |-> seen'[u]]
  <2> HIDE DEF left
  <2> QED BY <1>1, <1>2
<1> QED BY <1>1, <1>2, <1>3, <1>5, <1>6 DEF ScreenInv

LEMMA StepInv ==
  ASSUME ScreenInv, [ScreenNext]_svars
  PROVE  ScreenInv'
<1>1. CASE ScreenNext
  BY <1>1, WriteInv, ReadInv, CharInv, EnterInv, BackspaceInv, ClearInv, SwitchInv
     DEF ScreenNext
<1>2. CASE UNCHANGED svars
  BY <1>2 DEF svars, ScreenInv, HiddenKept
<1> QED BY <1>1, <1>2

LEMMA InvAlways == ScreenSpec => []ScreenInv
<1> QED BY InitInv, StepInv, PTL DEF ScreenSpec

-----------------------------------------------------------------------------
(* putc, keyboard_interrupt and terminal_switch keep the place of the next *)
(* character inside video memory, and the cursor there, although Backspace *)
(* lets screen_x be negative.                                              *)
THEOREM CursorStaysShown == ScreenSpec => []CursorShown
<1>1. ScreenInv => CursorShown
  BY PosBound DEF ScreenInv, Good, CursorShown
<1> QED BY <1>1, InvAlways, PTL

(* keyboard_interrupt shows the character that is typed just before the    *)
(* cursor, whatever the shape of the screen.                               *)
THEOREM EchoAlwaysVisible == ScreenSpec => EchoVisible
<1> DEFINE A == \A c \in Glyphs :
                  EchoChar(c) /\ line_idx' <= BufferSize - 2 =>
                    /\ Pos(display') > 0
                    /\ display'.video_mem[Pos(display') - 1] = c
<1>1. ASSUME ScreenInv, [ScreenNext]_svars
      PROVE  [A]_svars
  <2> SUFFICES ASSUME NEW c \in Glyphs, EchoChar(c), line_idx' <= BufferSize - 2
               PROVE  /\ Pos(display') > 0
                      /\ display'.video_mem[Pos(display') - 1] = c
    OBVIOUS
  <2>1. Placed(display) /\ line_idx \in Nat
    BY <1>1, ScreenAssumption, TerminalAssumption DEF ScreenInv, Good
  <2>2. ~ (line_idx' > BufferSize - 2)
    BY <2>1, ScreenAssumption, TerminalAssumption DEF EchoChar
  <2>3. display' = Echo(display, c)
    BY <2>2 DEF EchoChar
  <2> QED BY <2>1, <2>3, EchoShows
<1> QED BY <1>1, InvAlways, PTL DEF ScreenSpec, EchoVisible

(* terminal_switch shows a terminal as it was left.                        *)
THEOREM ScreensAreKept == ScreenSpec => ScreensKept
<1> DEFINE A == \A t \in Terminals \ {shown} :
                  ShowTerminal(t) => display' = seen[t].display
                                    /\ line_idx' = seen[t].idx
<1>1. ASSUME ScreenInv, [ScreenNext]_svars
      PROVE  [A]_svars
  BY <1>1, SwitchShows
<1> QED BY <1>1, InvAlways, PTL DEF ScreenSpec, ScreensKept
=============================================================================
