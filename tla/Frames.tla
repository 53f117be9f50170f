------------------------------- MODULE Frames -------------------------------
(***************************************************************************)
(* add_frames of the fish program: two files are read side by side, byte   *)
(* by byte and row by row, and every place where one of the two pictures   *)
(* is not blank becomes a blinking character.                              *)
(***************************************************************************)
EXTENDS TextFiles, FiniteSets

CONSTANTS
  Pictures,   \* contents of frame0.txt and frame1.txt
  MaxRows     \* bound: more rows than a picture has

ASSUME FramesAssumption ==
  /\ MaxRows \in Nat
  /\ \A f \in Pictures : f \in Seq(Nat) /\ Len(f) + 1 < MaxRows

VARIABLES
  f0, f1,       \* the two files
  pos0, pos1,   \* their file_position
  c0, c1, eof0, eof1, row, col,
  fdone,        \* the outer loop has ended
  added         \* the calls of RTC_ADD: [row, col, on_char, off_char]

frvars == <<f0, f1, pos0, pos1, c0, c1, eof0, eof1, row, col, fdone, added>>

Zero == 48      \* '0', anything but a line feed

FramesInit ==
  /\ f0 \in Pictures /\ f1 \in Pictures
  /\ pos0 = 0 /\ pos1 = 0
  /\ c0 = Zero /\ c1 = Zero
  /\ eof0 = FALSE /\ eof1 = FALSE
  /\ row = 0 /\ col = 0
  /\ fdone = FALSE
  /\ added = <<>>

(* A read of one byte, left out at the end of a line; the end of the file  *)
(* is the end of a line, too.                                              *)
AtEof(f, pos, c) == c # NL /\ pos = Len(f)
Byte(f, pos, c) == IF c = NL \/ pos = Len(f) THEN NL ELSE f[pos + 1]
NextPos(f, pos, c) == IF c = NL \/ pos = Len(f) THEN pos ELSE pos + 1

(* c0 or c1 for the next row                                               *)
RowStart(eof) == IF eof THEN NL ELSE Zero

(* mutant: a blank of the first picture hides the second *)
VisibleFirst(a, b) == a \notin {SP, NL}
Visible(a, b) == a \notin {SP, NL} \/ b \notin {SP, NL}

OrBlank(c) == IF c = NL THEN SP ELSE c

(* One turn of the inner loop.                                             *)
FrameStep ==
  LET a == Byte(f0, pos0, c0)
      b == Byte(f1, pos1, c1)
  IN
  /\ ~fdone /\ row < MaxRows
  /\ pos0' = NextPos(f0, pos0, c0)
  /\ pos1' = NextPos(f1, pos1, c1)
  /\ eof0' = (eof0 \/ AtEof(f0, pos0, c0))
  /\ eof1' = (eof1 \/ AtEof(f1, pos1, c1))
  /\ IF a = NL /\ b = NL
       THEN /\ c0' = RowStart(eof0')
            /\ c1' = RowStart(eof1')
            /\ row' = row + 1
            /\ col' = 0
            /\ fdone' = (eof0' /\ eof1')
            /\ UNCHANGED added
       ELSE /\ c0' = a
            /\ c1' = b
            /\ col' = col + 1
            /\ added' = IF Visible(a, b)
                 THEN Append(added, [row |-> row, col |-> col,
                                     on_char |-> OrBlank(a),
                                     off_char |-> OrBlank(b)])
                 ELSE added
            /\ UNCHANGED <<row, fdone>>
  /\ UNCHANGED <<f0, f1>>

FramesSpec == FramesInit /\ [][FrameStep]_frvars

-----------------------------------------------------------------------------
(* The row and the column of what follows the first i bytes of a picture.  *)
LineFeeds(f, i) == {j \in 1 .. i : f[j] = NL}
RowOf(f, i) == Cardinality(LineFeeds(f, i))
ColOf(f, i) == i - Max({0} \cup LineFeeds(f, i))

(* The byte of a picture at a row and column, blank where it has none.     *)
BytesAt(f, r, c) ==
  {i \in 1 .. Len(f) : f[i] # NL /\ RowOf(f, i - 1) = r /\ ColOf(f, i - 1) = c}
PixelAt(f, r, c) ==
  IF BytesAt(f, r, c) = {} THEN SP ELSE f[CHOOSE i \in BytesAt(f, r, c) : TRUE]

Longest == IF Len(f0) > Len(f1) THEN Len(f0) ELSE Len(f1)

NotBlank(r, c) == PixelAt(f0, r, c) # SP \/ PixelAt(f1, r, c) # SP
Blinking(r, c) == [row |-> r, col |-> c, on_char |-> PixelAt(f0, r, c),
                   off_char |-> PixelAt(f1, r, c)]

(* Every place where a picture is not blank gets one blinking character    *)
(* that shows the two pictures in turn, and no other place does, whichever *)
(* file has more lines, longer lines or no line feed at its end.           *)
FramesExact ==
  fdone =>
    /\ {added[i] : i \in 1 .. Len(added)} =
         {Blinking(p[1], p[2]) : p \in
            {q \in (0 .. Longest) \X (0 .. Longest) : NotBlank(q[1], q[2])}}
    /\ \A i, j \in 1 .. Len(added) :
         added[i].row = added[j].row /\ added[i].col = added[j].col => i = j

=============================================================================
