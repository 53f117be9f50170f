---------------------------- MODULE InputProofs ----------------------------
(***************************************************************************)
(* Proofs about the line discipline, for any size of the buffer, any       *)
(* terminals and reads, and keys at any statement of terminal_read.        *)
(***************************************************************************)
EXTENDS LineDiscipline, SequenceTheorems, NaturalsInduction,
        WellFoundedInduction, TLAPS

Proc == [pc : Pcs, nbytes : ReadSizes \cup {0}, buf : Seq(Cells \cup {Junk})]

(* An Enter that no read has taken left its line feed at the end of the    *)
(* line, and so did the one that the current read takes, unless a key was  *)
(* pressed in between.                                                     *)
LineFed == keyboard_buffer[end_buf_idx] = LineFeed
Window ==
  /\ enter_pressed => current_terminal \in raced \/ LineFed
  /\ Reader.pc = "ack" => current_terminal \in raced \/ LineFed
  /\ Reader.pc = "copy" => current_terminal \in raced \/ LineFed
  /\ Reader.pc \in {"copy", "clear", "reset"} /\ enter_pressed =>
       current_terminal \in raced
  /\ Reader.pc = "reset" => current_terminal \in raced \/ keyboard_buffer = Empty

(* What is in the buffer behind a line: nothing, but for the line feed     *)
(* that filled it once.  The place after the line belongs to the line feed *)
(* of an Enter that is not taken yet.                                      *)
BufferOf(t) == IF t = current_terminal THEN keyboard_buffer ELSE saved[t].buffer
IdxOf(t) == IF t = current_terminal THEN end_buf_idx ELSE saved[t].idx
Behind(t, i) == i > IdxOf(t) \/ (i = IdxOf(t) /\ ~(t = current_terminal /\ Racing))
RestOf(t) ==
  /\ IdxOf(t) = BufferSize - 1 => t \in filled
  /\ \A i \in Index : Behind(t, i) =>
       BufferOf(t)[i] = IF i = BufferSize - 1 /\ t \in filled THEN LineFeed ELSE Null
RestKept == \A t \in Terminals : Taking(t) \/ t \in raced \/ RestOf(t)

LineInv == LineTypeOK /\ LineKept /\ RestKept /\ LineDelivered /\ Window

-----------------------------------------------------------------------------
LEMMA LeastElement ==
  ASSUME NEW T \in SUBSET Nat, T # {}
  PROVE  \E n \in T : \A m \in T : n <= m
<1> DEFINE R == OpToRel(<, Nat)
<1>1. IsWellFoundedOn(R, Nat)
  BY NatLessThanWellFounded
<1>2. \A x, y \in Nat : x < y => <<x, y>> \in R
  BY DEF OpToRel
<1> HIDE DEF R
<1>3. PICK x \in T : \A y \in T : ~ (<<y, x>> \in R)
  BY <1>1, WFMin
<1>4. \A y \in T : ~ (y < x) /\ x \in Nat /\ y \in Nat
  BY <1>2, <1>3
<1> QED BY <1>4

LEMMA LinePrefix ==
  ASSUME NEW S, NEW s \in Seq(S), NEW n \in 0 .. Len(s)
  PROVE  /\ SubSeq(s, 1, n) \in Seq(S) /\ Len(SubSeq(s, 1, n)) = n
         /\ \A i \in 1 .. n : SubSeq(s, 1, n)[i] = s[i]
<1>1. n \in Int /\ \A i \in 1 .. n : s[i] \in S
  OBVIOUS
<1> DEFINE u == SubSeq(s, 1, n)
<1>2. /\ u \in Seq(S) /\ Len(u) = IF 1 <= n THEN n - 1 + 1 ELSE 0
      /\ \A i \in 1 .. n - 1 + 1 : u[i] = s[1 + i - 1]
  BY <1>1, SubSeqProperties
<1>3. n - 1 + 1 = n /\ n \in Nat /\ \A i \in 1 .. n : 1 + i - 1 = i
  OBVIOUS
<1> HIDE DEF u
<1>4. u \in Seq(S) /\ Len(u) = n /\ \A i \in 1 .. n : u[i] = s[i]
  BY <1>2, <1>3
<1> QED BY <1>4 DEF u

LEMMA PrefixesEqual ==
  ASSUME NEW S, NEW s \in Seq(S), NEW t \in Seq(S), NEW m \in Nat,
         m <= Len(s), m <= Len(t), \A i \in 1 .. m : s[i] = t[i]
  PROVE  SubSeq(s, 1, m) = SubSeq(t, 1, m)
<1> DEFINE u == SubSeq(s, 1, m)
           v == SubSeq(t, 1, m)
<1>1. m \in 0 .. Len(s) /\ m \in 0 .. Len(t)
  OBVIOUS
<1>2. u \in Seq(S) /\ Len(u) = m /\ \A i \in 1 .. m : u[i] = s[i]
  BY <1>1, LinePrefix
<1>3. v \in Seq(S) /\ Len(v) = m /\ \A i \in 1 .. m : v[i] = t[i]
  BY <1>1, LinePrefix
<1> HIDE DEF u, v
<1>4. u = v
  BY <1>2, <1>3, SeqEqual
<1> QED BY <1>4 DEF u, v

-----------------------------------------------------------------------------
LEMMA ReaderFacts ==
  ASSUME LineTypeOK
  PROVE  /\ procs \in Seq(Proc) /\ Len(procs) \in Nat \ {0} /\ Reader \in Proc
         /\ Reader.pc \in Pcs
<1>1. procs \in Seq(Proc) /\ procs # <<>>
  BY DEF LineTypeOK, Proc
<1>2. Len(procs) \in Nat \ {0}
  BY <1>1
<1>3. Reader \in Proc
  BY <1>1, <1>2 DEF Reader
<1> QED BY <1>1, <1>2, <1>3 DEF Proc

LEMMA SetReaderFacts ==
  ASSUME LineTypeOK, NEW r \in Proc, SetReader(r)
  PROVE  /\ procs' \in Seq(Proc) /\ procs' # <<>>
         /\ Len(procs') = Len(procs) /\ Reader' = r
<1>1. procs \in Seq(Proc) /\ Len(procs) \in Nat \ {0}
  BY ReaderFacts
<1>2. /\ procs' \in Seq(Proc) /\ Len(procs') = Len(procs)
      /\ procs'[Len(procs)] = r
  BY <1>1 DEF SetReader
<1> QED BY <1>1, <1>2 DEF Reader

LEMMA Constants ==
  /\ BufferSize \in Nat /\ BufferSize > 2 /\ 0 \in Index
  /\ Chars \subseteq Cells /\ Null \in Cells /\ LineFeed \in Cells
  /\ Null # LineFeed /\ Null \notin Chars /\ LineFeed \notin Chars
  /\ Empty \in [Index -> Cells]
  /\ <<>> \in Seq(Cells \cup {Junk})
  BY LineAssumption, TerminalAssumption DEF Index, Cells, Empty, Null, LineFeed, Junk

(* A step of terminal_read before the copy or after the clearing loop.     *)
LEMMA SameLines ==
  ASSUME UNCHANGED <<keyboard_buffer, end_buf_idx, current_terminal, saved>>,
         NEW t
  PROVE  LineOf(t)' = LineOf(t)
  BY DEF LineOf

LEMMA SameRest ==
  ASSUME UNCHANGED <<keyboard_buffer, end_buf_idx, current_terminal, saved, filled>>,
         Racing => Racing', NEW t, RestOf(t)
  PROVE  RestOf(t)'
<1>1. \A i : Behind(t, i)' => Behind(t, i)
  BY DEF Behind, IdxOf
<1>2. BufferOf(t)' = BufferOf(t)
  BY DEF BufferOf
<1>3. IdxOf(t)' = IdxOf(t)
  BY DEF IdxOf
<1> QED BY <1>1, <1>2, <1>3 DEF RestOf

LEMMA ReadStartInv ==
  ASSUME LineInv, NEW n \in ReadSizes, ReadStart(n)
  PROVE  LineInv'
<1> DEFINE r == [pc |-> "wait", nbytes |-> n, buf |-> <<>>]
<1>1. LineTypeOK /\ SetReader(r) /\ Reader.pc = "user"
  BY DEF LineInv, ReadStart
<1>2. r \in Proc
  BY Constants DEF Proc, Pcs
<1>3. procs' \in Seq(Proc) /\ procs' # <<>> /\ Reader' = r
  BY <1>1, <1>2, SetReaderFacts
<1>4. UNCHANGED <<keyboard_buffer, end_buf_idx, enter_pressed,
                  current_terminal, terminal_used, saved, typed, filled,
                  races, raced>>
  BY DEF ReadStart
<1>5. LineTypeOK'
  BY <1>1, <1>3, <1>4 DEF LineTypeOK, Proc
<1>6. LineKept'
  BY <1>1, <1>4, SameLines DEF LineInv, LineKept, Taking
<1>r. RestKept'
  BY <1>1, <1>3, <1>4, SameRest DEF LineInv, RestKept, Taking, Racing
<1>7. LineDelivered' /\ Window'
  BY <1>3, <1>4 DEF LineInv, LineDelivered, Window, LineFed
<1> QED BY <1>5, <1>6, <1>r, <1>7 DEF LineInv

LEMMA ReadWaitInv ==
  ASSUME LineInv, ReadWait
  PROVE  LineInv'
<1> DEFINE r == [Reader EXCEPT !.pc = "ack"]
<1>1. LineTypeOK /\ SetReader(r) /\ Reader.pc = "wait" /\ enter_pressed
  BY DEF LineInv, ReadWait
<1>2. r \in Proc /\ r.pc = "ack"
  BY <1>1, ReaderFacts DEF Proc, Pcs
<1> HIDE DEF r
<1>3. procs' \in Seq(Proc) /\ procs' # <<>> /\ Reader' = r
  BY <1>1, <1>2, SetReaderFacts
<1>4. UNCHANGED <<keyboard_buffer, end_buf_idx, enter_pressed,
                  current_terminal, terminal_used, saved, typed, filled,
                  races, raced>>
  BY DEF ReadWait
<1>5. LineTypeOK'
  BY <1>1, <1>3, <1>4 DEF LineTypeOK, Proc
<1>6. LineKept'
  BY <1>1, <1>4, SameLines DEF LineInv, LineKept, Taking
<1>r. RestKept'
  BY <1>1, <1>2, <1>3, <1>4, SameRest DEF LineInv, RestKept, Taking, Racing
<1>7. LineDelivered' /\ Window'
  BY <1>1, <1>2, <1>3, <1>4 DEF LineInv, LineDelivered, Window, LineFed
<1> QED BY <1>5, <1>6, <1>r, <1>7 DEF LineInv

LEMMA ReadAckInv ==
  ASSUME LineInv, ReadAck
  PROVE  LineInv'
<1> DEFINE r == [Reader EXCEPT !.pc = "copy"]
<1>1. LineTypeOK /\ SetReader(r) /\ Reader.pc = "ack" /\ ~enter_pressed'
      /\ enter_pressed' \in BOOLEAN
  BY DEF LineInv, ReadAck
<1>2. r \in Proc /\ r.pc = "copy"
  BY <1>1, ReaderFacts DEF Proc, Pcs
<1> HIDE DEF r
<1>3. procs' \in Seq(Proc) /\ procs' # <<>> /\ Reader' = r
  BY <1>1, <1>2, SetReaderFacts
<1>4. UNCHANGED <<keyboard_buffer, end_buf_idx,
                  current_terminal, terminal_used, saved, typed, filled,
                  races, raced>>
  BY DEF ReadAck
<1>5. LineTypeOK'
  BY <1>1, <1>3, <1>4 DEF LineTypeOK, Proc
<1>6. LineKept'
  BY <1>1, <1>4, SameLines DEF LineInv, LineKept, Taking
<1>r. RestKept'
  BY <1>1, <1>2, <1>3, <1>4, SameRest DEF LineInv, RestKept, Taking, Racing
<1>7. LineDelivered' /\ Window'
  BY <1>1, <1>2, <1>3, <1>4 DEF LineInv, LineDelivered, Window, LineFed
<1> QED BY <1>5, <1>6, <1>r, <1>7 DEF LineInv

-----------------------------------------------------------------------------
(* The loop of terminal_read that copies stops at the first Null.          *)
LEMMA LineEndFacts ==
  ASSUME LineTypeOK
  PROVE  /\ LineEnd \in 0 .. BufferSize
         /\ LineEnd = BufferSize \/ keyboard_buffer[LineEnd] = Null
         /\ \A j \in 0 .. LineEnd - 1 : keyboard_buffer[j] # Null
<1> DEFINE T == {i \in 0 .. BufferSize : i = BufferSize \/ keyboard_buffer[i] = Null}
           P(i) == /\ i = BufferSize \/ keyboard_buffer[i] = Null
                   /\ \A j \in 0 .. i - 1 : keyboard_buffer[j] # Null
<1>1. BufferSize \in Nat /\ T \in SUBSET Nat /\ BufferSize \in T
  BY Constants
<1>2. PICK n \in T : \A m \in T : n <= m
  BY <1>1, LeastElement
<1>3. n \in 0 .. BufferSize /\ P(n)
  BY <1>1, <1>2
<1>4. LineEnd = CHOOSE i \in 0 .. BufferSize : P(i)
  BY DEF LineEnd
<1> HIDE DEF P
<1>5. LineEnd \in 0 .. BufferSize /\ P(LineEnd)
  BY <1>3, <1>4, Zenon
<1> QED BY <1>5 DEF P

LEMMA TailBytes ==
  ASSUME NEW n, NEW tail \in Tails(n)
  PROVE  tail \in Seq(Cells \cup {Junk}) /\ Len(tail) \in Nat
<1>1. tail = <<>> \/ tail = <<Junk>>
  BY DEF Tails
<1>2. <<>> \in Seq(Cells \cup {Junk}) /\ <<Junk>> \in Seq(Cells \cup {Junk})
  OBVIOUS
<1>3. tail \in Seq(Cells \cup {Junk})
  BY <1>1, <1>2
<1> QED BY <1>3, LenProperties

LEMMA UpToFacts ==
  ASSUME NEW S, NEW s \in Seq(S), NEW n \in Nat
  PROVE  LET m == IF n < Len(s) THEN n ELSE Len(s)
         IN  /\ m \in Nat /\ UpTo(n, s) \in Seq(S) /\ Len(UpTo(n, s)) = m
             /\ \A i \in 1 .. m : UpTo(n, s)[i] = s[i]
<1> DEFINE m == IF n < Len(s) THEN n ELSE Len(s)
<1>1. m \in 0 .. Len(s) /\ m \in Nat
  OBVIOUS
<1>2. UpTo(n, s) = SubSeq(s, 1, m)
  BY DEF UpTo
<1> HIDE DEF m
<1>3. UpTo(n, s) \in Seq(S) /\ Len(UpTo(n, s)) = m /\ \A i \in 1 .. m : UpTo(n, s)[i] = s[i]
  BY <1>1, <1>2, LinePrefix
<1> QED BY <1>1, <1>3 DEF m

(* A line with its line feed in the buffer ends where StoredLine does.     *)
LEMMA StoredFacts ==
  ASSUME LineTypeOK, RestOf(current_terminal), LineFed,
         LineOf(current_terminal) = typed[current_terminal]
  PROVE  /\ StoredLine \in Seq(Cells \cup {Junk}) /\ Len(StoredLine) = LineEnd
         /\ LineEnd \in 0 .. BufferSize
         /\ \A i \in 1 .. LineEnd : StoredLine[i] = keyboard_buffer[i - 1]
<1> DEFINE S == Cells \cup {Junk}
           w == typed[current_terminal]
           x == end_buf_idx
<1>1. /\ BufferSize \in Nat /\ BufferSize > 2 /\ x \in 0 .. BufferSize - 1 /\ x \in Nat
      /\ keyboard_buffer \in [Index -> Cells] /\ w \in Seq(Chars) /\ w \in Seq(S)
      /\ LineFeed \in S /\ Index = 0 .. BufferSize - 1
  BY Constants DEF LineTypeOK, Index
<1>2. w = [i \in 1 .. x |-> keyboard_buffer[i - 1]]
  BY DEF LineOf
<1>3. Len(w) = x /\ \A i \in 1 .. x : w[i] = keyboard_buffer[i - 1] /\ w[i] \in Chars
  BY <1>1, <1>2
<1>4. /\ EndedLine \in Seq(S) /\ Len(EndedLine) = x + 1 /\ EndedLine[x + 1] = LineFeed
      /\ \A i \in 1 .. x : EndedLine[i] = w[i]
  BY <1>1, <1>3 DEF EndedLine
<1>5. \A i \in 1 .. x + 1 : EndedLine[i] = keyboard_buffer[i - 1]
  BY <1>1, <1>3, <1>4 DEF LineFed
<1>6. \A i \in 0 .. x : keyboard_buffer[i] # Null
  <2> SUFFICES ASSUME NEW i \in 0 .. x PROVE keyboard_buffer[i] # Null
    OBVIOUS
  <2>1. CASE i = x
    BY <2>1, Constants DEF LineFed
  <2>2. CASE i # x
    <3>1. i + 1 \in 1 .. x /\ i + 1 - 1 = i
      BY <1>1, <2>2
    <3>2. keyboard_buffer[i] \in Chars
      BY <1>3, <3>1
    <3> QED BY <3>2, Constants
  <2> QED BY <2>1, <2>2
<1>7. /\ LineEnd \in 0 .. BufferSize
      /\ LineEnd = BufferSize \/ keyboard_buffer[LineEnd] = Null
      /\ \A j \in 0 .. LineEnd - 1 : keyboard_buffer[j] # Null
  BY LineEndFacts
<1>8. LineEnd >= x + 1
  BY <1>1, <1>6, <1>7
<1>9. \A i \in Index : i > x =>
        keyboard_buffer[i] = IF i = BufferSize - 1 /\ current_terminal \in filled
                               THEN LineFeed ELSE Null
  BY DEF RestOf, Behind, BufferOf, IdxOf
<1> HIDE DEF S, w, x
<1>10. CASE current_terminal \in filled /\ Len(EndedLine) = BufferSize - 1
  <2>1. StoredLine = Append(EndedLine, LineFeed) /\ x = BufferSize - 2
    BY <1>1, <1>4, <1>10 DEF StoredLine
  <2>2. keyboard_buffer[BufferSize - 1] = LineFeed
    BY <1>1, <1>9, <1>10, <2>1
  <2>3. LineEnd = BufferSize
    <3>1. LineEnd \in {BufferSize - 1, BufferSize}
      BY <1>1, <1>7, <1>8, <2>1
    <3> QED BY <1>7, <2>2, <3>1, Constants
  <2>4. /\ StoredLine \in Seq(S) /\ Len(StoredLine) = x + 2 /\ StoredLine[x + 2] = LineFeed
        /\ \A i \in 1 .. x + 1 : StoredLine[i] = EndedLine[i]
    BY <1>1, <1>4, <2>1
  <2>5. \A i \in 1 .. x + 2 : StoredLine[i] = keyboard_buffer[i - 1]
    <3> SUFFICES ASSUME NEW i \in 1 .. x + 2 PROVE StoredLine[i] = keyboard_buffer[i - 1]
      OBVIOUS
    <3>1. CASE i = x + 2
      <4>1. i - 1 = BufferSize - 1
        BY <1>1, <2>1, <3>1
      <4> QED BY <2>2, <2>4, <3>1, <4>1
    <3>2. CASE i # x + 2
      <4>1. i \in 1 .. x + 1
        BY <1>1, <3>2
      <4> QED BY <1>5, <2>4, <4>1
    <3> QED BY <3>1, <3>2
  <2>6. BufferSize = x + 2
    BY <1>1, <2>1
  <2> QED BY <1>7, <2>3, <2>4, <2>5, <2>6 DEF S
<1>11. CASE ~(current_terminal \in filled /\ Len(EndedLine) = BufferSize - 1)
  <2>1. StoredLine = EndedLine
    BY <1>11 DEF StoredLine
  <2>2. LineEnd = x + 1
    <3>1. CASE x = BufferSize - 1
      BY <1>1, <1>7, <1>8, <3>1
    <3>2. CASE x # BufferSize - 1
      <4>1. x + 1 \in Index /\ x + 1 > x
        BY <1>1, <3>2
      <4>2. ~(x + 1 = BufferSize - 1 /\ current_terminal \in filled)
        BY <1>4, <1>11
      <4>3. keyboard_buffer[x + 1] = Null
        BY <1>9, <4>1, <4>2
      <4>4. ~(x + 1 \in 0 .. LineEnd - 1)
        BY <1>7, <4>3
      <4> QED BY <1>1, <1>7, <1>8, <4>4
    <3> QED BY <3>1, <3>2
  <2> QED BY <1>4, <1>5, <1>7, <2>1, <2>2 DEF S
<1> QED BY <1>10, <1>11

(* What the loop copies of it, exactly.                                    *)
Delivered(b, n) ==
  \/ b = UpTo(n, StoredLine)
  \/ /\ Len(StoredLine) = BufferSize /\ n > BufferSize
     /\ b = Append(StoredLine, Junk)

LEMMA CopyFacts ==
  ASSUME LineTypeOK, NEW n \in Nat, NEW tail \in Tails(n), RestOf(current_terminal),
         LineOf(current_terminal) = typed[current_terminal], LineFed
  PROVE  Delivered([i \in 1 .. Count(n) |-> keyboard_buffer[i - 1]] \o tail, n)
<1> DEFINE S == Cells \cup {Junk}
           c == [i \in 1 .. Count(n) |-> keyboard_buffer[i - 1]]
           u == UpTo(n, StoredLine)
<1>1. /\ StoredLine \in Seq(S) /\ Len(StoredLine) = LineEnd /\ LineEnd \in 0 .. BufferSize
      /\ \A i \in 1 .. LineEnd : StoredLine[i] = keyboard_buffer[i - 1]
  BY StoredFacts
<1>2. BufferSize \in Nat /\ LineEnd \in Nat /\ Count(n) \in Nat /\ Count(n) <= LineEnd
  BY <1>1, Constants DEF Count
<1>3. Junk \in S /\ S # {}
  OBVIOUS
<1> HIDE DEF S
<1>4. u \in Seq(S) /\ Len(u) = Count(n) /\ \A i \in 1 .. Count(n) : u[i] = StoredLine[i]
  BY <1>1, <1>2, UpToFacts DEF Count
<1> HIDE DEF u
<1>5. u = [i \in 1 .. Count(n) |-> u[i]]
  BY <1>2, <1>4
<1>6. \A i \in 1 .. Count(n) : u[i] = keyboard_buffer[i - 1]
  BY <1>1, <1>2, <1>4
<1>7. c = u
  BY <1>5, <1>6
<1> HIDE DEF c
<1>8. CASE tail = <<>>
  <2>1. c \o tail = u
    BY <1>4, <1>7, <1>8
  <2> QED BY <2>1 DEF Delivered, u, c
<1>9. CASE tail # <<>>
  <2>1. tail = <<Junk>> /\ n > BufferSize /\ LineEnd = BufferSize
    BY <1>9 DEF Tails
  <2>2. Count(n) = LineEnd
    BY <1>2, <2>1 DEF Count
  <2>3. u = StoredLine
    BY <1>1, <1>2, <1>4, <2>2, SeqEqual
  <2>4. StoredLine \o <<Junk>> = Append(StoredLine, Junk)
    BY <1>1, <1>3, AppendIsConcat
  <2>5. c \o tail = Append(StoredLine, Junk)
    BY <1>7, <2>1, <2>3, <2>4
  <2> QED BY <1>1, <2>1, <2>5 DEF Delivered, c
<1> QED BY <1>8, <1>9

LEMMA CopiedBytes ==
  ASSUME LineTypeOK, NEW n \in Nat, NEW tail \in Tails(n)
  PROVE  [i \in 1 .. Count(n) |-> keyboard_buffer[i - 1]] \o tail \in Seq(Cells \cup {Junk})
<1> DEFINE c == [i \in 1 .. Count(n) |-> keyboard_buffer[i - 1]]
           S == Cells \cup {Junk}
<1>1. Count(n) \in Nat /\ Count(n) <= BufferSize /\ BufferSize \in Nat
  BY LineEndFacts, Constants DEF Count
<1>2. \A i \in 1 .. Count(n) : keyboard_buffer[i - 1] \in S
  BY <1>1 DEF LineTypeOK, Index
<1>3. c \in [1 .. Count(n) -> S]
  BY <1>2
<1>4. tail \in Seq(S)
  BY TailBytes
<1> HIDE DEF c, S
<1>5. c \in Seq(S)
  BY <1>1, <1>3
<1>6. c \o tail \in Seq(S)
  BY <1>4, <1>5, ConcatProperties
<1> QED BY <1>6 DEF c, S

LEMMA ReadCopyInv ==
  ASSUME LineInv, ReadCopy
  PROVE  LineInv'
<1>1. LineTypeOK /\ Reader.pc = "copy" /\ Reader.nbytes \in Nat /\ Reader \in Proc
  BY ReaderFacts, LineAssumption, TerminalAssumption DEF LineInv, ReadCopy, Proc
<1>2. PICK tail \in Tails(Reader.nbytes) :
        SetReader([Reader EXCEPT !.pc = "clear",
          !.buf = [i \in 1 .. Count(Reader.nbytes) |-> keyboard_buffer[i - 1]] \o tail])
  BY DEF ReadCopy
<1> DEFINE b == [i \in 1 .. Count(Reader.nbytes) |-> keyboard_buffer[i - 1]] \o tail
           r == [Reader EXCEPT !.pc = "clear", !.buf = b]
<1>3. b \in Seq(Cells \cup {Junk})
  BY <1>1, CopiedBytes
<1>4. SetReader(r)
  BY <1>2
<1>5. /\ LineOf(current_terminal) = typed[current_terminal]
      /\ RestOf(current_terminal) /\ LineFed
      => Delivered(b, Reader.nbytes)
  BY <1>1, CopyFacts
<1> HIDE DEF b
<1>6. r \in Proc /\ r.pc = "clear" /\ r.buf = b /\ r.nbytes = Reader.nbytes
  BY <1>1, <1>3 DEF Proc, Pcs
<1> HIDE DEF r
<1>7. procs' \in Seq(Proc) /\ procs' # <<>> /\ Reader' = r
  BY <1>1, <1>4, <1>6, SetReaderFacts
<1>8. UNCHANGED <<keyboard_buffer, end_buf_idx, enter_pressed,
                  current_terminal, terminal_used, saved, typed, filled,
                  races, raced>>
  BY DEF ReadCopy
<1>9. LineTypeOK'
  BY <1>1, <1>7, <1>8 DEF LineTypeOK, Proc
<1>10. LineKept'
  BY <1>1, <1>8, SameLines DEF LineInv, LineKept, Taking
<1>11. current_terminal \notin raced =>
         /\ LineFed /\ LineOf(current_terminal) = typed[current_terminal]
         /\ RestOf(current_terminal)
  BY <1>1 DEF LineInv, LineKept, RestKept, Taking, LineTypeOK, Window
<1>r. RestKept'
  BY <1>1, <1>6, <1>7, <1>8, SameRest DEF LineInv, RestKept, Taking, Racing
<1>12. LineDelivered'
  BY <1>5, <1>6, <1>7, <1>8, <1>11
     DEF LineDelivered, Delivered, StoredLine, EndedLine
<1>13. Window'
  BY <1>1, <1>6, <1>7, <1>8 DEF LineInv, Window, LineFed
<1> QED BY <1>9, <1>10, <1>r, <1>12, <1>13 DEF LineInv

LEMMA ReadClearInv ==
  ASSUME LineInv, ReadClear
  PROVE  LineInv'
<1> DEFINE r == [Reader EXCEPT !.pc = "reset"]
<1>1. LineTypeOK /\ SetReader(r) /\ Reader.pc = "clear" /\ keyboard_buffer' = Empty
  BY DEF LineInv, ReadClear
<1>2. r \in Proc /\ r.pc = "reset" /\ r.buf = Reader.buf /\ r.nbytes = Reader.nbytes
  BY <1>1, ReaderFacts DEF Proc, Pcs
<1> HIDE DEF r
<1>3. procs' \in Seq(Proc) /\ procs' # <<>> /\ Reader' = r
  BY <1>1, <1>2, SetReaderFacts
<1>4. UNCHANGED <<end_buf_idx, enter_pressed,
                  current_terminal, terminal_used, saved, typed, filled,
                  races, raced>>
  BY DEF ReadClear
<1>5. LineTypeOK'
  BY <1>1, <1>3, <1>4, Constants DEF LineTypeOK, Proc
<1>6. LineKept'
  BY <1>1, <1>2, <1>3, <1>4 DEF LineInv, LineKept, Taking, LineOf
<1>r. RestKept'
  <2> SUFFICES ASSUME NEW t \in Terminals, t # current_terminal, t \notin raced
               PROVE  RestOf(t)'
    BY <1>1, <1>2, <1>3, <1>4 DEF RestKept, Taking
  <2>1. RestOf(t)
    BY <1>1 DEF LineInv, RestKept, Taking
  <2> QED BY <1>4, <2>1 DEF RestOf, Behind, BufferOf, IdxOf
<1>7. LineDelivered'
  BY <1>1, <1>2, <1>3, <1>4 DEF LineInv, LineDelivered, StoredLine, EndedLine
<1>8. Window'
  BY <1>1, <1>2, <1>3, <1>4 DEF LineInv, Window, LineTypeOK
<1> QED BY <1>5, <1>6, <1>r, <1>7, <1>8 DEF LineInv

LEMMA ReadResetInv ==
  ASSUME LineInv, ReadReset
  PROVE  LineInv'
<1>1. /\ LineTypeOK /\ SetReader(UserProc) /\ Reader.pc = "reset" /\ end_buf_idx' = 0
      /\ raced' = IF keyboard_buffer = Empty /\ ~enter_pressed
                    THEN raced \ {current_terminal} ELSE raced
      /\ typed' = [typed EXCEPT ![current_terminal] = <<>>]
      /\ filled' = filled \ {current_terminal}
      /\ UNCHANGED <<keyboard_buffer, enter_pressed, current_terminal,
                     terminal_used, saved, races>>
  BY DEF LineInv, ReadReset
<1>2. UserProc \in Proc /\ UserProc.pc = "user"
  BY Constants DEF UserProc, Proc, Pcs
<1>3. procs' \in Seq(Proc) /\ procs' # <<>> /\ Reader' = UserProc
  BY <1>1, <1>2, SetReaderFacts
<1>4. LineTypeOK'
  BY <1>1, <1>3, Constants DEF LineTypeOK, Proc
<1>5. \A t \in Terminals \ {current_terminal} :
        /\ LineOf(t)' = LineOf(t) /\ typed'[t] = typed[t]
        /\ t \in raced => t \in raced'
  BY <1>1 DEF LineOf, LineTypeOK
<1>6. LineOf(current_terminal)' = <<>> /\ typed'[current_terminal] = <<>>
  BY <1>1 DEF LineOf, LineTypeOK
<1>7. LineKept'
  BY <1>1, <1>5, <1>6 DEF LineInv, LineKept, Taking
<1>r. RestKept'
  <2> SUFFICES ASSUME NEW t \in Terminals, t \notin raced' PROVE RestOf(t)'
    BY DEF RestKept
  <2>1. CASE t = current_terminal
    <3>1. keyboard_buffer' = Empty
      BY <1>1, <2>1 DEF LineInv, Window
    <3>2. IdxOf(t)' # BufferSize - 1 /\ BufferOf(t)' = Empty /\ t \notin filled'
      BY <1>1, <2>1, <3>1, Constants DEF IdxOf, BufferOf
    <3> QED BY <3>2 DEF RestOf, Empty
  <2>2. CASE t # current_terminal
    <3>1. RestOf(t)
      BY <1>5, <2>2 DEF LineInv, RestKept, Taking
    <3> QED BY <1>1, <2>2, <3>1 DEF RestOf, Behind, BufferOf, IdxOf
  <2> QED BY <2>1, <2>2
<1>8. LineDelivered'
  BY <1>2, <1>3 DEF LineDelivered
<1>9. Window'
  BY <1>1, <1>2, <1>3 DEF LineInv, Window
<1> QED BY <1>4, <1>7, <1>r, <1>8, <1>9 DEF LineInv

(* The process below may be anywhere in a read; its terminal counts as     *)
(* raced then.                                                             *)
LEMMA HaltInv ==
  ASSUME LineInv, Halt
  PROVE  LineInv'
<1> DEFINE n == Len(procs) - 1
<1>1. /\ LineTypeOK /\ Reader.pc = "user" /\ Len(procs) > 1
      /\ procs' = SubSeq(procs, 1, n)
      /\ raced' = IF procs[n].pc \in {"user", "wait"} THEN raced
                  ELSE raced \cup {current_terminal}
      /\ UNCHANGED <<keyboard_buffer, end_buf_idx, enter_pressed,
                     current_terminal, terminal_used, saved, typed, filled, races>>
  BY DEF LineInv, Halt
<1>2. procs \in Seq(Proc) /\ n \in 1 .. Len(procs) /\ n \in 0 .. Len(procs)
  BY <1>1, ReaderFacts
<1>3. procs' \in Seq(Proc) /\ Len(procs') = n /\ procs'[n] = procs[n]
  BY <1>1, <1>2, LinePrefix
<1>4. Reader' = procs[n] /\ procs[n] \in Proc /\ procs' # <<>>
  BY <1>2, <1>3 DEF Reader
<1> HIDE DEF n
<1>5. LineTypeOK'
  BY <1>1, <1>3, <1>4 DEF LineTypeOK, Proc
<1>6. LineKept'
  BY <1>1, SameLines DEF LineInv, LineKept, Taking
<1>r. RestKept'
  BY <1>1, <1>4, SameRest DEF LineInv, RestKept, Taking, Racing
<1>7. LineDelivered'
  BY <1>1, <1>4 DEF LineDelivered
<1>8. Window'
  BY <1>1, <1>4 DEF LineInv, Window, LineFed
<1> QED BY <1>5, <1>6, <1>r, <1>7, <1>8 DEF LineInv

-----------------------------------------------------------------------------
(* What a key does to the history.                                         *)
LEMMA KeyPressFacts ==
  ASSUME LineTypeOK, NEW line \in Seq(Chars), KeyPress(line), current_terminal' \in Terminals
  PROVE  /\ Racing => current_terminal \in raced' /\ current_terminal' \in raced'
         /\ ~Racing => raced' = raced
         /\ raced \subseteq raced' /\ raced' \subseteq Terminals /\ races' \in Nat
         /\ typed' \in [Terminals -> Seq(Chars)]
         /\ \A t \in Terminals \ raced' :
              typed'[t] = IF t = current_terminal THEN line ELSE typed[t]
         /\ filled' \subseteq Terminals
         /\ \A t \in Terminals \ raced' :
              t \in filled' <=> t \in filled \/ (t = current_terminal' /\ Full')
<1>1. /\ Racing => current_terminal \in raced' /\ current_terminal' \in raced'
      /\ ~Racing => raced' = raced
      /\ raced \subseteq raced' /\ raced' \subseteq Terminals /\ races' \in Nat
  BY DEF KeyPress, LineTypeOK
<1>2. typed' = [t \in Terminals |-> IF t \in raced' THEN <<>>
                                    ELSE IF t = current_terminal THEN line ELSE typed[t]]
  BY DEF KeyPress
<1>3. <<>> \in Seq(Chars) /\ \A t \in Terminals : typed[t] \in Seq(Chars)
  BY DEF LineTypeOK
<1>4. /\ filled' \subseteq Terminals
      /\ \A t \in Terminals \ raced' :
           t \in filled' <=> t \in filled \/ (t = current_terminal' /\ Full')
  BY DEF KeyPress, LineTypeOK
<1> QED BY <1>1, <1>2, <1>3, <1>4

(* A key whose terminal stays, and that is not an Enter, by what it does   *)
(* to the line.                                                            *)
LEMMA EditInv ==
  ASSUME LineInv, NEW line \in Seq(Chars), KeyPress(line),
         keyboard_buffer' \in [Index -> Cells], end_buf_idx' \in Index,
         UNCHANGED <<current_terminal, terminal_used, saved, procs>>,
         enter_pressed' \in BOOLEAN,
         enter_pressed' => enter_pressed \/ LineFed',
         LineOf(current_terminal) = typed[current_terminal] =>
           LineOf(current_terminal)' = line,
         /\ ~Racing /\ RestOf(current_terminal)
         /\ current_terminal \in filled' <=> current_terminal \in filled \/ Full'
         => RestOf(current_terminal)'
  PROVE  LineInv'
<1>1. LineTypeOK /\ current_terminal \in Terminals /\ Reader' = Reader
  BY DEF LineInv, LineTypeOK, Reader
<1>2. /\ Racing => current_terminal \in raced'
      /\ ~Racing => raced' = raced
      /\ raced \subseteq raced' /\ raced' \subseteq Terminals /\ races' \in Nat
      /\ typed' \in [Terminals -> Seq(Chars)]
      /\ \A t \in Terminals \ raced' :
           typed'[t] = IF t = current_terminal THEN line ELSE typed[t]
      /\ filled' \subseteq Terminals
      /\ \A t \in Terminals \ raced' :
           t \in filled' <=> t \in filled \/ (t = current_terminal' /\ Full')
  BY <1>1, KeyPressFacts
<1>3. LineTypeOK'
  BY <1>1, <1>2 DEF LineTypeOK
<1>4. ASSUME NEW t \in Terminals, t # current_terminal PROVE LineOf(t)' = LineOf(t)
  BY <1>4 DEF LineOf
<1>5. current_terminal \notin raced' => LineOf(current_terminal)' = typed'[current_terminal]
  BY <1>1, <1>2 DEF LineInv, LineKept, Taking, Racing
<1>6. LineKept'
  BY <1>1, <1>2, <1>4, <1>5 DEF LineInv, LineKept, Taking
<1>r. RestKept'
  <2> SUFFICES ASSUME NEW t \in Terminals, t \notin raced' PROVE RestOf(t)'
    BY DEF RestKept
  <2>1. t \notin raced /\ RestOf(t) /\ (t = current_terminal => ~Racing)
    BY <1>2 DEF LineInv, RestKept, Taking, Racing
  <2>2. CASE t = current_terminal
    BY <1>2, <2>1, <2>2
  <2>3. CASE t # current_terminal
    <3>1. t \in filled' <=> t \in filled
      BY <1>2, <2>3
    <3> QED BY <2>1, <2>3, <3>1 DEF RestOf, Behind, BufferOf, IdxOf
  <2> QED BY <2>2, <2>3
<1>7. LineDelivered'
  BY <1>1, <1>2 DEF LineDelivered, Racing
<1>8. Window'
  BY <1>1, <1>2 DEF Window, Racing
<1> QED BY <1>3, <1>6, <1>r, <1>7, <1>8 DEF LineInv

LEMMA LineFacts ==
  ASSUME LineTypeOK
  PROVE  /\ Line \in Seq(Chars) /\ end_buf_idx \in 0 .. BufferSize - 1
         /\ keyboard_buffer \in [Index -> Cells]
         /\ LineOf(current_terminal) = [i \in 1 .. end_buf_idx |-> keyboard_buffer[i - 1]]
  BY DEF LineTypeOK, Line, Index, LineOf

LEMMA KeyCharInv ==
  ASSUME LineInv, NEW c \in Chars, KeyChar(c)
  PROVE  LineInv'
<1> DEFINE x == end_buf_idx
           line == Append(Line, c)
<1>1. LineTypeOK /\ StoreChar(c) /\ KeyPress(line)
      /\ UNCHANGED <<enter_pressed, current_terminal, terminal_used, saved, procs>>
  BY DEF LineInv, KeyChar
<1>2. /\ x \in Nat /\ BufferSize \in Nat /\ x + 1 \in Index /\ end_buf_idx' = x + 1
      /\ Line \in Seq(Chars) /\ keyboard_buffer \in [Index -> Cells]
  BY <1>1, LineFacts, Constants DEF StoreChar, Index
<1>3. /\ keyboard_buffer' \in [Index -> Cells] /\ keyboard_buffer'[x] = c
      /\ \A i \in 0 .. x - 1 : keyboard_buffer'[i] = keyboard_buffer[i]
  BY <1>1, <1>2, Constants DEF StoreChar, Index
<1>4. line \in Seq(Chars)
  BY <1>2
<1>5. ASSUME LineOf(current_terminal) = typed[current_terminal]
      PROVE  LineOf(current_terminal)' = line
  <2> DEFINE u == [i \in 1 .. x + 1 |-> keyboard_buffer'[i - 1]]
  <2>1. LineOf(current_terminal)' = u
    BY <1>1, <1>2 DEF LineOf
  <2>2. Line = [i \in 1 .. x |-> keyboard_buffer[i - 1]]
    BY <1>1, <1>5, LineFacts DEF Line
  <2>3. Len(Line) = x /\ \A i \in 1 .. x : Line[i] = keyboard_buffer[i - 1]
    BY <1>2, <2>2
  <2>4. /\ Len(line) = x + 1 /\ line[x + 1] = c
        /\ \A i \in 1 .. x : line[i] = Line[i]
    BY <1>2, <2>3
  <2>5. \A i \in 1 .. x + 1 : u[i] = line[i]
    <3> SUFFICES ASSUME NEW i \in 1 .. x + 1 PROVE u[i] = line[i]
      OBVIOUS
    <3>1. CASE i = x + 1
      BY <1>2, <1>3, <2>4, <3>1
    <3>2. CASE i # x + 1
      <4>1. i \in 1 .. x /\ i - 1 \in 0 .. x - 1
        BY <1>2, <3>2
      <4> QED BY <1>3, <2>3, <2>4, <4>1
    <3> QED BY <3>1, <3>2
  <2> HIDE DEF line
  <2>6. line = [i \in 1 .. x + 1 |-> line[i]]
    BY <1>2, <1>4, <2>4
  <2>7. u = line
    BY <2>5, <2>6
  <2> QED BY <2>1, <2>7
<1>6. enter_pressed' \in BOOLEAN /\ (enter_pressed' => enter_pressed)
  BY <1>1 DEF LineTypeOK
<1>7. ASSUME ~Racing, RestOf(current_terminal),
             current_terminal \in filled' <=> current_terminal \in filled \/ Full'
      PROVE  RestOf(current_terminal)'
  <2> SUFFICES ASSUME NEW i \in Index, i >= x + 1
               PROVE  keyboard_buffer'[i] =
                        IF i = BufferSize - 1 /\ current_terminal \in filled'
                          THEN LineFeed ELSE Null
    <3>1. IdxOf(current_terminal)' = BufferSize - 1 => current_terminal \in filled'
      BY <1>1, <1>7 DEF Full, IdxOf
    <3> QED BY <1>1, <1>2, <3>1 DEF RestOf, Behind, BufferOf, IdxOf, Index
  <2>1. x \in Nat /\ i \in Nat /\ x < BufferSize - 1 /\ i # x /\ i <= BufferSize - 1
    BY <1>1, <1>2 DEF StoreChar, Index
  <2>2. CASE x = BufferSize - 2
    <3>1. i = BufferSize - 1 /\ Full'
      BY <1>2, <2>1, <2>2 DEF Full
    <3>2. keyboard_buffer'[i] = LineFeed
      BY <1>1, <2>1, <2>2, <3>1 DEF StoreChar
    <3> QED BY <1>7, <3>1, <3>2
  <2>3. CASE x # BufferSize - 2
    <3>1. ~Full'
      BY <1>2, <2>3 DEF Full
    <3>2. keyboard_buffer'[i] = keyboard_buffer[i]
      BY <1>1, <2>1, <2>3 DEF StoreChar
    <3>3. Behind(current_terminal, i)
      BY <1>2, <2>1 DEF Behind, IdxOf
    <3> QED BY <1>7, <3>1, <3>2, <3>3 DEF RestOf, BufferOf
  <2> QED BY <2>2, <2>3
<1> HIDE DEF line
<1> QED BY <1>1, <1>2, <1>3, <1>4, <1>5, <1>6, <1>7, EditInv

LEMMA KeyEnterInv ==
  ASSUME LineInv, KeyEnter
  PROVE  LineInv'
<1>1. /\ LineTypeOK /\ enter_pressed' = TRUE /\ KeyPress(Line)
      /\ keyboard_buffer' = [keyboard_buffer EXCEPT ![end_buf_idx] = LineFeed]
      /\ UNCHANGED <<end_buf_idx, current_terminal, terminal_used, saved, procs>>
  BY DEF LineInv, KeyEnter
<1>2. /\ Line \in Seq(Chars) /\ end_buf_idx \in 0 .. BufferSize - 1
      /\ end_buf_idx \in Index /\ keyboard_buffer \in [Index -> Cells]
      /\ BufferSize \in Nat
  BY <1>1, LineFacts, Constants DEF Index
<1>3. keyboard_buffer' \in [Index -> Cells] /\ LineFed'
  BY <1>1, <1>2, Constants DEF LineFed
<1>4. LineOf(current_terminal)' = LineOf(current_terminal)
  <2>1. \A i \in 1 .. end_buf_idx : i - 1 \in Index /\ i - 1 # end_buf_idx
    BY <1>2 DEF Index
  <2>2. \A i \in 1 .. end_buf_idx : keyboard_buffer'[i - 1] = keyboard_buffer[i - 1]
    BY <1>1, <1>2, <2>1
  <2> QED BY <1>1, <2>2 DEF LineOf
<1>5. end_buf_idx' \in Index /\ enter_pressed' \in BOOLEAN
  BY <1>1, <1>2
<1>6. ASSUME ~Racing, RestOf(current_terminal),
             current_terminal \in filled' <=> current_terminal \in filled \/ Full'
      PROVE  RestOf(current_terminal)'
  <2> SUFFICES ASSUME NEW i \in Index, i > end_buf_idx
               PROVE  keyboard_buffer'[i] =
                        IF i = BufferSize - 1 /\ current_terminal \in filled'
                          THEN LineFeed ELSE Null
    <3>1. IdxOf(current_terminal)' = BufferSize - 1 => current_terminal \in filled'
      BY <1>1, <1>6 DEF Full, IdxOf
    <3> QED BY <1>1, <3>1 DEF RestOf, Behind, BufferOf, IdxOf, Racing
  <2>1. ~Full'
    BY <1>1, <1>2 DEF Full, Index
  <2>2. keyboard_buffer'[i] = keyboard_buffer[i]
    BY <1>1, <1>2
  <2> QED BY <1>6, <2>1, <2>2 DEF RestOf, Behind, BufferOf, IdxOf
<1> QED BY <1>1, <1>2, <1>3, <1>4, <1>5, <1>6, EditInv DEF Line

LEMMA KeyBackspaceInv ==
  ASSUME LineInv, KeyBackspace
  PROVE  LineInv'
<1> DEFINE x == end_buf_idx
           line == IF Line = <<>> THEN Line ELSE SubSeq(Line, 1, Len(Line) - 1)
<1>1. /\ LineTypeOK /\ x > 0 /\ end_buf_idx' = x - 1 /\ KeyPress(line)
      /\ keyboard_buffer' = [keyboard_buffer EXCEPT ![x - 1] = Null]
      /\ UNCHANGED <<enter_pressed, current_terminal, terminal_used, saved, procs>>
  BY DEF LineInv, KeyBackspace
<1>2. /\ Line \in Seq(Chars) /\ x \in 1 .. BufferSize - 1 /\ BufferSize \in Nat
      /\ x - 1 \in Index /\ keyboard_buffer \in [Index -> Cells]
  BY <1>1, LineFacts, Constants DEF Index
<1>3. keyboard_buffer' \in [Index -> Cells]
  BY <1>1, <1>2, Constants
<1>4. Line # <<>> =>
        /\ line \in Seq(Chars) /\ Len(line) = Len(Line) - 1
        /\ \A i \in 1 .. Len(Line) - 1 : line[i] = Line[i]
  <2> SUFFICES ASSUME Line # <<>>
               PROVE  /\ line \in Seq(Chars) /\ Len(line) = Len(Line) - 1
                      /\ \A i \in 1 .. Len(Line) - 1 : line[i] = Line[i]
    OBVIOUS
  <2>1. Len(Line) - 1 \in 0 .. Len(Line) /\ line = SubSeq(Line, 1, Len(Line) - 1)
    BY <1>2
  <2> QED BY <1>2, <2>1, LinePrefix
<1>5. line \in Seq(Chars)
  BY <1>2, <1>4
<1>6. ASSUME LineOf(current_terminal) = typed[current_terminal]
      PROVE  LineOf(current_terminal)' = line
  <2> DEFINE u == [i \in 1 .. x - 1 |-> keyboard_buffer'[i - 1]]
  <2>1. LineOf(current_terminal)' = u
    BY <1>1 DEF LineOf
  <2>2. Line = [i \in 1 .. x |-> keyboard_buffer[i - 1]]
    BY <1>1, <1>6, LineFacts DEF Line
  <2>3. Len(Line) = x /\ (\A i \in 1 .. x : Line[i] = keyboard_buffer[i - 1])
        /\ Line # <<>>
    <3> HIDE DEF x
    <3>1. x \in Nat /\ x # 0
      BY <1>2
    <3>2. Len(Line) = x
      BY <2>2, <3>1
    <3> QED BY <1>2, <2>2, <3>1, <3>2
  <2>4. Len(line) = x - 1 /\ \A i \in 1 .. x - 1 : line[i] = Line[i]
    BY <1>4, <2>3
  <2>5. \A i \in 1 .. x - 1 : u[i] = line[i]
    <3> SUFFICES ASSUME NEW i \in 1 .. x - 1 PROVE u[i] = line[i]
      OBVIOUS
    <3>1. i \in 1 .. x /\ i - 1 \in Index /\ i - 1 # x - 1
      BY <1>2 DEF Index
    <3>2. keyboard_buffer'[i - 1] = keyboard_buffer[i - 1]
      BY <1>1, <1>2, <3>1
    <3> QED BY <2>3, <2>4, <3>1, <3>2
  <2> HIDE DEF line
  <2>6. line = [i \in 1 .. x - 1 |-> line[i]]
    BY <1>2, <1>5, <2>4
  <2>7. u = line
    BY <2>5, <2>6
  <2> QED BY <2>1, <2>7
<1>7. enter_pressed' \in BOOLEAN /\ (enter_pressed' => enter_pressed)
  BY <1>1 DEF LineTypeOK
<1>8. ASSUME ~Racing, RestOf(current_terminal),
             current_terminal \in filled' <=> current_terminal \in filled \/ Full'
      PROVE  RestOf(current_terminal)'
  <2> SUFFICES ASSUME NEW i \in Index, i >= x - 1
               PROVE  keyboard_buffer'[i] =
                        IF i = BufferSize - 1 /\ current_terminal \in filled'
                          THEN LineFeed ELSE Null
    <3>1. IdxOf(current_terminal)' = BufferSize - 1 => current_terminal \in filled'
      BY <1>1, <1>8 DEF Full, IdxOf
    <3> QED BY <1>1, <1>2, <3>1 DEF RestOf, Behind, BufferOf, IdxOf, Index
  <2>1. ~Full' /\ x - 1 # BufferSize - 1 /\ i \in Nat
    BY <1>1, <1>2 DEF Full, Index
  <2>2. CASE i = x - 1
    BY <1>1, <1>2, <2>1, <2>2
  <2>3. CASE i # x - 1
    <3>1. keyboard_buffer'[i] = keyboard_buffer[i]
      BY <1>1, <1>2, <2>3
    <3>2. Behind(current_terminal, i)
      BY <1>2, <1>8, <2>1, <2>3 DEF Behind, IdxOf
    <3> QED BY <1>8, <2>1, <3>1, <3>2 DEF RestOf, BufferOf
  <2> QED BY <2>2, <2>3
<1> HIDE DEF line
<1> QED BY <1>1, <1>2, <1>3, <1>5, <1>6, <1>7, <1>8, EditInv

(* Lines move with their terminals.                                        *)
LEMMA KeyTerminalInv ==
  ASSUME LineInv, NEW t \in Terminals, KeyTerminal(t)
  PROVE  LineInv'
<1> DEFINE here == [buffer |-> keyboard_buffer, idx |-> end_buf_idx]
           now == [saved EXCEPT ![current_terminal] = here]
           Copies == [buffer : [Index -> Cells], idx : Index]
<1>1. /\ LineTypeOK /\ current_terminal \in Terminals /\ current_terminal' = t
      /\ KeyPress(Line) /\ enter_pressed' = enter_pressed
      /\ terminal_used' = [terminal_used EXCEPT ![t] = TRUE]
      /\ procs' = procs \/ procs' = Append(procs, UserProc)
      /\ saved' = [now EXCEPT ![t] = NoLine]
      /\ keyboard_buffer' = now[t].buffer /\ end_buf_idx' = now[t].idx
  BY DEF LineInv, LineTypeOK, KeyTerminal, SwitchBuffers
<1>2. /\ here \in Copies /\ NoLine \in Copies /\ saved \in [Terminals -> Copies]
      /\ Line \in Seq(Chars)
  BY <1>1, Constants, LineFacts DEF LineTypeOK, NoLine
<1>3. now \in [Terminals -> Copies] /\ saved' \in [Terminals -> Copies]
  BY <1>1, <1>2
<1>4. /\ Racing => t \in raced'
      /\ ~Racing => raced' = raced
      /\ raced \subseteq raced' /\ raced' \subseteq Terminals /\ races' \in Nat
      /\ typed' \in [Terminals -> Seq(Chars)]
      /\ current_terminal \in Terminals
      /\ Racing => current_terminal \in raced'
      /\ \A u \in Terminals \ raced' :
           typed'[u] = IF u = current_terminal THEN Line ELSE typed[u]
      /\ filled' \subseteq Terminals
      /\ \A u \in Terminals \ raced' :
           u \in filled' <=> u \in filled \/ (u = t /\ Full')
  BY <1>1, <1>2, KeyPressFacts
<1>5. procs' \in Seq(Proc) /\ procs' # <<>> /\ (Reader' = Reader \/ Reader' = UserProc)
  <2>1. procs \in Seq(Proc) /\ Len(procs) \in Nat \ {0} /\ UserProc \in Proc
    BY <1>1, ReaderFacts, Constants DEF UserProc, Proc, Pcs
  <2>2. CASE procs' = procs
    BY <2>1, <2>2 DEF Reader
  <2>3. CASE procs' = Append(procs, UserProc)
    <3>1. /\ procs' \in Seq(Proc) /\ Len(procs') = Len(procs) + 1
          /\ procs'[Len(procs) + 1] = UserProc
      BY <2>1, <2>3
    <3> QED BY <2>1, <3>1 DEF Reader
  <2> QED BY <1>1, <2>2, <2>3
<1>6. LineTypeOK'
  BY <1>1, <1>2, <1>3, <1>4, <1>5 DEF LineTypeOK, Proc
<1>7. \A u \in Terminals : LineOf(u)' = LineOf(u)
  <2> SUFFICES ASSUME NEW u \in Terminals PROVE LineOf(u)' = LineOf(u)
    OBVIOUS
  <2>1. LineOf(u) = [i \in 1 .. now[u].idx |-> now[u].buffer[i - 1]]
    BY <1>1, <1>2 DEF LineOf
  <2> HIDE DEF now
  <2>2. u # t => saved'[u] = now[u]
    BY <1>1, <1>3
  <2>3. LineOf(u)' = [i \in 1 .. now[u].idx |-> now[u].buffer[i - 1]]
    BY <1>1, <2>2 DEF LineOf
  <2> QED BY <2>1, <2>3
<1>8. LineKept'
  <2> SUFFICES ASSUME NEW u \in Terminals, u \notin raced' PROVE LineOf(u)' = typed'[u]
    BY DEF LineKept
  <2>1. ~Taking(u) /\ u \notin raced
    BY <1>4 DEF Taking, Racing
  <2>2. LineOf(u) = typed[u]
    BY <2>1 DEF LineInv, LineKept
  <2> QED BY <1>4, <1>7, <2>2 DEF Line
<1>r. RestKept'
  <2> SUFFICES ASSUME NEW u \in Terminals, u \notin raced' PROVE RestOf(u)'
    BY DEF RestKept
  <2>1. RestOf(u) /\ (u = current_terminal => ~Racing) /\ (u = t => ~Racing)
    BY <1>4 DEF LineInv, RestKept, Taking, Racing
  <2>2. BufferOf(u)' = BufferOf(u) /\ IdxOf(u)' = IdxOf(u)
    <3>1. BufferOf(u) = now[u].buffer /\ IdxOf(u) = now[u].idx
      BY <1>1, <1>2 DEF BufferOf, IdxOf
    <3> HIDE DEF now
    <3>2. u # t => saved'[u] = now[u]
      BY <1>1, <1>3
    <3> QED BY <1>1, <3>1, <3>2 DEF BufferOf, IdxOf
  <2>3. \A i \in Index : Behind(u, i)' => Behind(u, i)
    BY <2>1, <2>2 DEF Behind
  <2>4. u \in filled => u \in filled'
    BY <1>4
  <2>5. ASSUME u = t, Full', u \notin filled PROVE FALSE
    <3>1. IdxOf(u) = BufferSize - 1
      BY <1>1, <2>2, <2>5 DEF IdxOf, Full
    <3> QED BY <2>1, <2>5, <3>1 DEF RestOf
  <2> QED BY <1>4, <2>1, <2>2, <2>3, <2>4, <2>5 DEF RestOf
<1>9. LineDelivered' /\ Window'
  BY <1>1, <1>4, <1>5 DEF LineDelivered, Window, Racing, UserProc
<1> QED BY <1>6, <1>8, <1>r, <1>9 DEF LineInv

-----------------------------------------------------------------------------
LEMMA LineInitInv == LineInit => LineInv
<1> SUFFICES ASSUME LineInit PROVE LineInv
  OBVIOUS
<1>1. UserProc \in Proc /\ UserProc.pc = "user"
  BY Constants DEF UserProc, Proc, Pcs
<1>2. procs \in Seq(Proc) /\ procs # <<>> /\ Reader = UserProc
  BY <1>1 DEF LineInit, Reader
<1>3. LineTypeOK
  <2>1. NoLine \in [buffer : [Index -> Cells], idx : Index] /\ <<>> \in Seq(Chars)
    BY Constants DEF NoLine
  <2> QED BY <1>2, <2>1, Constants, LineAssumption, TerminalAssumption DEF LineInit, LineTypeOK, Proc
<1>4. LineKept
  BY DEF LineInit, LineKept, LineOf, NoLine
<1>5. LineDelivered /\ Window
  BY <1>1, <1>2 DEF LineInit, LineDelivered, Window
<1>6. RestKept
  <2>1. BufferSize - 1 # 0
    BY Constants
  <2> QED BY <2>1 DEF LineInit, RestKept, RestOf, IdxOf, BufferOf, NoLine, Empty
<1> QED BY <1>3, <1>4, <1>5, <1>6 DEF LineInv

LEMMA LineStutterInv ==
  ASSUME LineInv, UNCHANGED lvars
  PROVE  LineInv'
<1> USE DEF lvars
<1>1. Reader' = Reader /\ \A t : LineOf(t)' = LineOf(t)
  BY DEF Reader, LineOf
<1>2. LineTypeOK'
  BY DEF LineInv, LineTypeOK
<1>3. LineKept' /\ LineDelivered' /\ Window'
  BY <1>1 DEF LineInv, LineKept, Taking, LineDelivered, StoredLine, EndedLine,
              Window, LineFed
<1>4. RestKept'
  BY <1>1, SameRest DEF LineInv, RestKept, Taking, Racing
<1> QED BY <1>2, <1>3, <1>4 DEF LineInv

LEMMA LineInvAlways == LineSpec => []LineInv
<1>1. LineInv /\ [LineNext]_lvars => LineInv'
  BY ReadStartInv, ReadWaitInv, ReadAckInv, ReadCopyInv, ReadClearInv, ReadResetInv,
     HaltInv, KeyCharInv, KeyEnterInv, KeyBackspaceInv, KeyTerminalInv, LineStutterInv
     DEF LineNext
<1> QED BY <1>1, LineInitInv, PTL DEF LineSpec

(* Whatever keys come at whatever statement of terminal_read, no index     *)
(* leaves keyboard_buffer, for any buffer size, terminals and reads.       *)
THEOREM BufferTypes == LineSpec => []LineTypeOK
<1>1. LineInv => LineTypeOK
  BY DEF LineInv
<1> QED BY <1>1, LineInvAlways, PTL

(* Every terminal keeps its line until it is read, through all edits and   *)
(* switches that do not fall into the window of a read.                    *)
THEOREM LinesKept == LineSpec => []LineKept
<1>1. LineInv => LineKept
  BY DEF LineInv
<1> QED BY <1>1, LineInvAlways, PTL

(* A read that no key disturbs returns the line and its line feed, or as   *)
(* much of it as was asked for, and nothing more, but for the two cases    *)
(* of a full buffer: the memory behind it, for a line of BufferSize - 1    *)
(* characters, and a second line feed, for one that had as many.           *)
THEOREM LinesDelivered == LineSpec => []LineDelivered
<1>1. LineInv => LineDelivered
  BY DEF LineInv
<1> QED BY <1>1, LineInvAlways, PTL

=============================================================================
