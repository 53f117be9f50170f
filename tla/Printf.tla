------------------------------- MODULE Printf -------------------------------
(***************************************************************************)
(* printf of the kernel, with itoa, strrev and puts: a walk through the    *)
(* format, with a pointer to the argument that is next.  What putc does    *)
(* with a character is in Screen; here printed collects them.              *)
(*                                                                         *)
(* Formats are put together from items, each a character to print or a     *)
(* conversion: no format in the kernel ends within a conversion (printf    *)
(* would go on behind its end).                                            *)
(***************************************************************************)
EXTENDS Integers, SequencesExt

CONSTANTS
  WordBits,   \* bits of an argument (32 in the code)
  StringAt,   \* address -> the string there
  Items,      \* items of formats
  MaxItems,   \* bound: items of a format
  Arguments   \* what is on the stack behind the format

Words == 0 .. 2^WordBits - 1
HexDigits == WordBits \div 4        \* 8 in the code

ASSUME PrintfAssumption ==
  /\ WordBits % 4 = 0
  /\ \A args \in Arguments : Len(args) >= MaxItems

VARIABLES
  items,    \* history: what the format was put together from
  args,     \* the arguments
  buf,      \* how far the format was read
  esp,      \* the argument that is next
  printed,  \* the characters written so far
  marks     \* history: how many they were after each turn of the loop

prvars == <<items, args, buf, esp, printed, marks>>

(* The characters of an item; %, #, x, u, d, c and s by their codes.       *)
ItemText ==
  [letter |-> <<104>>, percent |-> <<37, 37>>, hex |-> <<37, 120>>,
   padded |-> <<37, 35, 120>>, unsigned |-> <<37, 117>>,
   signed |-> <<37, 100>>, char |-> <<37, 99>>, string |-> <<37, 115>>]

format == FlattenSeq([i \in 1 .. Len(items) |-> ItemText[items[i]]])

PrintfInit ==
  /\ items \in UNION {[1 .. n -> Items] : n \in 0 .. MaxItems}
  /\ args \in Arguments
  /\ buf = 0 /\ esp = 1
  /\ printed = <<>> /\ marks = <<>>

-----------------------------------------------------------------------------
Lookup(d) == IF d < 10 THEN 48 + d ELSE 55 + d

(* The digits of a value, the lowest first.                                *)
LowFirst[v \in Words, radix \in {10, 16}] ==
  IF v = 0 THEN <<>>
           ELSE <<Lookup(v % radix)>> \o LowFirst[v \div radix, radix]

(* mutant: not reversed                              *)
itoaUnreversed(v, radix) == IF v = 0 THEN <<48>> ELSE LowFirst[v, radix]

itoa(v, radix) == IF v = 0 THEN <<48>> ELSE Reverse(LowFirst[v, radix])

(* conv_buf: itoa writes from HexDigits on, with a NUL at the end, then    *)
(* zeroes are written from the index that is the number of digits on.      *)
(* What is not written is no character.                                    *)
ConvBuf(digits) ==
  [i \in 0 .. 2 * HexDigits |->
     CASE i >= HexDigits /\ i < HexDigits + Len(digits) -> digits[i - HexDigits + 1]
       [] i = HexDigits + Len(digits) -> 0
       [] i >= Len(digits) /\ i < HexDigits -> 48
       [] OTHER -> -1]

(* puts: from an index up to the first NUL.                                *)
puts(b, index) ==
  LET z == CHOOSE z \in index .. 2 * HexDigits :
             b[z] = 0 /\ \A i \in index .. z - 1 : b[i] # 0
  IN  [i \in 1 .. z - index |-> b[index + i - 1]]

(* mutant: the zeroes start one further              *)
PaddedOneShort(v) ==
  LET digits == itoa(v, 16) IN puts(ConvBuf(digits), Len(digits) + 1)

(* The output starts where the zeroes do.                                  *)
Padded(v) ==
  LET digits == itoa(v, 16) IN puts(ConvBuf(digits), Len(digits))

(* The sign is that of the word; negation wraps.                           *)
Signed(v) ==
  IF v >= 2^(WordBits - 1)
    THEN <<45>> \o itoa((2^WordBits - v) % 2^WordBits, 10)
    ELSE itoa(v, 10)

(* The conversions that use the argument that is next.                     *)
Conversion(c, alternate, v) ==
  CASE c = 120 -> IF alternate THEN Padded(v) ELSE itoa(v, 16)
    [] c = 117 -> itoa(v, 10)
    [] c = 100 -> Signed(v)
    [] c = 99 -> <<v % 256>>
    [] c = 115 -> StringAt[v]

(* One turn of the loop: a character of the format, or a whole conversion. *)
PrintfStep ==
  LET alternate == format[buf + 2] = 35
      c == IF alternate THEN format[buf + 3] ELSE format[buf + 2]
  IN
  /\ buf < Len(format)
  /\ IF format[buf + 1] # 37
       THEN printed' = Append(printed, format[buf + 1]) /\ buf' = buf + 1
            /\ UNCHANGED esp
     ELSE IF c = 37
       THEN printed' = Append(printed, 37) /\ buf' = buf + 2 /\ UNCHANGED esp
       ELSE /\ printed' = printed \o Conversion(c, alternate, args[esp])
            /\ buf' = buf + (IF alternate THEN 3 ELSE 2)
            /\ esp' = esp + 1
  /\ marks' = Append(marks, Len(printed'))
  /\ UNCHANGED <<items, args>>

-----------------------------------------------------------------------------
(* What a number stands for, and the numerals: no zero in front.           *)
Digit(c) == IF c < 58 THEN c - 48 ELSE c - 55
Value(s, radix) == FoldLeft(LAMBDA sum, c : radix * sum + Digit(c), 0, s)
Codes(radix) == {Lookup(d) : d \in 0 .. radix - 1}

(* text is the numeral of v.                                               *)
Numeral(text, v, radix) ==
  /\ text # <<>>
  /\ \A i \in 1 .. Len(text) : text[i] \in Codes(radix)
  /\ Value(text, radix) = v
  /\ Len(text) > 1 => text[1] # 48

(* text is what an item asks for, with the argument v.                     *)
Shows(item, text, v) ==
  CASE item = "letter" -> text = <<104>>
    [] item = "percent" -> text = <<37>>
    [] item = "hex" -> Numeral(text, v, 16)
    [] item = "padded" -> /\ Len(text) = WordBits \div 4
                          /\ Value(text, 16) = v
    [] item = "unsigned" -> Numeral(text, v, 10)
    [] item = "signed" -> IF v < 2^(WordBits - 1) THEN Numeral(text, v, 10)
         ELSE Head(text) = 45 /\ Numeral(Tail(text), 2^WordBits - v, 10)
    [] item = "char" -> text = <<v % 256>>
    [] item = "string" -> text = StringAt[v]

(* The index of the argument of item i.                                    *)
ArgumentOf(i) ==
  Len(SelectSeq(SubSeq(items, 1, i), LAMBDA k : k \notin {"letter", "percent"}))

(* printf writes for every item what it asks for: the numeral of its own   *)
(* argument, padded where the format says so, for every value of a word,   *)
(* and nothing else; a % in a string is not read as a part of the format.  *)
PrintfExact ==
  buf = Len(format) =>
    /\ Len(marks) = Len(items)
    /\ \A i \in 1 .. Len(items) :
         Shows(items[i],
               SubSeq(printed, IF i = 1 THEN 1 ELSE marks[i - 1] + 1, marks[i]),
               args[IF ArgumentOf(i) = 0 THEN 1 ELSE ArgumentOf(i)])

=============================================================================
