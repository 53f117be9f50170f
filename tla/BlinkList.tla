------------------------------ MODULE BlinkList ------------------------------
(***************************************************************************)
(* What the blink library of the fish program promises: a list of blinking *)
(* characters, the newest first, of bounded length.  A character is added  *)
(* in front, the newest one at a location is removed, the timing of one is *)
(* copied to another one, and at every tick each counts down.              *)
(***************************************************************************)
EXTENDS Integers, SequencesExt

CONSTANTS
  PoolSize,    \* the largest number of blinking characters
  NumCells,    \* cells of the screen
  Locations,   \* where programs put blinking characters
  Templates    \* the on_char, off_char, on_length, off_length they ask for

VARIABLES items, screen

bvars == <<items, screen>>

Item(t, loc) ==
  [location |-> loc, on_char |-> t.on_char, off_char |-> t.off_char,
   on_length |-> t.on_length, off_length |-> t.off_length,
   countdown |-> t.on_length, status |-> 1]

First(loc) ==
  LET its == items
      hits == {i \in 1 .. Len(its) : its[i].location = loc}
  IN  IF hits = {} THEN 0 ELSE CHOOSE i \in hits : \A j \in hits : i <= j

BInit == items = <<>> /\ screen = [c \in 0 .. NumCells - 1 |-> " "]

BAdd(t, loc) ==
  /\ loc < NumCells
  /\ Len(items) < PoolSize
  /\ items' = <<Item(t, loc)>> \o items
  /\ screen' = [screen EXCEPT ![loc] = t.on_char]

BRemove(loc) ==
  /\ First(loc) # 0
  /\ items' = RemoveAt(items, First(loc))
  /\ UNCHANGED screen

BSync(a, b) ==
  LET i == First(a)
      k == First(b)
  IN
  /\ i # 0 /\ k # 0
  /\ LET src == items[i]
         dst == items[k]
     IN  /\ items' = [items EXCEPT ![k] =
              [dst EXCEPT !.on_length = src.on_length,
                          !.off_length = src.off_length,
                          !.countdown = src.countdown,
                          !.status = src.status]]
         /\ screen' = [screen EXCEPT ![b] = dst.off_char]

(* A countdown of more than one goes on; else the other character appears. *)
Due(it) == it.countdown <= 1
Shown(it) == IF it.status = 1 THEN it.on_char ELSE it.off_char
Ticked(it) ==
  IF ~Due(it) THEN [it EXCEPT !.countdown = @ - 1]
  ELSE [it EXCEPT !.status = 1 - @,
                  !.countdown = IF it.status = 1 THEN it.off_length
                                                 ELSE it.on_length]

(* Of several characters at one location, the oldest that is due stays.    *)
BTick ==
  LET its == items IN
  /\ items' = [i \in 1 .. Len(its) |-> Ticked(its[i])]
  /\ screen' = [c \in 0 .. NumCells - 1 |->
       LET due == {i \in 1 .. Len(its) :
                      its[i].location = c /\ Due(its[i])}
       IN  IF due = {} THEN screen[c]
           ELSE Shown(Ticked(its[CHOOSE i \in due : \A j \in due : j <= i]))]

BNext == \/ \E t \in Templates, loc \in Locations : BAdd(t, loc)
         \/ \E loc \in Locations : BRemove(loc)
         \/ \E a, b \in Locations : BSync(a, b)
         \/ BTick

BSpec == BInit /\ [][BNext]_bvars

=============================================================================
