-------------------------------- MODULE Blink --------------------------------
(***************************************************************************)
(* The blink library of the fish program: a linked list of the structures  *)
(* of blink_array, which mp1_malloc and mp1_free manage.                   *)
(*                                                                         *)
(* There is no flag for a free structure: one is free when its location is *)
(* 0.  Structures are numbered from 1, and 0 is the pointer NULL.          *)
(***************************************************************************)
EXTENDS Integers, Sequences

CONSTANTS
  PoolSize,    \* length of blink_array (80*25 in the code)
  NumCells,    \* cells of the screen (80*25)
  Locations,   \* locations that programs use
  Templates    \* on_char, off_char, on_length, off_length that they ask for

(* No program uses location 0: fish starts at column 40.  A length above   *)
(* 2^15 would be over at the first tick, as the countdown is compared as a *)
(* signed number; the lengths of fish are 6 to 15.                         *)
ASSUME BlinkAssumption ==
  /\ PoolSize \in Nat \ {0} /\ NumCells \in Nat \ {0}
  /\ Locations \subseteq 1 .. 2^16 - 1
  /\ \A t \in Templates : {t.on_length, t.off_length} \subseteq 0 .. 2^15

VARIABLES
  blink_array,
  mp1_list_head,
  screen,         \* the characters in the video memory that vidmap gave
  order,          \* history: the structures in use, the newest first
  synced          \* history: those whose timing was copied since they blinked

bvars == <<blink_array, mp1_list_head, screen, order, synced>>

Ptrs == 1 .. PoolSize
NULL == 0

ZeroStruct ==
  [location |-> 0, on_char |-> "NUL", off_char |-> "NUL", on_length |-> 0,
   off_length |-> 0, countdown |-> 0, status |-> 0, next |-> NULL]

BlinkInit ==
  /\ blink_array = [p \in Ptrs |-> ZeroStruct]
  /\ mp1_list_head = NULL
  /\ screen = [c \in 0 .. NumCells - 1 |-> " "]
  /\ order = <<>>
  /\ synced = {}

-----------------------------------------------------------------------------
(* What n steps from mp1_list_head lead to.                                *)
Walk[n \in 0 .. PoolSize] ==
  IF n = 0 THEN mp1_list_head
           ELSE LET p == Walk[n - 1]
                IN  IF p = NULL THEN NULL ELSE blink_array[p].next

(* The structures linked from the head; one more than there are shows that *)
(* the links make a cycle.                                                 *)
List == [i \in {i \in 1 .. PoolSize + 1 : Walk[i - 1] # NULL} |-> Walk[i - 1]]
Members(list) == {list[i] : i \in 1 .. Len(list)}

(* mp1_find_helper: the first structure of the list with this location.    *)
Find(loc) ==
  LET list == List
      hits == {i \in 1 .. Len(list) : blink_array[list[i]].location = loc}
  IN  IF hits = {} THEN NULL
      ELSE list[CHOOSE i \in hits : \A j \in hits : i <= j]

Malloc ==
  LET free == {p \in Ptrs : blink_array[p].location = 0}
  IN  IF free = {} THEN NULL ELSE CHOOSE p \in free : \A q \in free : p <= q

-----------------------------------------------------------------------------
(* A location that is too large, or no memory: the call returns -1.        *)
Add(t, loc) ==
  LET p == Malloc IN
  /\ loc < NumCells
  /\ p # NULL
  /\ blink_array' = [blink_array EXCEPT ![p] =
       [location |-> loc, on_char |-> t.on_char, off_char |-> t.off_char,
        on_length |-> t.on_length, off_length |-> t.off_length,
        countdown |-> t.on_length, status |-> 1, next |-> mp1_list_head]]
  /\ mp1_list_head' = p
  /\ screen' = [screen EXCEPT ![loc] = t.on_char]
  /\ order' = <<p>> \o order
  /\ UNCHANGED synced

(* mutant: always unlinks at the head                *)
UnlinkHead(p) ==
  /\ mp1_list_head' = blink_array[p].next
  /\ blink_array' = [blink_array EXCEPT ![p] = ZeroStruct]

(* The pointer to p, in mp1_list_head or in a structure, becomes what p    *)
(* points to; mp1_free clears p.                                           *)
Unlink(p) ==
  LET prev == {q \in Members(List) : blink_array[q].next = p} IN
  /\ mp1_list_head' = IF mp1_list_head = p THEN blink_array[p].next
                                           ELSE mp1_list_head
  /\ blink_array' = [q \in Ptrs |->
       IF q = p THEN ZeroStruct
       ELSE IF q \in prev /\ mp1_list_head # p
         THEN [blink_array[q] EXCEPT !.next = blink_array[p].next]
         ELSE blink_array[q]]

(* A list without its element p.                                           *)
Without(list, p) ==
  [i \in 1 .. Len(list) - 1 |->
     IF \E j \in 1 .. i : list[j] = p THEN list[i + 1] ELSE list[i]]

BlinkRemove(loc) ==
  LET p == Find(loc) IN
  /\ p # NULL
  /\ Unlink(p)
  /\ order' = Without(order, p)
  /\ synced' = synced \ {p}
  /\ UNCHANGED screen

(* mutant: the countdown is not copied               *)
SyncNoCountdown(a, b) ==
  LET p == Find(a)
      q == Find(b)
      src == blink_array[p]
  IN
  /\ p # NULL /\ q # NULL
  /\ blink_array' = [blink_array EXCEPT
       ![q].on_length = src.on_length,
       ![q].off_length = src.off_length,
       ![q].status = src.status]
  /\ screen' = [screen EXCEPT ![b] = blink_array[q].off_char]
  /\ synced' = synced \cup {q}
  /\ UNCHANGED <<mp1_list_head, order>>

(* The cmovl after testb is never taken, so off_char is displayed whatever *)
(* the status is.                                                          *)
Sync(a, b) ==
  LET p == Find(a)
      q == Find(b)
      src == blink_array[p]
  IN
  /\ p # NULL /\ q # NULL
  /\ blink_array' = [blink_array EXCEPT
       ![q].on_length = src.on_length,
       ![q].off_length = src.off_length,
       ![q].countdown = src.countdown,
       ![q].status = src.status]
  /\ screen' = [screen EXCEPT ![b] = blink_array[q].off_char]
  /\ synced' = synced \cup {q}
  /\ UNCHANGED <<mp1_list_head, order>>

(* decw and a signed comparison of the 16 bits.                            *)
Dec(c) == (c + 2^16 - 1) % 2^16
Elapsed(c) == Dec(c) = 0 \/ Dec(c) >= 2^15

(* mutant: the countdown stops at 1                  *)
AfterTickStops(s) ==
  IF s.countdown = 1 THEN s ELSE [s EXCEPT !.countdown = Dec(@)]

AfterTick(s) ==
  IF Elapsed(s.countdown)
    THEN [s EXCEPT !.status = 1 - @,
                   !.countdown = IF s.status = 1 THEN s.off_length
                                                 ELSE s.on_length]
    ELSE [s EXCEPT !.countdown = Dec(@)]

(* What mp1_poke writes for a structure whose countdown has elapsed.       *)
Poke(s) == IF s.status = 1 THEN s.off_char ELSE s.on_char

(* mp1_rtc_tasklet; structures later in the list write later.              *)
Tasklet ==
  \E list \in {List} :
  /\ blink_array' = [p \in Ptrs |->
       IF p \in Members(list) THEN AfterTick(blink_array[p])
                              ELSE blink_array[p]]
  /\ screen' = [c \in 0 .. NumCells - 1 |->
       LET due == {i \in 1 .. Len(list) :
                     /\ blink_array[list[i]].location = c
                     /\ Elapsed(blink_array[list[i]].countdown)}
       IN  IF due = {} THEN screen[c]
           ELSE Poke(blink_array[list[CHOOSE i \in due :
                                        \A j \in due : j <= i]])]
  /\ synced' = {p \in synced : ~Elapsed(blink_array[p].countdown)}
  /\ UNCHANGED <<mp1_list_head, order>>

BlinkNext == \/ \E t \in Templates, loc \in Locations : Add(t, loc)
             \/ \E loc \in Locations : BlinkRemove(loc)
             \/ \E a, b \in Locations : Sync(a, b)
             \/ Tasklet

(* fish calls the tasklet after every read of the clock.                   *)
BlinkSpec == BlinkInit /\ [][BlinkNext]_bvars /\ WF_bvars(Tasklet)

-----------------------------------------------------------------------------
(* The structures linked from the head are those in use, the newest first, *)
(* and they are the ones that mp1_malloc does not give away: removing in   *)
(* any order and using structures again loses none, makes no cycle, and    *)
(* leaves no free structure in the list.                                   *)
ListSound ==
  /\ List = order
  /\ \A p \in Ptrs : blink_array[p].location # 0
                      <=> \E i \in 1 .. Len(order) : order[i] = p
  /\ \A i, j \in 1 .. Len(order) : order[i] = order[j] => i = j

Strip(s) == [location |-> s.location, on_char |-> s.on_char,
             off_char |-> s.off_char, on_length |-> s.on_length,
             off_length |-> s.off_length, countdown |-> s.countdown,
             status |-> s.status]
L == INSTANCE BlinkList
       WITH items <- [i \in 1 .. Len(order) |-> Strip(blink_array[order[i]])]

(* The linked list implements the list of blinking characters: what is in  *)
(* it, in which order, what becomes of it and what the screen shows.       *)
ListSpec == L!BSpec

(* A character blinks at the end of its time, unless it is removed or gets *)
(* the timing of another one: it never has one status for ever.            *)
KeepsBlinking ==
  \A p \in Ptrs, s \in 0 .. 1 :
    []<>(\/ blink_array[p].location = 0
         \/ blink_array[p].status # s
         \/ p \in synced)

=============================================================================
