--------------------------- MODULE ProgramsProofs ---------------------------
(***************************************************************************)
(* Proofs about the blink library of the fish program, for every length of *)
(* blink_array, every size of the screen and all templates, about command  *)
(* lines, for every directory and every length of names and lines, about   *)
(* add_frames, for all pictures, and about grep, for all texts and every   *)
(* size of the buffer.                                                     *)
(*                                                                         *)
(* Blink: the inductive invariant reads the links of the array.  order is  *)
(* the sequence of structures in use, the head points to its first one,    *)
(* each to the next and the last to NULL, and those structures are the     *)
(* ones with a location.  That the list which the code walks is order      *)
(* follows from it, and every operation is then one on order.              *)
(*                                                                         *)
(* Commands: Spells relates bytes in memory to the text that they hold.    *)
(* Names are found by what is spelled, the line, the buffer with the first *)
(* word and the argument in the PCB spell what the user means, and the     *)
(* inductive invariant keeps the argument of the program that runs.        *)
(*                                                                         *)
(* Frames: each byte of a picture is at a place, a row and a column, and   *)
(* later bytes are at later places.  The inductive invariant places the    *)
(* two file positions: each file is in the row, past its end or over, and  *)
(* what was added are the places before the current one.                   *)
(*                                                                         *)
(* Grep: the inductive invariant says which bytes of the file the buffer   *)
(* holds, that the line at line_start is one of the file, and that what    *)
(* was printed are the lines before it, each at the place that the number  *)
(* of lines before it gives, as long as no line feed of the stack was      *)
(* taken for one of the file.                                              *)
(***************************************************************************)
EXTENDS Blink, Commands, Frames, Grep, SequenceTheorems, FiniteSetTheorems,
        NaturalsInduction, WellFoundedInduction, TLAPS

CharSet == {t.on_char : t \in Templates} \cup {t.off_char : t \in Templates}
             \cup {"NUL"}

Periods == 0 .. 2^15
Status == 0 .. 1
Links == 0 .. PoolSize

Structs ==
  [location : Nat, on_char : CharSet, off_char : CharSet,
   on_length : Periods, off_length : Periods, countdown : Periods,
   status : Status, next : Links]

InUse(p) == \E i \in 1 .. Len(order) : order[i] = p

(* What the structure at position i of a list l points to.                 *)
After(l, i) == IF i = Len(l) THEN NULL ELSE l[i + 1]

Head1(l) == IF Len(l) = 0 THEN NULL ELSE l[1]

Distinct(l) == \A i, j \in 1 .. Len(l) : l[i] = l[j] => i = j

Linked ==
  /\ order \in Seq(Ptrs)
  /\ Distinct(order)
  /\ mp1_list_head = Head1(order)
  /\ \A i \in 1 .. Len(order) : blink_array[order[i]].next = After(order, i)

BlinkInv ==
  /\ blink_array \in [Ptrs -> Structs]
  /\ Linked
  /\ \A p \in Ptrs : blink_array[p].location # 0 <=> InUse(p)

-----------------------------------------------------------------------------
(* A set of natural numbers that is not empty has a least element.         *)
LEMMA LeastNat ==
  ASSUME NEW T \in SUBSET Nat, T # {}
  PROVE  \E n \in T : \A m \in T : n <= m
<1> DEFINE R == OpToRel(<, Nat)
<1>1. IsWellFoundedOn(R, Nat)
  BY NatLessThanWellFounded
<1>2. \A x, y \in Nat : x < y => <<x, y>> \in R
  BY DEF OpToRel
<1> HIDE DEF R
<1>3. PICK x \in T : \A y \in T : ~ (<<y, x>> \in R)
  BY <1>1, WFMin
<1>4. \A y \in T : ~ (y < x) /\ x \in Nat /\ y \in Nat
  BY <1>2, <1>3
<1> QED BY <1>3, <1>4

LEMMA Sizes == PoolSize \in Nat /\ NumCells \in Nat /\ 0 \notin Locations
<1>1. PoolSize \in Nat /\ NumCells \in Nat /\ Locations \subseteq 1 .. 2^16 - 1
  BY Zenon, BlinkAssumption
<1>2. \A n \in 1 .. 2^16 - 1 : n # 0
  OBVIOUS
<1> QED BY <1>1, <1>2, Zenon

(* The places of a list.                                                   *)
LEMMA ListTypes ==
  ASSUME NEW l \in Seq(Ptrs)
  PROVE  /\ Len(l) \in Nat
         /\ l = [i \in 1 .. Len(l) |-> l[i]]
         /\ l \in [1 .. Len(l) -> Ptrs]
         /\ \A i \in 1 .. Len(l) : l[i] \in Ptrs /\ l[i] # NULL
<1>1. Len(l) \in Nat /\ \A i \in 1 .. Len(l) : l[i] \in Ptrs
  OBVIOUS
<1>2. l = [i \in 1 .. Len(l) |-> l[i]]
  OBVIOUS
<1>3. \A p \in Ptrs : p # NULL
  BY Sizes DEF Ptrs, NULL
<1>4. l \in [1 .. Len(l) -> Ptrs]
  BY <1>1, <1>2
<1> QED BY <1>1, <1>2, <1>3, <1>4

(* Different structures: a list of them is not longer than the array, and  *)
(* is shorter when one is missing.                                         *)
LEMMA ListFits ==
  ASSUME NEW l \in Seq(Ptrs), Distinct(l)
  PROVE  /\ Len(l) <= PoolSize
         /\ \A p \in Ptrs : (\A i \in 1 .. Len(l) : l[i] # p) => Len(l) < PoolSize
<1>1. Len(l) \in Nat /\ l \in [1 .. Len(l) -> Ptrs] /\ PoolSize \in Nat
  BY ListTypes, Sizes
<1>2. IsFiniteSet(1 .. Len(l)) /\ Cardinality(1 .. Len(l)) = Len(l)
  BY <1>1, FS_Interval
<1>3. IsFiniteSet(Ptrs) /\ Cardinality(Ptrs) = PoolSize
  BY <1>1, FS_Interval DEF Ptrs
<1>4. l \in Injection(1 .. Len(l), Ptrs)
  BY <1>1 DEF Injection, Distinct, IsInjective
<1>5. /\ Len(l) <= PoolSize
      /\ Len(l) = PoolSize => l \in Surjection(1 .. Len(l), Ptrs)
  BY <1>2, <1>3, <1>4, FS_Injection
<1>6. ASSUME NEW p \in Ptrs, \A i \in 1 .. Len(l) : l[i] # p
      PROVE  Len(l) < PoolSize
  <2>1. l \notin Surjection(1 .. Len(l), Ptrs)
    BY <1>6 DEF Surjection
  <2>2. Len(l) # PoolSize
    BY <1>5, <2>1, Zenon
  <2>3. Len(l) <= PoolSize
    BY <1>5, Zenon
  <2>4. \A a, b \in Nat : a <= b /\ a # b => a < b
    OBVIOUS
  <2> QED BY <1>1, <2>2, <2>3, <2>4, Zenon
<1> QED BY <1>5, <1>6, Zenon

-----------------------------------------------------------------------------
(* Walking the links.                                                      *)

Walks(n, f) ==
  f = [k \in 0 .. n |->
         IF k = 0 THEN mp1_list_head
                  ELSE LET p == f[k - 1]
                       IN  IF p = NULL THEN NULL ELSE blink_array[p].next]

(* The walk of order is one.                                               *)
LEMMA WalkExists ==
  ASSUME BlinkInv
  PROVE  Walks(PoolSize, [k \in 0 .. PoolSize |->
                            IF k < Len(order) THEN order[k + 1] ELSE NULL])
<1> DEFINE f == [k \in 0 .. PoolSize |->
                   IF k < Len(order) THEN order[k + 1] ELSE NULL]
<1> DEFINE step(k) == IF k = 0 THEN mp1_list_head
                      ELSE IF f[k - 1] = NULL THEN NULL
                      ELSE blink_array[f[k - 1]].next
<1>1. PoolSize \in Nat /\ Len(order) \in Nat
  BY Sizes, ListTypes DEF BlinkInv, Linked
<1>2. ASSUME NEW k \in 0 .. PoolSize
      PROVE  f[k] = step(k)
  <2>1. CASE k = 0
    BY <1>1, <2>1 DEF BlinkInv, Linked, Head1
  <2>2. CASE k # 0
    <3>1. k \in Nat /\ k - 1 \in 0 .. PoolSize
      BY <1>1, <2>2
    <3>2. CASE k - 1 < Len(order)
      <4>1. k \in 1 .. Len(order)
        BY <1>1, <3>1, <3>2, <2>2
      <4>2. f[k - 1] = order[k]
        BY <3>1, <3>2
      <4>3. order[k] \in Ptrs /\ order[k] # NULL
        BY <4>1, ListTypes DEF BlinkInv, Linked
      <4>4. step(k) = blink_array[order[k]].next
        BY <4>2, <4>3, <2>2
      <4>5. step(k) = After(order, k)
        BY <4>1, <4>4 DEF BlinkInv, Linked
      <4>6. f[k] = After(order, k)
        <5>1. CASE k = Len(order)
          BY <5>1, <1>1 DEF After
        <5>2. CASE k # Len(order)
          <6>1. k < Len(order)
            BY <4>1, <5>2, <1>1
          <6> QED BY <6>1, <5>2 DEF After
        <5> QED BY <5>1, <5>2
      <4> QED BY <4>5, <4>6
    <3>3. CASE ~ (k - 1 < Len(order))
      <4>1. f[k - 1] = NULL
        BY <3>1, <3>3
      <4>2. ~ (k < Len(order))
        BY <3>1, <3>3, <1>1
      <4> QED BY <4>1, <4>2, <2>2
    <3> QED BY <3>2, <3>3
  <2> QED BY <2>1, <2>2
<1>3. f = [k \in 0 .. PoolSize |-> step(k)]
  <2> HIDE DEF step
  <2> QED BY <1>2
<1> HIDE DEF f
<1>4. Walks(PoolSize, f)
  BY <1>3 DEF Walks
<1> QED BY <1>4 DEF f

(* The walk that the definition chooses is that of order.                  *)
LEMMA WalkIsOrder ==
  ASSUME BlinkInv
  PROVE  \A n \in 0 .. PoolSize :
           Walk[n] = IF n < Len(order) THEN order[n + 1] ELSE NULL
<1> DEFINE f == [k \in 0 .. PoolSize |->
                   IF k < Len(order) THEN order[k + 1] ELSE NULL]
           W == Walk
<1>1. W = CHOOSE g : Walks(PoolSize, g)
  BY Zenon DEF Walk, Walks
<1>2. Walks(PoolSize, f)
  BY WalkExists
<1> HIDE DEF f, W
<1>3. Walks(PoolSize, W)
  BY <1>1, <1>2, Zenon
<1>4. PoolSize \in Nat
  BY Sizes
<1> DEFINE step(g, k) == IF k = 0 THEN mp1_list_head
                         ELSE IF g[k - 1] = NULL THEN NULL
                         ELSE blink_array[g[k - 1]].next
<1>5. \A k \in 0 .. PoolSize : W[k] = step(W, k)
  BY <1>3 DEF Walks
<1>6. \A k \in 0 .. PoolSize : f[k] = step(f, k)
  BY <1>2 DEF Walks
<1> DEFINE T == {k \in Nat : k \in 0 .. PoolSize /\ W[k] # f[k]}
<1>7. T = {}
  <2> SUFFICES ASSUME T # {} PROVE FALSE
    OBVIOUS
  <2>1. T \in SUBSET Nat
    OBVIOUS
  <2>2. PICK k \in T : \A m \in T : k <= m
    BY <2>1, LeastNat
  <2>3. k \in 0 .. PoolSize /\ k \in Nat /\ W[k] # f[k]
    OBVIOUS
  <2>4. \A m \in 0 .. PoolSize : m \notin T => W[m] = f[m]
    BY <1>4
  <2> HIDE DEF T
  <2>5. CASE k = 0
    BY <2>3, <2>5, <1>5, <1>6
  <2>6. CASE k # 0
    <3>1. k - 1 \in 0 .. PoolSize /\ ~ (k <= k - 1)
      BY <2>3, <2>6, <1>4
    <3>2. W[k - 1] = f[k - 1]
      BY <3>1, <2>2, <2>4
    <3>3. step(W, k) = step(f, k)
      BY <3>2
    <3> HIDE DEF step
    <3> QED BY <2>3, <3>3, <1>5, <1>6
  <2> QED BY <2>5, <2>6
<1>8. \A n \in 0 .. PoolSize : W[n] = f[n]
  BY <1>4, <1>7
<1> QED BY <1>8 DEF f, W

LEMMA ListIsOrder ==
  ASSUME BlinkInv
  PROVE  List = order
<1> DEFINE S == {i \in 1 .. PoolSize + 1 : Walk[i - 1] # NULL}
           n == Len(order)
<1>1. PoolSize \in Nat /\ n \in Nat /\ n <= PoolSize
  BY Sizes, ListTypes, ListFits DEF BlinkInv, Linked
<1>2. \A i \in 1 .. n : order[i] \in Ptrs /\ order[i] # NULL
  BY ListTypes DEF BlinkInv, Linked
<1>3. \A i \in 1 .. PoolSize + 1 : Walk[i - 1] = IF i - 1 < n THEN order[i] ELSE NULL
  <2> SUFFICES ASSUME NEW i \in 1 .. PoolSize + 1
               PROVE  Walk[i - 1] = IF i - 1 < n THEN order[i] ELSE NULL
    OBVIOUS
  <2>1. i - 1 \in 0 .. PoolSize /\ (i - 1) + 1 = i
    BY <1>1
  <2> QED BY <2>1, WalkIsOrder
<1> DEFINE W == Walk
<1>4. List = [i \in {i \in 1 .. PoolSize + 1 : W[i - 1] # NULL} |-> W[i - 1]]
  BY DEF List
<1>5. {i \in 1 .. PoolSize + 1 : W[i - 1] # NULL} = 1 .. n
  <2>1. ASSUME NEW i \in 1 .. PoolSize + 1 PROVE W[i - 1] # NULL <=> i \in 1 .. n
    <3>1. CASE i - 1 < n
      <4>1. i \in 1 .. n
        BY <3>1, <1>1
      <4> QED BY <4>1, <3>1, <1>2, <1>3
    <3>2. CASE ~ (i - 1 < n)
      <4>1. i \notin 1 .. n
        BY <3>2, <1>1
      <4> QED BY <4>1, <3>2, <1>3
    <3> QED BY <3>1, <3>2
  <2>2. 1 .. n \subseteq 1 .. PoolSize + 1
    BY <1>1
  <2> HIDE DEF n, W
  <2> QED BY <2>1, <2>2
<1>6. \A i \in 1 .. n : W[i - 1] = order[i]
  <2> SUFFICES ASSUME NEW i \in 1 .. n PROVE W[i - 1] = order[i]
    OBVIOUS
  <2>1. i \in 1 .. PoolSize + 1 /\ i - 1 < n
    BY <1>1
  <2> QED BY <2>1, <1>3
<1>7. List = [i \in 1 .. n |-> W[i - 1]]
  <2> HIDE DEF W, n
  <2> QED BY <1>4, <1>5
<1>8. [i \in 1 .. n |-> W[i - 1]] = [i \in 1 .. n |-> order[i]]
  <2> HIDE DEF W, n
  <2> QED BY <1>6
<1>9. order = [i \in 1 .. n |-> order[i]]
  BY DEF BlinkInv, Linked
<1> HIDE DEF W, n
<1> QED BY <1>7, <1>8, <1>9

-----------------------------------------------------------------------------
(* The helpers of the operations.                                          *)

Located(loc) == {i \in 1 .. Len(order) : blink_array[order[i]].location = loc}
LeastOf(S) == CHOOSE i \in S : \A j \in S : i <= j

LEMMA LeastIn ==
  ASSUME NEW S \in SUBSET Nat, S # {}
  PROVE  LeastOf(S) \in S /\ \A j \in S : LeastOf(S) <= j
<1>1. \E i \in S : \A j \in S : i <= j
  BY LeastNat
<1> QED BY <1>1, Zenon DEF LeastOf

(* mp1_find_helper finds the first structure with the location.            *)
LEMMA FindAt ==
  ASSUME BlinkInv, NEW loc
  PROVE  /\ Find(loc) # NULL <=> Located(loc) # {}
         /\ Located(loc) # {} => /\ Find(loc) = order[LeastOf(Located(loc))]
                              /\ LeastOf(Located(loc)) \in Located(loc)
<1> DEFINE H == Located(loc)
<1>1. Find(loc) = IF H = {} THEN NULL ELSE order[LeastOf(H)]
  BY ListIsOrder DEF Find, Located, LeastOf
<1>2. H \in SUBSET Nat /\ H \subseteq 1 .. Len(order)
  BY DEF Located
<1>3. H # {} => LeastOf(H) \in H
  BY <1>2, LeastIn
<1>4. \A i \in 1 .. Len(order) : order[i] # NULL
  BY ListTypes DEF BlinkInv, Linked
<1> HIDE DEF H
<1>5. H # {} => order[LeastOf(H)] # NULL
  BY <1>2, <1>3, <1>4
<1> QED BY <1>1, <1>3, <1>5 DEF H

(* mp1_malloc gives a structure that is not in the list.                   *)
LEMMA MallocFree ==
  ASSUME BlinkInv, Malloc # NULL
  PROVE  Malloc \in Ptrs /\ ~ InUse(Malloc)
<1> DEFINE free == {p \in Ptrs : blink_array[p].location = 0}
<1>1. Malloc = IF free = {} THEN NULL ELSE LeastOf(free)
  BY DEF Malloc, LeastOf
<1>2. free \in SUBSET Nat
  BY DEF Ptrs
<1>3. free # {}
  BY <1>1
<1>4. Malloc \in free
  <2> HIDE DEF free
  <2> QED BY <1>1, <1>2, <1>3, LeastIn
<1> QED BY <1>4 DEF BlinkInv

-----------------------------------------------------------------------------
(* Every step keeps the links.                                             *)

LEMMA BlinkInitInv == BlinkInit => BlinkInv
<1> SUFFICES ASSUME BlinkInit PROVE BlinkInv
  OBVIOUS
<1>1. ZeroStruct \in Structs
  <2>1. "NUL" \in CharSet /\ 0 \in Nat
    BY DEF CharSet
  <2>2. 0 \in Periods /\ 0 \in Status /\ NULL \in Links
    BY Sizes DEF Periods, Status, Links, NULL
  <2> QED BY <2>1, <2>2 DEF ZeroStruct, Structs
<1>2. blink_array \in [Ptrs -> Structs] /\ \A p \in Ptrs : blink_array[p].location = 0
  BY <1>1 DEF BlinkInit, ZeroStruct
<1>3. order = <<>> /\ mp1_list_head = NULL
  BY DEF BlinkInit
<1>4. order \in Seq(Ptrs) /\ Len(order) = 0
  BY <1>3
<1>5. 1 .. Len(order) = {}
  BY <1>4
<1> QED BY <1>2, <1>3, <1>4, <1>5 DEF BlinkInv, Linked, Distinct, Head1, InUse

(* A step that leaves the links and the locations alone.                   *)
LEMMA LinksKept ==
  ASSUME BlinkInv, blink_array' \in [Ptrs -> Structs],
         \A p \in Ptrs : /\ blink_array'[p].next = blink_array[p].next
                         /\ blink_array'[p].location = blink_array[p].location,
         UNCHANGED <<mp1_list_head, order>>
  PROVE  BlinkInv'
<1>1. \A i \in 1 .. Len(order) : order[i] \in Ptrs
  BY ListTypes DEF BlinkInv, Linked
<1> QED BY <1>1 DEF BlinkInv, Linked, Distinct, Head1, After, InUse

LEMMA PrependTypes ==
  ASSUME NEW l \in Seq(Ptrs), NEW p \in Ptrs
  PROVE  /\ <<p>> \o l \in Seq(Ptrs)
         /\ Len(<<p>> \o l) = Len(l) + 1
         /\ (<<p>> \o l)[1] = p
         /\ \A i \in 1 .. Len(l) : (<<p>> \o l)[i + 1] = l[i]
         /\ \A i \in 2 .. Len(l) + 1 : i - 1 \in 1 .. Len(l) /\ (<<p>> \o l)[i] = l[i - 1]
<1>1. Len(l) \in Nat
  BY ListTypes
<1> QED BY <1>1

LEMMA NewStruct ==
  ASSUME NEW l \in Nat, NEW a \in CharSet, NEW b \in CharSet,
         NEW c \in Periods, NEW d \in Periods, NEW e \in Periods,
         NEW u \in Status, NEW x \in Links
  PROVE  [location |-> l, on_char |-> a, off_char |-> b, on_length |-> c,
          off_length |-> d, countdown |-> e, status |-> u, next |-> x] \in Structs
<1> QED BY DEF Structs

LEMMA AddInv ==
  ASSUME BlinkInv, NEW t \in Templates, NEW loc \in Locations, Add(t, loc)
  PROVE  BlinkInv'
<1> DEFINE p == Malloc
           n == Len(order)
           o == <<p>> \o order
           s == [location |-> loc, on_char |-> t.on_char, off_char |-> t.off_char,
                 on_length |-> t.on_length, off_length |-> t.off_length,
                 countdown |-> t.on_length, status |-> 1, next |-> mp1_list_head]
<1>1. /\ p # NULL
      /\ blink_array' = [blink_array EXCEPT ![p] = s]
      /\ mp1_list_head' = p
      /\ order' = o
  BY Zenon DEF Add
<1>2. p \in Ptrs /\ ~ InUse(p)
  BY <1>1, MallocFree
<1>3. /\ order \in Seq(Ptrs) /\ n \in Nat /\ Distinct(order)
      /\ mp1_list_head = Head1(order)
      /\ blink_array \in [Ptrs -> Structs]
      /\ \A i \in 1 .. n : order[i] \in Ptrs
  BY ListTypes DEF BlinkInv, Linked
<1>4. s \in Structs /\ s.next = Head1(order) /\ s.location # 0
  <2>1. mp1_list_head \in Links
    BY <1>3, ListTypes, Sizes DEF Head1, NULL, Ptrs, Links
  <2>4. t.on_length \in Periods /\ t.off_length \in Periods
    BY Zenon, BlinkAssumption DEF Periods
  <2>5. loc \in Nat /\ loc # 0
    <3>1. loc \in 1 .. 2^16 - 1
      BY Zenon, BlinkAssumption
    <3>2. \A m \in 1 .. 2^16 - 1 : m \in Nat /\ m # 0
      OBVIOUS
    <3> QED BY <3>1, <3>2, Zenon
  <2>6. t.on_char \in CharSet /\ t.off_char \in CharSet
    BY DEF CharSet
  <2>7. 1 \in Status
    BY DEF Status
  <2>8. s \in Structs
    BY <2>1, <2>4, <2>5, <2>6, <2>7, NewStruct, Zenon
  <2> QED BY <2>5, <2>8, <1>3
<1> HIDE DEF p, s
<1>5. /\ o \in Seq(Ptrs) /\ Len(o) = n + 1 /\ o[1] = p
      /\ \A i \in 1 .. n : o[i + 1] = order[i]
      /\ \A i \in 2 .. n + 1 : i - 1 \in 1 .. n /\ o[i] = order[i - 1]
  BY <1>2, <1>3, PrependTypes
<1> HIDE DEF o
<1>6. \A i \in 1 .. n : order[i] # p
  BY <1>2 DEF InUse
<1>7. Distinct(o)
  <2> SUFFICES ASSUME NEW i \in 1 .. n + 1, NEW j \in 1 .. n + 1, o[i] = o[j]
               PROVE  i = j
    BY <1>5 DEF Distinct
  <2>1. CASE i = 1 /\ j = 1
    BY <2>1
  <2>2. CASE i = 1 /\ j # 1
    <3>1. j \in 2 .. n + 1
      BY <2>2, <1>3
    <3> QED BY <3>1, <2>2, <1>5, <1>6
  <2>3. CASE i # 1 /\ j = 1
    <3>1. i \in 2 .. n + 1
      BY <2>3, <1>3
    <3> QED BY <3>1, <2>3, <1>5, <1>6
  <2>4. CASE i # 1 /\ j # 1
    <3>1. i \in 2 .. n + 1 /\ j \in 2 .. n + 1
      BY <2>4, <1>3
    <3>2. i - 1 = j - 1
      BY <3>1, <1>3, <1>5 DEF Distinct
    <3> QED BY <3>2
  <2> QED BY <2>1, <2>2, <2>3, <2>4
<1>8. /\ blink_array' \in [Ptrs -> Structs]
      /\ blink_array'[p] = s
      /\ \A q \in Ptrs \ {p} : blink_array'[q] = blink_array[q]
  BY <1>1, <1>2, <1>3, <1>4
<1>9. \A i \in 1 .. n + 1 : blink_array'[o[i]].next = After(o, i)
  <2> SUFFICES ASSUME NEW i \in 1 .. n + 1
               PROVE  blink_array'[o[i]].next = After(o, i)
    OBVIOUS
  <2>1. CASE i = 1
    <3>1. blink_array'[o[i]].next = Head1(order)
      BY <2>1, <1>4, <1>5, <1>8
    <3>2. CASE n = 0
      BY <3>1, <3>2, <2>1, <1>5 DEF Head1, After
    <3>3. CASE n # 0
      <4>1. 1 \in 1 .. n /\ n + 1 # 1
        BY <1>3, <3>3
      <4>2. o[i + 1] = order[1]
        BY <4>1, <2>1, <1>5
      <4> QED BY <4>1, <4>2, <3>1, <3>3, <2>1, <1>5 DEF Head1, After
    <3> QED BY <3>2, <3>3
  <2>2. CASE i # 1
    <3>1. i \in 2 .. n + 1
      BY <2>2, <1>3
    <3>2. i - 1 \in 1 .. n /\ o[i] = order[i - 1]
      BY <3>1, <1>5
    <3>3. blink_array'[o[i]].next = After(order, i - 1)
      <4>1. blink_array'[o[i]] = blink_array[order[i - 1]]
        BY <3>2, <1>3, <1>6, <1>8
      <4>2. blink_array[order[i - 1]].next = After(order, i - 1)
        BY <3>2 DEF BlinkInv, Linked
      <4> QED BY <4>1, <4>2
    <3>4. CASE i = n + 1
      <4>1. i - 1 = n
        BY <3>4, <1>3
      <4> QED BY <4>1, <3>3, <3>4, <1>5 DEF After
    <3>5. CASE i # n + 1
      <4>1. i \in 1 .. n /\ i - 1 # n /\ (i - 1) + 1 = i
        BY <3>1, <3>5, <1>3
      <4>2. After(order, i - 1) = order[i]
        BY <4>1 DEF After
      <4>3. After(o, i) = order[i]
        BY <4>1, <3>5, <1>5 DEF After
      <4> QED BY <4>2, <4>3, <3>3
    <3> QED BY <3>4, <3>5
  <2> QED BY <2>1, <2>2
<1>10. \A q \in Ptrs : (\E i \in 1 .. n + 1 : o[i] = q) <=> (q = p \/ InUse(q))
  <2> SUFFICES ASSUME NEW q \in Ptrs
               PROVE  (\E i \in 1 .. n + 1 : o[i] = q) <=> (q = p \/ InUse(q))
    OBVIOUS
  <2>1. ASSUME NEW i \in 1 .. n + 1, o[i] = q PROVE q = p \/ InUse(q)
    <3>1. CASE i = 1
      BY <3>1, <2>1, <1>5
    <3>2. CASE i # 1
      <4>1. i \in 2 .. n + 1
        BY <3>2, <1>3
      <4> QED BY <4>1, <2>1, <1>5 DEF InUse
    <3> QED BY <3>1, <3>2
  <2>2. ASSUME q = p PROVE \E i \in 1 .. n + 1 : o[i] = q
    <3>1. 1 \in 1 .. n + 1
      BY <1>3
    <3> QED BY <3>1, <2>2, <1>5
  <2>3. ASSUME InUse(q) PROVE \E i \in 1 .. n + 1 : o[i] = q
    <3>1. PICK i \in 1 .. n : order[i] = q
      BY <2>3 DEF InUse
    <3>2. i + 1 \in 1 .. n + 1 /\ o[i + 1] = q
      BY <3>1, <1>3, <1>5
    <3> QED BY <3>2
  <2> QED BY <2>1, <2>2, <2>3
<1>11. \A q \in Ptrs : blink_array'[q].location # 0 <=> (q = p \/ InUse(q))
  BY <1>4, <1>8 DEF BlinkInv
<1>12. Head1(o) = p
  BY <1>3, <1>5 DEF Head1
<1>13. Linked'
  BY <1>1, <1>5, <1>7, <1>9, <1>12 DEF Linked, Distinct, Head1, After
<1>14. \A q \in Ptrs : InUse(q)' <=> \E i \in 1 .. n + 1 : o[i] = q
  BY <1>1, <1>5 DEF InUse
<1> QED BY <1>8, <1>10, <1>11, <1>13, <1>14 DEF BlinkInv

-----------------------------------------------------------------------------
(* mp1_ioctl_remove.                                                       *)

(* A list of different structures without its k-th one.                    *)
LEMMA WithoutAt ==
  ASSUME NEW l \in Seq(Ptrs), Distinct(l), NEW k \in 1 .. Len(l)
  PROVE  /\ Without(l, l[k]) \in Seq(Ptrs)
         /\ Len(Without(l, l[k])) = Len(l) - 1
         /\ \A i \in 1 .. Len(l) - 1 :
              /\ i < k => Without(l, l[k])[i] = l[i]
              /\ i >= k => Without(l, l[k])[i] = l[i + 1]
<1> DEFINE n == Len(l)
           w == [i \in 1 .. n - 1 |-> IF i >= k THEN l[i + 1] ELSE l[i]]
<1>1. n \in Nat /\ n - 1 \in Nat /\ \A i \in 1 .. n : l[i] \in Ptrs
  BY ListTypes
<1>2. \A i \in 1 .. n - 1 : (\E j \in 1 .. i : l[j] = l[k]) <=> i >= k
  <2> SUFFICES ASSUME NEW i \in 1 .. n - 1
               PROVE  (\E j \in 1 .. i : l[j] = l[k]) <=> i >= k
    OBVIOUS
  <2>1. ASSUME NEW j \in 1 .. i, l[j] = l[k] PROVE i >= k
    <3>1. j \in 1 .. n
      BY <1>1
    <3>2. j = k
      BY <3>1, <2>1 DEF Distinct
    <3> QED BY <3>2
  <2>2. ASSUME i >= k PROVE \E j \in 1 .. i : l[j] = l[k]
    <3>1. k \in 1 .. i
      BY <2>2, <1>1
    <3> QED BY <3>1
  <2> QED BY <2>1, <2>2
<1>3. Without(l, l[k]) = w
  BY <1>2 DEF Without
<1>4. \A i \in 1 .. n - 1 : w[i] \in Ptrs
  <2> SUFFICES ASSUME NEW i \in 1 .. n - 1 PROVE w[i] \in Ptrs
    OBVIOUS
  <2>1. i \in 1 .. n /\ i + 1 \in 1 .. n
    BY <1>1
  <2> QED BY <2>1, <1>1
<1>5. w \in Seq(Ptrs) /\ Len(w) = n - 1
  BY <1>1, <1>4
<1>6. \A i \in 1 .. n - 1 : (i < k => w[i] = l[i]) /\ (i >= k => w[i] = l[i + 1])
  BY <1>1
<1> HIDE DEF w, n
<1> QED BY <1>3, <1>5, <1>6 DEF n

(* Taking out the k-th structure of the list.                              *)
LEMMA UnlinkInv ==
  ASSUME BlinkInv, NEW k \in 1 .. Len(order), Unlink(order[k]),
         order' = Without(order, order[k])
  PROVE  BlinkInv'
<1> DEFINE p == order[k]
           n == Len(order)
           w == Without(order, order[k])
           prev == {q \in Members(List) : blink_array[q].next = p}
<1>1. /\ order \in Seq(Ptrs) /\ n \in Nat /\ n >= 1 /\ Distinct(order)
      /\ mp1_list_head = order[1] /\ 1 \in 1 .. n
      /\ blink_array \in [Ptrs -> Structs]
      /\ \A i \in 1 .. n : order[i] \in Ptrs /\ order[i] # NULL
      /\ \A i \in 1 .. n : blink_array[order[i]].next = After(order, i)
  <2>1. order \in Seq(Ptrs) /\ n \in Nat /\ n >= 1 /\ 1 \in 1 .. n
    BY ListTypes DEF BlinkInv, Linked
  <2> QED BY <2>1, ListTypes DEF BlinkInv, Linked, Head1
<1>2. /\ w \in Seq(Ptrs) /\ Len(w) = n - 1
      /\ \A i \in 1 .. n - 1 : i < k => w[i] = order[i]
      /\ \A i \in 1 .. n - 1 : i >= k => w[i] = order[i + 1]
  BY <1>1, WithoutAt
<1>3. /\ mp1_list_head' = IF mp1_list_head = p THEN blink_array[p].next
                                               ELSE mp1_list_head
      /\ blink_array' = [q \in Ptrs |->
           IF q = p THEN ZeroStruct
           ELSE IF q \in prev /\ mp1_list_head # p
             THEN [blink_array[q] EXCEPT !.next = blink_array[p].next]
             ELSE blink_array[q]]
  BY Zenon DEF Unlink
<1>4. \A i, j \in 1 .. n : order[i] = order[j] <=> i = j
  BY <1>1 DEF Distinct
<1>5. \A i \in 1 .. n : order[i] \in prev <=> i = k - 1
  <2> SUFFICES ASSUME NEW i \in 1 .. n PROVE order[i] \in prev <=> i = k - 1
    OBVIOUS
  <2>1. order[i] \in prev <=> After(order, i) = p
    BY <1>1, ListIsOrder DEF Members
  <2>2. CASE i = n
    BY <2>1, <2>2, <1>1 DEF After
  <2>3. CASE i # n
    <3>1. i + 1 \in 1 .. n
      BY <2>3, <1>1
    <3>2. After(order, i) = order[i + 1]
      BY <2>3 DEF After
    <3>3. order[i + 1] = p <=> i + 1 = k
      BY <3>1, <1>4
    <3> QED BY <2>1, <3>2, <3>3
  <2> QED BY <2>2, <2>3
<1>6. mp1_list_head = p <=> k = 1
  BY <1>1, <1>4
<1> HIDE DEF prev, w
<1>7. p \in Ptrs /\ blink_array[p].next = After(order, k)
  BY <1>1
<1>8. After(order, k) \in Links
  <2>1. blink_array[p].next \in Links
    BY <1>1, <1>7 DEF Structs
  <2> QED BY <2>1, <1>7
<1>9. /\ blink_array'[p] = ZeroStruct
      /\ \A q \in Ptrs \ {p} :
           blink_array'[q] = IF q \in prev /\ k # 1
                               THEN [blink_array[q] EXCEPT !.next = After(order, k)]
                               ELSE blink_array[q]
  <2> HIDE DEF p
  <2> QED BY <1>3, <1>6, <1>7
<1>10. /\ blink_array' \in [Ptrs -> Structs]
       /\ \A q \in Ptrs \ {p} : blink_array'[q].location = blink_array[q].location
  <2>1. ZeroStruct \in Structs
    <3>1. "NUL" \in CharSet /\ 0 \in Nat
      BY DEF CharSet
    <3>2. 0 \in Periods /\ 0 \in Status /\ NULL \in Links
      BY Sizes DEF Periods, Status, Links, NULL
    <3> QED BY <3>1, <3>2 DEF ZeroStruct, Structs
  <2>2. ASSUME NEW q \in Ptrs \ {p}
        PROVE  blink_array'[q] \in Structs /\ blink_array'[q].location = blink_array[q].location
    <3>1. blink_array[q] \in Structs
      BY <1>1
    <3>2. CASE q \in prev /\ k # 1
      <4>1. blink_array'[q] = [blink_array[q] EXCEPT !.next = After(order, k)]
        BY <1>9, <2>2, <3>2
      <4> HIDE DEF p, n
      <4> QED BY <4>1, <3>1, <1>8 DEF Structs
    <3>3. CASE ~ (q \in prev /\ k # 1)
      <4>1. blink_array'[q] = blink_array[q]
        BY <1>9, <2>2, <3>3
      <4> QED BY <4>1, <3>1
    <3> QED BY <3>2, <3>3
  <2>3. blink_array' = [q \in Ptrs |-> blink_array'[q]]
    BY <1>3
  <2>4. \A q \in Ptrs : blink_array'[q] \in Structs
    BY <1>9, <2>1, <2>2
  <2> QED BY <2>2, <2>3, <2>4
<1>11. mp1_list_head' = Head1(w)
  <2>1. CASE k = 1
    <3>1. mp1_list_head' = After(order, 1)
      BY <2>1, <1>3, <1>6, <1>7
    <3>2. CASE n = 1
      BY <3>1, <3>2, <1>2 DEF After, Head1
    <3>3. CASE n # 1
      <4>1. 1 \in 1 .. n - 1 /\ n - 1 # 0 /\ 1 + 1 = 2
        <5>1. n \in Nat /\ n >= 1
          BY <1>1
        <5> HIDE DEF n
        <5> QED BY <5>1, <3>3
      <4>2. w[1] = order[2]
        BY <4>1, <2>1, <1>2
      <4> QED BY <4>1, <4>2, <3>1, <3>3, <1>2 DEF After, Head1
    <3> QED BY <3>2, <3>3
  <2>2. CASE k # 1
    <3>1. mp1_list_head' = order[1]
      BY <2>2, <1>1, <1>3, <1>6
    <3>2. 1 \in 1 .. n - 1 /\ 1 < k /\ n - 1 # 0
      BY <2>2, <1>1
    <3>3. w[1] = order[1]
      BY <3>2, <1>2
    <3> QED BY <3>1, <3>2, <3>3, <1>2 DEF Head1
  <2> QED BY <2>1, <2>2
<1>12. \A i \in 1 .. n - 1 : \E m \in 1 .. n :
         /\ w[i] = order[m] /\ m # k
         /\ m = IF i < k THEN i ELSE i + 1
  <2> SUFFICES ASSUME NEW i \in 1 .. n - 1
               PROVE  \E m \in 1 .. n : /\ w[i] = order[m] /\ m # k
                                       /\ m = IF i < k THEN i ELSE i + 1
    OBVIOUS
  <2>1. CASE i < k
    <3>1. i \in 1 .. n /\ i # k
      BY <2>1, <1>1
    <3> QED BY <3>1, <2>1, <1>2
  <2>2. CASE ~ (i < k)
    <3>1. i + 1 \in 1 .. n /\ i + 1 # k /\ i >= k
      BY <2>2, <1>1
    <3> QED BY <3>1, <2>2, <1>2
  <2> QED BY <2>1, <2>2
<1>13. Distinct(w)
  <2> SUFFICES ASSUME NEW i \in 1 .. n - 1, NEW j \in 1 .. n - 1, w[i] = w[j]
               PROVE  i = j
    BY <1>2 DEF Distinct
  <2>1. PICK a \in 1 .. n : w[i] = order[a] /\ a = IF i < k THEN i ELSE i + 1
    BY <1>12
  <2>2. PICK b \in 1 .. n : w[j] = order[b] /\ b = IF j < k THEN j ELSE j + 1
    BY <1>12
  <2>3. a = b
    BY <2>1, <2>2, <1>4
  <2> QED BY <2>1, <2>2, <2>3
<1>14. \A i \in 1 .. n - 1 : blink_array'[w[i]].next = After(w, i)
  <2> SUFFICES ASSUME NEW i \in 1 .. n - 1
               PROVE  blink_array'[w[i]].next = After(w, i)
    OBVIOUS
  <2>1. PICK m \in 1 .. n : /\ w[i] = order[m] /\ m # k
                           /\ m = IF i < k THEN i ELSE i + 1
    BY <1>12
  <2>2. order[m] \in Ptrs \ {p} /\ blink_array[order[m]].next = After(order, m)
    BY <2>1, <1>1, <1>4
  <2>3. CASE m = k - 1
    <3>1. order[m] \in prev /\ k # 1
      BY <2>3, <1>5
    <3>2. blink_array'[order[m]] = [blink_array[order[m]] EXCEPT !.next = After(order, k)]
      BY <3>1, <2>2, <1>9
    <3>3. blink_array[order[m]] \in Structs
      BY <2>2, <1>1
    <3>4. blink_array'[order[m]].next = After(order, k)
      BY <3>2, <3>3 DEF Structs
    <3>5. i = k - 1
      BY <2>1, <2>3
    <3>6. CASE k = n
      BY <3>4, <3>5, <3>6, <2>1, <1>2 DEF After
    <3>7. CASE k # n
      <4>1. k \in 1 .. n - 1 /\ i # n - 1 /\ i + 1 = k /\ k >= k
        BY <3>5, <3>7, <1>1
      <4>2. w[k] = order[k + 1]
        BY <4>1, <1>2
      <4> QED BY <4>1, <4>2, <3>4, <3>7, <2>1, <1>2 DEF After
    <3> QED BY <3>6, <3>7
  <2>4. CASE m # k - 1
    <3>1. order[m] \notin prev
      BY <2>4, <1>5
    <3>2. blink_array'[order[m]].next = After(order, m)
      BY <3>1, <2>2, <1>9
    <3>3. CASE i = n - 1
      <4>1. m = n
        BY <3>3, <2>1, <2>4, <1>1
      <4> QED BY <4>1, <3>2, <3>3, <2>1, <1>2 DEF After
    <3>4. CASE i # n - 1
      <4>a. m = i \/ m = i + 1
        BY <2>1, Zenon
      <4>b. i \in Nat /\ n \in Nat /\ m \in Nat /\ 1 <= i /\ i < n - 1
        BY <3>4, <1>1
      <4>1. i + 1 \in 1 .. n - 1 /\ m # n
        BY <4>a, <4>b
      <4>2. w[i + 1] = order[m + 1]
        <5>1. CASE i + 1 < k
          <6>1. m = i
            BY <5>1, <2>1
          <6> QED BY <6>1, <5>1, <4>1, <1>2
        <5>2. CASE ~ (i + 1 < k)
          <6>1. m = i + 1 /\ i + 1 >= k
            BY <5>2, <2>1, <2>4
          <6> QED BY <6>1, <4>1, <1>2
        <5> QED BY <5>1, <5>2
      <4> QED BY <4>1, <4>2, <3>2, <3>4, <2>1, <1>2 DEF After
    <3> QED BY <3>3, <3>4
  <2> QED BY <2>3, <2>4
<1>15. \A q \in Ptrs : (\E i \in 1 .. n - 1 : w[i] = q) <=> (q # p /\ InUse(q))
  <2> SUFFICES ASSUME NEW q \in Ptrs
               PROVE  (\E i \in 1 .. n - 1 : w[i] = q) <=> (q # p /\ InUse(q))
    OBVIOUS
  <2>1. ASSUME NEW i \in 1 .. n - 1, w[i] = q PROVE q # p /\ InUse(q)
    <3>1. PICK m \in 1 .. n : w[i] = order[m] /\ m # k
      BY <1>12
    <3> QED BY <3>1, <2>1, <1>4 DEF InUse
  <2>2. ASSUME q # p, InUse(q) PROVE \E i \in 1 .. n - 1 : w[i] = q
    <3>1. PICK m \in 1 .. n : order[m] = q
      BY <2>2 DEF InUse
    <3>2. m # k
      BY <2>2, <3>1
    <3>3. CASE m < k
      <4>1. m \in 1 .. n - 1
        BY <3>3, <1>1
      <4> QED BY <4>1, <3>1, <3>3, <1>2
    <3>4. CASE ~ (m < k)
      <4>1. m - 1 \in 1 .. n - 1 /\ m - 1 >= k /\ (m - 1) + 1 = m
        BY <3>2, <3>4, <1>1
      <4>2. w[m - 1] = order[m]
        BY <4>1, <1>2
      <4> QED BY <4>1, <4>2, <3>1
    <3> QED BY <3>3, <3>4
  <2> QED BY <2>1, <2>2
<1>16. \A q \in Ptrs : blink_array'[q].location # 0 <=> (q # p /\ InUse(q))
  <2>1. blink_array'[p].location = 0
    BY <1>9 DEF ZeroStruct
  <2> QED BY <2>1, <1>10 DEF BlinkInv
<1>17. order' = w
  BY DEF w
<1>18. Linked'
  BY <1>2, <1>11, <1>13, <1>14, <1>17 DEF Linked, Distinct, Head1, After
<1>19. \A q \in Ptrs : InUse(q)' <=> \E i \in 1 .. n - 1 : w[i] = q
  BY <1>2, <1>17 DEF InUse
<1> QED BY <1>10, <1>15, <1>16, <1>18, <1>19 DEF BlinkInv

LEMMA RemoveInv ==
  ASSUME BlinkInv, NEW loc \in Locations, BlinkRemove(loc)
  PROVE  BlinkInv'
<1>1. /\ Find(loc) # NULL /\ Unlink(Find(loc))
      /\ order' = Without(order, Find(loc))
  BY DEF BlinkRemove
<1>2. /\ Find(loc) = order[LeastOf(Located(loc))]
      /\ LeastOf(Located(loc)) \in 1 .. Len(order)
  BY <1>1, FindAt DEF Located
<1> QED BY <1>1, <1>2, UnlinkInv

-----------------------------------------------------------------------------
(* mp1_ioctl_sync and mp1_rtc_tasklet leave the links alone.               *)

(* The structure q with the timing of the structure s.                     *)
Timed(q, s) == [q EXCEPT !.on_length = s.on_length, !.off_length = s.off_length,
                         !.countdown = s.countdown, !.status = s.status]

LEMMA TimedType ==
  ASSUME NEW q \in Structs, NEW s \in Structs
  PROVE  /\ Timed(q, s) \in Structs
         /\ Timed(q, s).next = q.next
         /\ Timed(q, s).location = q.location
<1> QED BY DEF Timed, Structs

LEMMA SyncStep ==
  ASSUME BlinkInv, NEW a, NEW b, Sync(a, b)
  PROVE  /\ Located(a) # {} /\ Located(b) # {}
         /\ order[LeastOf(Located(a))] \in Ptrs /\ order[LeastOf(Located(b))] \in Ptrs
         /\ blink_array' = [blink_array EXCEPT ![order[LeastOf(Located(b))]] =
                              Timed(blink_array[order[LeastOf(Located(b))]],
                                    blink_array[order[LeastOf(Located(a))]])]
         /\ screen' = [screen EXCEPT ![b] = blink_array[order[LeastOf(Located(b))]].off_char]
         /\ UNCHANGED <<mp1_list_head, order>>
<1> DEFINE p == Find(a)
           q == Find(b)
<1>1. /\ p # NULL /\ q # NULL
      /\ blink_array' = [blink_array EXCEPT
           ![q].on_length = blink_array[p].on_length,
           ![q].off_length = blink_array[p].off_length,
           ![q].countdown = blink_array[p].countdown,
           ![q].status = blink_array[p].status]
      /\ screen' = [screen EXCEPT ![b] = blink_array[q].off_char]
      /\ UNCHANGED <<mp1_list_head, order>>
  BY Zenon DEF Sync
<1>2. /\ Located(a) # {} /\ p = order[LeastOf(Located(a))]
      /\ Located(b) # {} /\ q = order[LeastOf(Located(b))]
      /\ LeastOf(Located(a)) \in 1 .. Len(order) /\ LeastOf(Located(b)) \in 1 .. Len(order)
  BY <1>1, FindAt DEF Located
<1> HIDE DEF p, q
<1>3. p \in Ptrs /\ q \in Ptrs
  BY <1>2, ListTypes DEF BlinkInv, Linked
<1>4. blink_array \in [Ptrs -> Structs]
  BY DEF BlinkInv
<1>5. blink_array' = [blink_array EXCEPT ![q] = Timed(blink_array[q], blink_array[p])]
  BY <1>1, <1>3, <1>4 DEF Timed
<1> QED BY <1>1, <1>2, <1>3, <1>5

LEMMA SyncInv ==
  ASSUME BlinkInv, NEW a, NEW b, Sync(a, b)
  PROVE  BlinkInv'
<1> DEFINE p == order[LeastOf(Located(a))]
           q == order[LeastOf(Located(b))]
<1>1. /\ p \in Ptrs /\ q \in Ptrs
      /\ blink_array' = [blink_array EXCEPT ![q] = Timed(blink_array[q], blink_array[p])]
      /\ UNCHANGED <<mp1_list_head, order>>
  BY SyncStep
<1>2. blink_array \in [Ptrs -> Structs]
  BY DEF BlinkInv
<1> HIDE DEF p, q
<1> DEFINE s == Timed(blink_array[q], blink_array[p])
<1>3. s \in Structs /\ s.next = blink_array[q].next /\ s.location = blink_array[q].location
  BY <1>1, <1>2, TimedType
<1> HIDE DEF s
<1>4. /\ blink_array' \in [Ptrs -> Structs]
      /\ \A r \in Ptrs : /\ blink_array'[r].next = blink_array[r].next
                          /\ blink_array'[r].location = blink_array[r].location
  <2>1. blink_array' = [blink_array EXCEPT ![q] = s]
    BY <1>1 DEF s
  <2> QED BY <2>1, <1>1, <1>2, <1>3
<1> QED BY <1>1, <1>4, LinksKept

LEMMA TickType ==
  ASSUME NEW s \in Structs
  PROVE  /\ AfterTick(s) \in Structs
         /\ AfterTick(s).next = s.next
         /\ AfterTick(s).location = s.location
<1>1. s.countdown \in Periods /\ s.on_length \in Periods /\ s.off_length \in Periods
      /\ s.status \in Status
  BY DEF Structs
<1>2. 1 - s.status \in Status
  BY <1>1 DEF Status
<1>3. CASE Elapsed(s.countdown)
  <2> DEFINE c == IF s.status = 1 THEN s.off_length ELSE s.on_length
  <2>1. c \in Periods
    BY <1>1
  <2> HIDE DEF c
  <2>2. AfterTick(s) = [s EXCEPT !.status = 1 - s.status, !.countdown = c]
    BY <1>3 DEF AfterTick, c
  <2> QED BY <1>2, <2>1, <2>2 DEF Structs
<1>4. CASE ~ Elapsed(s.countdown)
  <2>1. Dec(s.countdown) \in Periods
    <3>1. Dec(s.countdown) \in Nat /\ Dec(s.countdown) < 2^15
      BY <1>1, <1>4 DEF Elapsed, Dec, Periods
    <3> QED BY <3>1 DEF Periods
  <2>2. AfterTick(s) = [s EXCEPT !.countdown = Dec(s.countdown)]
    BY <1>4 DEF AfterTick
  <2> QED BY <2>1, <2>2 DEF Structs
<1> QED BY <1>3, <1>4

LEMMA TaskletInv ==
  ASSUME BlinkInv, Tasklet
  PROVE  BlinkInv'
<1>1. /\ blink_array' = [p \in Ptrs |->
           IF p \in Members(List) THEN AfterTick(blink_array[p]) ELSE blink_array[p]]
      /\ UNCHANGED <<mp1_list_head, order>>
  BY ZenonT(40) DEF Tasklet
<1>2. \A p \in Ptrs : blink_array[p] \in Structs
  BY DEF BlinkInv
<1>3. /\ blink_array' \in [Ptrs -> Structs]
      /\ \A p \in Ptrs : /\ blink_array'[p].next = blink_array[p].next
                          /\ blink_array'[p].location = blink_array[p].location
  BY <1>1, <1>2, TickType
<1> QED BY <1>1, <1>3, LinksKept

LEMMA BlinkStepInv ==
  ASSUME BlinkInv, [BlinkNext]_bvars
  PROVE  BlinkInv'
<1>1. CASE BlinkNext
  BY <1>1, AddInv, RemoveInv, SyncInv, TaskletInv DEF BlinkNext
<1>2. CASE UNCHANGED bvars
  BY <1>2 DEF bvars, BlinkInv, Linked, Distinct, Head1, After, InUse
<1> QED BY <1>1, <1>2

LEMMA BlinkInvAlways == BlinkSpec => []BlinkInv
<1> QED BY BlinkInitInv, BlinkStepInv, PTL DEF BlinkSpec

-----------------------------------------------------------------------------
(* The list that mp1_rtc_tasklet and mp1_find_helper walk has no cycle and *)
(* holds the structures that mp1_malloc does not give away.                *)
THEOREM ListStaysSound == BlinkSpec => []ListSound
<1>1. BlinkInv => ListSound
  BY ListIsOrder DEF BlinkInv, ListSound, Linked, Distinct, InUse
<1> QED BY <1>1, BlinkInvAlways, PTL

-----------------------------------------------------------------------------
(* The refinement of BlinkList.                                            *)

Items == [i \in 1 .. Len(order) |-> Strip(blink_array[order[i]])]

Bodies == {Strip(s) : s \in Structs}

LEMMA ItemsTypes ==
  ASSUME BlinkInv
  PROVE  /\ Items \in Seq(Bodies) /\ Len(Items) = Len(order) /\ Len(order) \in Nat
         /\ \A i \in 1 .. Len(order) :
              /\ order[i] \in Ptrs /\ blink_array[order[i]] \in Structs
              /\ Items[i] = Strip(blink_array[order[i]])
<1>1. /\ Len(order) \in Nat
      /\ \A i \in 1 .. Len(order) : order[i] \in Ptrs /\ blink_array[order[i]] \in Structs
  BY ListTypes DEF BlinkInv, Linked
<1>2. \A i \in 1 .. Len(order) : Strip(blink_array[order[i]]) \in Bodies
  BY <1>1 DEF Bodies
<1>3. Items \in Seq(Bodies) /\ Len(Items) = Len(order)
  BY <1>1, <1>2 DEF Items
<1>4. \A i \in 1 .. Len(order) : Items[i] = Strip(blink_array[order[i]])
  BY DEF Items
<1> QED BY <1>1, <1>3, <1>4

(* The abstract list finds the place that mp1_find_helper finds.           *)
LEMMA FirstAt ==
  ASSUME BlinkInv, NEW loc
  PROVE  L!First(loc) = IF Located(loc) = {} THEN 0 ELSE LeastOf(Located(loc))
<1> DEFINE H == {i \in 1 .. Len(Items) : Items[i].location = loc}
<1>1. H = Located(loc)
  <2>1. \A i \in 1 .. Len(order) : Items[i].location = blink_array[order[i]].location
    <3>1. \A i \in 1 .. Len(order) : Strip(blink_array[order[i]]).location
                                       = blink_array[order[i]].location
      BY DEF Strip
    <3>2. \A i \in 1 .. Len(order) : Items[i] = Strip(blink_array[order[i]])
      BY ItemsTypes
    <3> QED BY <3>1, <3>2
  <2> QED BY <2>1, ItemsTypes DEF Located
<1>2. L!First(loc) = IF H = {} THEN 0 ELSE LeastOf(H)
  BY DEF L!First, Items, LeastOf
<1> HIDE DEF H
<1> QED BY <1>1, <1>2

LEMMA CountDown ==
  ASSUME NEW s \in Structs
  PROVE  /\ Elapsed(s.countdown) <=> L!Due(Strip(s))
         /\ L!Ticked(Strip(s)) = Strip(AfterTick(s))
         /\ Elapsed(s.countdown) => L!Shown(L!Ticked(Strip(s))) = Poke(s)
<1> DEFINE c == s.countdown
           b == Strip(s)
<1>1. c \in Periods /\ s.status \in Status
  BY DEF Structs
<1>2. b.countdown = c
  BY DEF Strip
<1>3. Elapsed(c) <=> c <= 1
  <2> HIDE DEF c
  <2>1. CASE c = 0
    BY <2>1 DEF Elapsed, Dec
  <2>2. CASE c # 0
    <3>1. c \in 1 .. 2^15
      BY <1>1, <2>2 DEF Periods
    <3>2. Dec(c) = c - 1
      BY <3>1 DEF Dec
    <3> QED BY <3>1, <3>2 DEF Elapsed
  <2> QED BY <2>1, <2>2
<1>4. Elapsed(c) <=> L!Due(b)
  BY <1>2, <1>3 DEF L!Due
<1>5. CASE Elapsed(c)
  <2> DEFINE d == IF s.status = 1 THEN s.off_length ELSE s.on_length
             e == 1 - s.status
  <2>1. AfterTick(s) = [s EXCEPT !.status = e, !.countdown = d]
    BY <1>5 DEF AfterTick
  <2>2. L!Ticked(b) = [b EXCEPT !.status = e, !.countdown = d]
    BY <1>4, <1>5 DEF L!Ticked, Strip
  <2>3. s.status = 1 \/ s.status = 0
    BY <1>1 DEF Status
  <2>4. (e = 1) <=> (s.status # 1)
    BY <2>3
  <2> HIDE DEF d, e
  <2> DEFINE a == [s EXCEPT !.status = e, !.countdown = d]
             same == [location |-> s.location, on_char |-> s.on_char,
                      off_char |-> s.off_char, on_length |-> s.on_length,
                      off_length |-> s.off_length, countdown |-> d, status |-> e]
  <2>5. L!Ticked(b) = Strip(AfterTick(s))
    <3>1. /\ a.location = s.location /\ a.on_char = s.on_char
          /\ a.off_char = s.off_char /\ a.on_length = s.on_length
          /\ a.off_length = s.off_length /\ a.countdown = d /\ a.status = e
      BY DEF Structs
    <3>2. Strip(a) = same
      <4> HIDE DEF a
      <4> QED BY <3>1 DEF Strip
    <3>3. L!Ticked(b) = same
      BY <2>2 DEF Strip
    <3> QED BY <2>1, <3>2, <3>3
  <2>6. L!Shown(L!Ticked(b)) = Poke(s)
    BY <2>2, <2>4 DEF L!Shown, Poke, Strip
  <2> QED BY <1>4, <2>5, <2>6
<1>6. CASE ~ Elapsed(c)
  <2>1. c \in 2 .. 2^15
    <3> HIDE DEF c
    <3> QED BY <1>1, <1>3, <1>6 DEF Periods
  <2>2. Dec(c) = c - 1
    <3> HIDE DEF c
    <3> QED BY <2>1 DEF Dec
  <2>3. AfterTick(s) = [s EXCEPT !.countdown = c - 1]
    BY <1>6, <2>2 DEF AfterTick
  <2>4. L!Ticked(b) = [b EXCEPT !.countdown = c - 1]
    BY <1>2, <1>4, <1>6 DEF L!Ticked, Strip
  <2> DEFINE d == c - 1
  <2> HIDE DEF d
  <2>5. AfterTick(s) = [s EXCEPT !.countdown = d] /\ L!Ticked(b) = [b EXCEPT !.countdown = d]
    BY <2>3, <2>4 DEF d
  <2>6. L!Ticked(b) = Strip(AfterTick(s))
    BY <2>5 DEF Strip, Structs
  <2> QED BY <1>4, <1>6, <2>6
<1> QED BY <1>5, <1>6

LEMMA RefinesInit == BlinkInit => L!BInit
<1> SUFFICES ASSUME BlinkInit PROVE L!BInit
  OBVIOUS
<1>1. order = <<>> /\ screen = [c \in 0 .. NumCells - 1 |-> " "]
  BY DEF BlinkInit
<1>2. Len(order) = 0 /\ 1 .. Len(order) = {}
  <2>1. order = <<>>
    BY <1>1
  <2>2. Len(order) = 0
    BY <2>1
  <2> QED BY <2>2
<1>3. Items = <<>>
  <2>1. Items \in Seq({}) /\ Len(Items) = 0
    BY <1>2 DEF Items
  <2> QED BY <2>1, EmptySeq
<1> QED BY <1>1, <1>3 DEF L!BInit, Items

LEMMA RefinesAdd ==
  ASSUME BlinkInv, BlinkInv', NEW t \in Templates, NEW loc \in Locations, Add(t, loc)
  PROVE  L!BAdd(t, loc)
<1> DEFINE p == Malloc
           n == Len(order)
           s == [location |-> loc, on_char |-> t.on_char, off_char |-> t.off_char,
                 on_length |-> t.on_length, off_length |-> t.off_length,
                 countdown |-> t.on_length, status |-> 1, next |-> mp1_list_head]
           it == L!Item(t, loc)
<1>1. /\ loc < NumCells /\ p # NULL
      /\ blink_array' = [blink_array EXCEPT ![p] = s]
      /\ order' = <<p>> \o order
      /\ screen' = [screen EXCEPT ![loc] = t.on_char]
  BY Zenon DEF Add
<1>2. p \in Ptrs /\ ~ InUse(p)
  BY <1>1, MallocFree
<1>3. order \in Seq(Ptrs) /\ n \in Nat /\ Distinct(order) /\ blink_array \in [Ptrs -> Structs]
  BY ListTypes DEF BlinkInv, Linked
<1>4. \A i \in 1 .. n : order[i] # p
  BY <1>2 DEF InUse
<1>5. Len(Items) < PoolSize
  BY <1>2, <1>3, <1>4, ListFits, ItemsTypes
<1>6. Strip(s) = it
  BY DEF Strip, L!Item
<1> HIDE DEF p, s, it
<1>7. /\ Len(order') = n + 1 /\ order'[1] = p
      /\ \A i \in 2 .. n + 1 : i - 1 \in 1 .. n /\ order'[i] = order[i - 1]
  BY <1>1, <1>2, <1>3, PrependTypes
<1>8. \A i \in 1 .. n : /\ blink_array'[order[i]] = blink_array[order[i]]
                        /\ Items[i] = Strip(blink_array[order[i]])
  BY <1>1, <1>3, <1>4, ItemsTypes
<1>9. blink_array'[p] = s
  BY <1>1, <1>2, <1>3
<1>10. Items' = [i \in 1 .. n + 1 |-> Strip(blink_array'[order'[i]])]
  BY <1>7 DEF Items, Strip
<1> DEFINE it1 == <<it>> \o Items
<1>11. /\ Items \in Seq(Bodies) /\ Len(Items) = n
  BY ItemsTypes
<1>12. it1 = [i \in 1 .. n + 1 |-> IF i = 1 THEN it ELSE Items[i - 1]]
  BY <1>3, <1>11
<1>13. \A i \in 1 .. n + 1 :
         Strip(blink_array'[order'[i]]) = IF i = 1 THEN it ELSE Items[i - 1]
  <2> SUFFICES ASSUME NEW i \in 1 .. n + 1
               PROVE  Strip(blink_array'[order'[i]]) = IF i = 1 THEN it ELSE Items[i - 1]
    OBVIOUS
  <2>1. CASE i = 1
    BY <2>1, <1>6, <1>7, <1>9
  <2>2. CASE i # 1
    <3>1. i \in 2 .. n + 1
      BY <2>2, <1>3
    <3>2. i - 1 \in 1 .. n /\ order'[i] = order[i - 1]
      BY <3>1, <1>7
    <3>3. Strip(blink_array'[order'[i]]) = Items[i - 1]
      BY <3>2, <1>8
    <3> QED BY <2>2, <3>3
  <2> QED BY <2>1, <2>2
<1>14. Items' = it1
  <2> HIDE DEF it1, n
  <2> QED BY <1>10, <1>12, <1>13
<1> QED BY <1>1, <1>5, <1>14 DEF L!BAdd, Items, it1, it

LEMMA ConcatParts ==
  ASSUME NEW S, NEW u \in Seq(S), NEW v \in Seq(S)
  PROVE  /\ Len(u) \in Nat /\ Len(v) \in Nat
         /\ u \o v = [i \in 1 .. Len(u) + Len(v) |->
                       IF i <= Len(u) THEN u[i] ELSE v[i - Len(u)]]
<1> DEFINE w == u \o v
           m == Len(u) + Len(v)
<1>1. Len(u) \in Nat /\ Len(v) \in Nat
  OBVIOUS
<1>2. /\ w \in Seq(S) /\ Len(w) = m
      /\ \A i \in 1 .. m : w[i] = IF i <= Len(u) THEN u[i] ELSE v[i - Len(u)]
  BY ConcatProperties
<1> HIDE DEF w
<1>3. w = [i \in 1 .. m |-> w[i]]
  <2>1. w = [i \in 1 .. Len(w) |-> w[i]]
    BY <1>2
  <2> QED BY <1>2, <2>1
<1> HIDE DEF m
<1> QED BY <1>1, <1>2, <1>3 DEF w, m

LEMMA RefinesRemove ==
  ASSUME BlinkInv, BlinkInv', NEW loc \in Locations, BlinkRemove(loc)
  PROVE  L!BRemove(loc)
<1> DEFINE k == LeastOf(Located(loc))
           n == Len(order)
<1>1. /\ Find(loc) # NULL /\ Unlink(Find(loc))
      /\ order' = Without(order, Find(loc))
      /\ UNCHANGED screen
  BY DEF BlinkRemove
<1>2. Located(loc) # {} /\ Find(loc) = order[k] /\ k \in 1 .. n
  BY <1>1, FindAt DEF Located
<1>3. L!First(loc) = k /\ k # 0
  BY <1>2, FirstAt
<1> HIDE DEF k
<1>4. order \in Seq(Ptrs) /\ n \in Nat /\ Distinct(order)
  BY ListTypes DEF BlinkInv, Linked
<1>5. /\ Len(order') = n - 1
      /\ \A i \in 1 .. n - 1 : i < k => order'[i] = order[i]
      /\ \A i \in 1 .. n - 1 : i >= k => order'[i] = order[i + 1]
  BY <1>1, <1>2, <1>4, WithoutAt
<1>6. \A i \in 1 .. n : i # k => /\ order[i] \in Ptrs /\ order[i] # order[k]
                                 /\ Items[i] = Strip(blink_array[order[i]])
  BY <1>2, <1>4, ItemsTypes DEF Distinct
<1>7. \A q \in Ptrs : q # order[k] => Strip(blink_array'[q]) = Strip(blink_array[q])
  <2> SUFFICES ASSUME NEW q \in Ptrs, q # order[k]
               PROVE  Strip(blink_array'[q]) = Strip(blink_array[q])
    OBVIOUS
  <2> DEFINE x == blink_array[order[k]].next
  <2>1. blink_array'[q] = blink_array[q] \/ blink_array'[q] = [blink_array[q] EXCEPT !.next = x]
    <3>1. Unlink(order[k])
      BY <1>1, <1>2
    <3> HIDE DEF n
    <3> QED BY <3>1 DEF Unlink
  <2>2. blink_array[q] \in Structs
    BY DEF BlinkInv
  <2> HIDE DEF x
  <2>3. Strip([blink_array[q] EXCEPT !.next = x]) = Strip(blink_array[q])
    BY <2>2 DEF Strip, Structs
  <2> QED BY <2>1, <2>3
<1>8. Items' = [i \in 1 .. n - 1 |-> Strip(blink_array'[order'[i]])]
  BY <1>5 DEF Items, Strip
<1>9. \A i \in 1 .. n - 1 : Strip(blink_array'[order'[i]])
                              = IF i < k THEN Items[i] ELSE Items[i + 1]
  <2> SUFFICES ASSUME NEW i \in 1 .. n - 1
               PROVE  Strip(blink_array'[order'[i]]) = IF i < k THEN Items[i] ELSE Items[i + 1]
    OBVIOUS
  <2>1. CASE i < k
    <3>1. i \in 1 .. n /\ i # k
      BY <2>1, <1>4
    <3> QED BY <3>1, <2>1, <1>5, <1>6, <1>7
  <2>2. CASE ~ (i < k)
    <3>1. i + 1 \in 1 .. n /\ i + 1 # k /\ i >= k
      BY <2>2, <1>2, <1>4
    <3> QED BY <3>1, <2>2, <1>5, <1>6, <1>7
  <2> QED BY <2>1, <2>2
<1>10. Items \in Seq(Bodies) /\ Len(Items) = n
  BY ItemsTypes
<1> DEFINE J == Items
<1>11. Items' = [i \in 1 .. n - 1 |-> IF i < k THEN J[i] ELSE J[i + 1]]
  <2> HIDE DEF n
  <2> QED BY <1>8, <1>9
<1> HIDE DEF J
<1>12. L!RemoveAt(J, k) = [i \in 1 .. n - 1 |-> IF i < k THEN J[i] ELSE J[i + 1]]
  <2>1. J \in Seq(Bodies) /\ Len(J) = n
    BY <1>10 DEF J
  <2> HIDE DEF n
  <2> DEFINE u == SubSeq(J, 1, k - 1)
             v == SubSeq(J, k + 1, n)
  <2>2. u \in Seq(Bodies) /\ Len(u) = k - 1 /\ \A i \in 1 .. k - 1 : u[i] = J[i]
    BY <2>1, <1>2, <1>4
  <2>3. v \in Seq(Bodies) /\ Len(v) = n - k /\ \A i \in 1 .. n - k : v[i] = J[i + k]
    BY <2>1, <1>2, <1>4
  <2>4. L!RemoveAt(J, k) = u \o v
    BY <2>1 DEF L!RemoveAt
  <2> HIDE DEF u, v
  <2>5. u \o v = [i \in 1 .. n - 1 |-> IF i <= k - 1 THEN u[i] ELSE v[i - (k - 1)]]
    <3>1. u \o v = [i \in 1 .. Len(u) + Len(v) |->
                     IF i <= Len(u) THEN u[i] ELSE v[i - Len(u)]]
      <4>1. u \in Seq(Bodies) /\ v \in Seq(Bodies)
        BY <2>2, <2>3
      <4> QED BY <4>1, ConcatParts, Zenon
    <3>2. Len(u) = k - 1 /\ Len(u) + Len(v) = n - 1
      BY <2>2, <2>3, <1>2, <1>4
    <3> QED BY <3>1, <3>2
  <2>6. \A i \in 1 .. n - 1 : (IF i <= k - 1 THEN u[i] ELSE v[i - (k - 1)])
                               = IF i < k THEN J[i] ELSE J[i + 1]
    <3> SUFFICES ASSUME NEW i \in 1 .. n - 1
                 PROVE  (IF i <= k - 1 THEN u[i] ELSE v[i - (k - 1)])
                          = IF i < k THEN J[i] ELSE J[i + 1]
      OBVIOUS
    <3>1. CASE i < k
      <4>1. i \in 1 .. k - 1 /\ i <= k - 1
        BY <3>1, <1>2, <1>4
      <4> QED BY <4>1, <3>1, <2>2
    <3>2. CASE ~ (i < k)
      <4>1. /\ i - (k - 1) \in 1 .. n - k /\ (i - (k - 1)) + k = i + 1
            /\ ~ (i <= k - 1)
        BY <3>2, <1>2, <1>4
      <4> QED BY <4>1, <3>2, <2>3
    <3> QED BY <3>1, <3>2
  <2> QED BY <2>4, <2>5, <2>6
<1>13. Items' = L!RemoveAt(Items, L!First(loc))
  BY <1>3, <1>11, <1>12 DEF J
<1> QED BY <1>1, <1>3, <1>13 DEF L!BRemove, Items

LEMMA RefinesSync ==
  ASSUME BlinkInv, BlinkInv', NEW a \in Locations, NEW b \in Locations, Sync(a, b)
  PROVE  L!BSync(a, b)
<1> DEFINE i == LeastOf(Located(a))
           k == LeastOf(Located(b))
           n == Len(order)
           p == order[i]
           q == order[k]
           s == blink_array[p]
           d == blink_array[q]
           body == [Strip(d) EXCEPT !.on_length = Strip(s).on_length,
                                    !.off_length = Strip(s).off_length,
                                    !.countdown = Strip(s).countdown,
                                    !.status = Strip(s).status]
<1>1. /\ Located(a) # {} /\ Located(b) # {} /\ p \in Ptrs /\ q \in Ptrs
      /\ blink_array' = [blink_array EXCEPT ![q] = Timed(d, s)]
      /\ screen' = [screen EXCEPT ![b] = d.off_char]
      /\ order' = order
  BY SyncStep
<1>2. i \in 1 .. n /\ k \in 1 .. n /\ i # 0 /\ k # 0
  <2>1. i \in Located(a) /\ k \in Located(b)
    BY <1>1, FindAt
  <2> HIDE DEF i, k
  <2>2. i \in 1 .. n /\ k \in 1 .. n
    BY <2>1 DEF Located
  <2> HIDE DEF n
  <2> QED BY <2>2
<1>3. L!First(a) = i /\ L!First(b) = k
  BY <1>1, FirstAt
<1>4. order \in Seq(Ptrs) /\ n \in Nat /\ Distinct(order) /\ blink_array \in [Ptrs -> Structs]
  BY ListTypes DEF BlinkInv, Linked
<1>5. Items[i] = Strip(s) /\ Items[k] = Strip(d) /\ s \in Structs /\ d \in Structs
  BY <1>2, ItemsTypes
<1>6. Strip(Timed(d, s)) = body
  <2> DEFINE e == Timed(d, s)
             same == [location |-> d.location, on_char |-> d.on_char,
                      off_char |-> d.off_char, on_length |-> s.on_length,
                      off_length |-> s.off_length, countdown |-> s.countdown,
                      status |-> s.status]
  <2> HIDE DEF s, d
  <2>1. /\ e.location = d.location /\ e.on_char = d.on_char
        /\ e.off_char = d.off_char /\ e.on_length = s.on_length
        /\ e.off_length = s.off_length /\ e.countdown = s.countdown
        /\ e.status = s.status
    BY <1>5 DEF Timed, Structs
  <2> HIDE DEF e
  <2>2. Strip(e) = same
    BY <2>1 DEF Strip
  <2>3. body = same
    <3>1. /\ Strip(s).on_length = s.on_length /\ Strip(s).off_length = s.off_length
          /\ Strip(s).countdown = s.countdown /\ Strip(s).status = s.status
      BY DEF Strip
    <3>2. body = [Strip(d) EXCEPT !.on_length = s.on_length, !.off_length = s.off_length,
                                  !.countdown = s.countdown, !.status = s.status]
      BY <3>1
    <3> HIDE DEF body
    <3> QED BY <3>2 DEF Strip
  <2> QED BY <2>2, <2>3 DEF e
<1>7. d.off_char = Strip(d).off_char
  BY DEF Strip
<1> HIDE DEF i, k, s, d, body
<1> DEFINE J == Items
<1>8. Items' = [j \in 1 .. n |-> Strip(blink_array'[order[j]])]
  BY <1>1 DEF Items, Strip
<1>9. \A j \in 1 .. n : Strip(blink_array'[order[j]]) = IF j = k THEN body ELSE J[j]
  <2> SUFFICES ASSUME NEW j \in 1 .. n
               PROVE  Strip(blink_array'[order[j]]) = IF j = k THEN body ELSE J[j]
    OBVIOUS
  <2>1. order[j] \in Ptrs /\ J[j] = Strip(blink_array[order[j]])
    BY ItemsTypes
  <2>2. CASE j = k
    BY <2>2, <1>1, <1>4, <1>6
  <2>3. CASE j # k
    <3>1. order[j] # q
      BY <2>3, <1>2, <1>4 DEF Distinct
    <3>2. blink_array'[order[j]] = blink_array[order[j]]
      BY <3>1, <2>1, <1>1, <1>4
    <3> QED BY <3>2, <2>1, <2>3
  <2> QED BY <2>2, <2>3
<1>10. J = [j \in 1 .. n |-> J[j]]
  BY DEF Items
<1> HIDE DEF J, q, p
<1>11. Items' = [J EXCEPT ![k] = body]
  <2>1. Items' = [j \in 1 .. n |-> IF j = k THEN body ELSE J[j]]
    <3> HIDE DEF n
    <3> QED BY <1>8, <1>9
  <2>2. [J EXCEPT ![k] = body] = [j \in 1 .. n |-> IF j = k THEN body ELSE J[j]]
    <3> HIDE DEF n
    <3> QED BY <1>10
  <2> QED BY <2>1, <2>2
<1>12. Items' = [Items EXCEPT ![k] =
          [Items[k] EXCEPT !.on_length = Items[i].on_length,
                           !.off_length = Items[i].off_length,
                           !.countdown = Items[i].countdown,
                           !.status = Items[i].status]]
  BY <1>5, <1>11 DEF body, J
<1>13. screen' = [screen EXCEPT ![b] = Items[k].off_char]
  BY <1>1, <1>5, <1>7
<1> QED BY <1>2, <1>3, <1>12, <1>13, Zenon DEF L!BSync, Items

(* Of the structures that are due at a place, the last one writes.         *)
LEMMA RefinesTasklet ==
  ASSUME BlinkInv, BlinkInv', Tasklet
  PROVE  L!BTick
<1> DEFINE n == Len(order)
           due(c) == {i \in 1 .. n : /\ blink_array[order[i]].location = c
                                      /\ Elapsed(blink_array[order[i]].countdown)}
           latest(S) == CHOOSE i \in S : \A j \in S : j <= i
           Due(c) == {i \in 1 .. Len(Items) : Items[i].location = c /\ L!Due(Items[i])}
           old(c) == IF due(c) = {} THEN screen[c]
                     ELSE Poke(blink_array[order[latest(due(c))]])
           new(c) == IF Due(c) = {} THEN screen[c]
                     ELSE L!Shown(L!Ticked(Items[latest(Due(c))]))
<1>1. /\ blink_array' = [p \in Ptrs |->
           IF p \in Members(order) THEN AfterTick(blink_array[p]) ELSE blink_array[p]]
      /\ screen' = [c \in 0 .. NumCells - 1 |-> old(c)]
      /\ order' = order
  <2> DEFINE S(list, c) == {i \in 1 .. Len(list) :
                              /\ blink_array[list[i]].location = c
                              /\ Elapsed(blink_array[list[i]].countdown)}
             shown(list, c) == IF S(list, c) = {} THEN screen[c]
                               ELSE Poke(blink_array[list[latest(S(list, c))]])
  <2>1. PICK list \in {List} :
          /\ blink_array' = [p \in Ptrs |->
               IF p \in Members(list) THEN AfterTick(blink_array[p]) ELSE blink_array[p]]
          /\ screen' = [c \in 0 .. NumCells - 1 |-> shown(list, c)]
          /\ order' = order
    BY Zenon DEF Tasklet
  <2>2. list = order
    BY ListIsOrder, Zenon
  <2>3. \A c : shown(order, c) = old(c)
    BY Zenon
  <2> HIDE DEF shown, old
  <2> QED BY <2>1, <2>2, <2>3
<1>2. /\ Len(Items) = n /\ n \in Nat
      /\ \A i \in 1 .. n : /\ order[i] \in Ptrs /\ blink_array[order[i]] \in Structs
                            /\ Items[i] = Strip(blink_array[order[i]])
  BY ItemsTypes
<1>3. \A i \in 1 .. n :
        /\ Items[i].location = blink_array[order[i]].location
        /\ Elapsed(blink_array[order[i]].countdown) <=> L!Due(Items[i])
        /\ L!Ticked(Items[i]) = Strip(AfterTick(blink_array[order[i]]))
        /\ Elapsed(blink_array[order[i]].countdown)
             => L!Shown(L!Ticked(Items[i])) = Poke(blink_array[order[i]])
  <2> SUFFICES ASSUME NEW i \in 1 .. n
               PROVE  /\ Items[i].location = blink_array[order[i]].location
                      /\ Elapsed(blink_array[order[i]].countdown) <=> L!Due(Items[i])
                      /\ L!Ticked(Items[i]) = Strip(AfterTick(blink_array[order[i]]))
                      /\ Elapsed(blink_array[order[i]].countdown)
                           => L!Shown(L!Ticked(Items[i])) = Poke(blink_array[order[i]])
    OBVIOUS
  <2> DEFINE s == blink_array[order[i]]
  <2>1. s \in Structs /\ Items[i] = Strip(s)
    BY <1>2
  <2>2. Strip(s).location = s.location
    BY DEF Strip
  <2> HIDE DEF s
  <2>3. /\ Items[i].location = s.location
        /\ Elapsed(s.countdown) <=> L!Due(Items[i])
        /\ L!Ticked(Items[i]) = Strip(AfterTick(s))
        /\ Elapsed(s.countdown) => L!Shown(L!Ticked(Items[i])) = Poke(s)
    BY <2>1, <2>2, CountDown
  <2> QED BY <2>3 DEF s
<1>4. \A c : due(c) = Due(c)
  BY <1>2, <1>3
<1>5. \A c : due(c) # {} => latest(due(c)) \in due(c)
  <2> SUFFICES ASSUME NEW c, due(c) # {} PROVE latest(due(c)) \in due(c)
    OBVIOUS
  <2> DEFINE D == due(c)
             T == {m \in Nat : n - m \in D}
  <2>1. D \subseteq 1 .. n /\ D # {}
    OBVIOUS
  <2> HIDE DEF D
  <2>2. PICK x \in D : TRUE
    BY <2>1
  <2>3. n - x \in Nat /\ n - (n - x) = x
    BY <1>2, <2>1, <2>2
  <2>4. n - x \in T
    BY <2>2, <2>3
  <2>5. PICK m \in T : \A y \in T : m <= y
    BY <2>4, LeastNat
  <2>6. \A y \in D : y <= n - m
    <3> SUFFICES ASSUME NEW y \in D PROVE y <= n - m
      OBVIOUS
    <3>1. n - y \in Nat /\ n - (n - y) = y /\ y \in Nat
      BY <1>2, <2>1
    <3>2. n - y \in T
      BY <3>1
    <3>3. m <= n - y /\ m \in Nat
      BY <2>5, <3>2
    <3> QED BY <1>2, <3>1, <3>3
  <2>7. n - m \in D
    BY <2>5
  <2>8. \E z \in D : \A y \in D : y <= z
    BY <2>6, <2>7
  <2>9. latest(D) \in D
    BY <2>8, Zenon
  <2> QED BY <2>9 DEF D
<1>6. \A c : old(c) = new(c)
  <2> SUFFICES ASSUME NEW c PROVE old(c) = new(c)
    OBVIOUS
  <2>1. due(c) = Due(c)
    BY <1>4
  <2>2. CASE due(c) = {}
    BY <2>1, <2>2
  <2>3. CASE due(c) # {}
    <3> DEFINE i == latest(due(c))
    <3>1. i \in due(c)
      BY <1>5, <2>3
    <3>2. i \in 1 .. n /\ Elapsed(blink_array[order[i]].countdown)
      BY <3>1
    <3>3. latest(Due(c)) = i
      BY <2>1
    <3>4. L!Shown(L!Ticked(Items[i])) = Poke(blink_array[order[i]])
      <4> HIDE DEF i
      <4> QED BY <3>2, <1>3
    <3> HIDE DEF i
    <3>5. old(c) = Poke(blink_array[order[i]])
      BY <2>3 DEF i
    <3>6. new(c) = L!Shown(L!Ticked(Items[i]))
      BY <2>1, <2>3, <3>3
    <3> QED BY <3>4, <3>5, <3>6
  <2> QED BY <2>2, <2>3
<1>7. Items' = [i \in 1 .. n |-> Strip(blink_array'[order[i]])]
  BY <1>1 DEF Items, Strip
<1>8. \A i \in 1 .. n : Strip(blink_array'[order[i]]) = L!Ticked(Items[i])
  <2> SUFFICES ASSUME NEW i \in 1 .. n
               PROVE  Strip(blink_array'[order[i]]) = L!Ticked(Items[i])
    OBVIOUS
  <2>1. order[i] \in Ptrs /\ order[i] \in Members(order)
    BY <1>2 DEF Members
  <2>2. blink_array'[order[i]] = AfterTick(blink_array[order[i]])
    BY <2>1, <1>1
  <2> QED BY <2>2, <1>3
<1>9. Items' = [i \in 1 .. Len(Items) |-> L!Ticked(Items[i])]
  <2>1. Items' = [i \in 1 .. n |-> L!Ticked(Items[i])]
    <3> HIDE DEF n
    <3> QED BY <1>7, <1>8
  <2> QED BY <2>1, <1>2
<1>10. screen' = [c \in 0 .. NumCells - 1 |-> new(c)]
  <2> HIDE DEF old, new
  <2> QED BY <1>1, <1>6
<1> QED BY <1>9, <1>10, Zenon DEF L!BTick, Items

LEMMA RefinesStep ==
  ASSUME BlinkInv, BlinkInv', [BlinkNext]_bvars
  PROVE  [L!BNext]_(L!bvars)
<1>1. CASE \E t \in Templates, loc \in Locations : Add(t, loc)
  BY <1>1, RefinesAdd DEF L!BNext
<1>2. CASE \E loc \in Locations : BlinkRemove(loc)
  BY <1>2, RefinesRemove DEF L!BNext
<1>3. CASE \E a, b \in Locations : Sync(a, b)
  BY <1>3, RefinesSync DEF L!BNext
<1>4. CASE Tasklet
  BY <1>4, RefinesTasklet DEF L!BNext
<1>5. CASE UNCHANGED bvars
  BY <1>5 DEF bvars, L!bvars, Strip
<1> QED BY <1>1, <1>2, <1>3, <1>4, <1>5 DEF BlinkNext

(* blink.S with the structures of blink_array implements the list of       *)
(* blinking characters.                                                    *)
THEOREM BlinkImplementsList == BlinkSpec => ListSpec
<1> QED BY RefinesInit, RefinesStep, BlinkInvAlways, PTL
        DEF BlinkSpec, ListSpec, L!BSpec

-----------------------------------------------------------------------------
(* Command lines: what the cells of memory spell.                          *)

Names == Seq(Nat \ {NUL})
Lines1 == Seq(Letters \cup {SP})

(* A text without a NUL.                                                   *)
Plain(name) == Len(name) \in Nat /\ \A j \in 1 .. Len(name) : name[j] # NUL

(* The cells of s hold name and a NUL.                                     *)
Spells(s, name) ==
  /\ Plain(name)
  /\ DOMAIN s \subseteq Nat /\ Len(name) \in DOMAIN s
  /\ \A j \in 0 .. Len(name) - 1 : s[j] = name[j + 1]
  /\ s[Len(name)] = NUL

LEMMA SpelledNotNul ==
  ASSUME NEW s, NEW name, Spells(s, name)
  PROVE  \A j \in 0 .. Len(name) - 1 : s[j] # NUL /\ s[j] = name[j + 1]
<1> SUFFICES ASSUME NEW j \in 0 .. Len(name) - 1
             PROVE  s[j] # NUL /\ s[j] = name[j + 1]
  OBVIOUS
<1>1. Len(name) \in Nat
  BY DEF Spells, Plain
<1>2. j + 1 \in 1 .. Len(name)
  BY <1>1
<1> QED BY <1>2 DEF Spells, Plain

LEMMA StrlenSpelled ==
  ASSUME NEW s, NEW name, Spells(s, name)
  PROVE  strlen(s) = Len(name)
<1> DEFINE P(i) == s[i] = NUL /\ \A j \in 0 .. i - 1 : s[j] # NUL
           n == Len(name)
           r == strlen(s)
<1>1. n \in Nat /\ n \in DOMAIN s /\ DOMAIN s \subseteq Nat /\ s[n] = NUL
  BY DEF Spells, Plain
<1>2. \A j \in 0 .. n - 1 : s[j] # NUL
  BY SpelledNotNul
<1>3. P(n)
  BY <1>1, <1>2
<1>4. r = CHOOSE i \in DOMAIN s : P(i)
  BY DEF strlen
<1> HIDE DEF P, n, r
<1>5. r \in DOMAIN s /\ P(r)
  BY <1>1, <1>3, <1>4, Zenon
<1>6. r \in Nat
  BY <1>1, <1>5
<1>7. CASE r < n
  <2>1. r \in 0 .. n - 1
    BY <1>1, <1>6, <1>7
  <2> QED BY <2>1, <1>2, <1>5 DEF P
<1>8. CASE n < r
  <2>1. n \in 0 .. r - 1
    BY <1>1, <1>6, <1>8
  <2> QED BY <2>1, <1>1, <1>5 DEF P
<1>9. CASE ~ (r < n) /\ ~ (n < r)
  <2>1. r = n
    BY <1>1, <1>6, <1>9
  <2> QED BY <2>1 DEF r, n
<1> QED BY <1>7, <1>8, <1>9

(* The place that IndexOf finds.                                           *)
LEMMA IndexIs ==
  ASSUME NEW s, NEW c, NEW n \in Nat, NEW k \in 0 .. n,
         k < n => s[k] = c, \A j \in 0 .. k - 1 : s[j] # c
  PROVE  IndexOf(s, c, n) = k
<1> DEFINE P(i) == (i < n => s[i] = c) /\ \A j \in 0 .. i - 1 : s[j] # c
           r == IndexOf(s, c, n)
<1>1. P(k)
  OBVIOUS
<1>2. r = CHOOSE i \in 0 .. n : P(i)
  BY DEF IndexOf
<1> HIDE DEF P, r
<1>3. r \in 0 .. n /\ P(r)
  BY <1>1, <1>2, Zenon
<1>4. CASE r < k
  <2>1. r \in 0 .. k - 1 /\ r < n
    BY <1>3, <1>4
  <2> QED BY <2>1, <1>1, <1>3 DEF P
<1>5. CASE k < r
  <2>1. k \in 0 .. r - 1 /\ k < n
    BY <1>3, <1>5
  <2> QED BY <2>1, <1>1, <1>3 DEF P
<1>6. CASE ~ (r < k) /\ ~ (k < r)
  <2>1. r = k
    BY <1>3, <1>6
  <2> QED BY <2>1 DEF r
<1> QED BY <1>4, <1>5, <1>6

LEMMA DirectoryFacts ==
  /\ NameLen \in Nat /\ MaxSlots \in Nat /\ MaxSlots > 0
  /\ MaxLine \in Nat /\ ArgLen \in Nat /\ MaxLine < ArgLen
  /\ Len(Directory) \in Nat
  /\ \A i \in 1 .. Len(Directory) :
       /\ Directory[i] \in Names /\ Plain(Directory[i])
       /\ Len(Directory[i]) \in 1 .. NameLen
       /\ \A j \in 1 .. Len(Directory) : Directory[i] = Directory[j] => i = j
<1>1. /\ NameLen \in Nat /\ MaxSlots \in Nat /\ MaxSlots # 0
      /\ MaxLine \in Nat /\ ArgLen \in Nat /\ MaxLine < ArgLen
      /\ Directory \in Seq(Names)
      /\ \A i \in 1 .. Len(Directory) :
           /\ Len(Directory[i]) \in 1 .. NameLen
           /\ \A j \in 1 .. Len(Directory) : Directory[i] = Directory[j] => i = j
  BY CommandsAssumption, Zenon DEF Names
<1>2. MaxSlots > 0 /\ Len(Directory) \in Nat
  BY <1>1
<1>3. \A i \in 1 .. Len(Directory) : Directory[i] \in Names
  BY <1>1
<1>4. \A d \in Names : Plain(d)
  BY DEF Names, Plain
<1> QED BY <1>1, <1>2, <1>3, <1>4, Zenon

(* A name in the directory, with or without a NUL in its field.            *)
LEMMA FilenameCells ==
  ASSUME NEW i \in 1 .. Len(Directory)
  PROVE  /\ \A k \in 0 .. NameLen - 1 :
              Filename(i)[k] = IF k < Len(Directory[i]) THEN Directory[i][k + 1] ELSE NUL
         /\ IndexOf(Filename(i), NUL, NameLen) = Len(Directory[i])
<1> DEFINE d == Directory[i]
           n == Len(d)
           f == Filename(i)
<1>1. NameLen \in Nat /\ n \in 1 .. NameLen /\ Plain(d)
  BY DirectoryFacts
<1>2. \A k \in 0 .. NameLen - 1 : f[k] = IF k < n THEN d[k + 1] ELSE NUL
  BY DEF Filename, Cells
<1> HIDE DEF f, n, d
<1>3. n \in 0 .. NameLen
  BY <1>1
<1>4. n < NameLen => f[n] = NUL
  BY <1>1, <1>2
<1>5. \A j \in 0 .. n - 1 : f[j] # NUL
  <2> SUFFICES ASSUME NEW j \in 0 .. n - 1 PROVE f[j] # NUL
    OBVIOUS
  <2>1. j \in 0 .. NameLen - 1 /\ j < n /\ j + 1 \in 1 .. n
    BY <1>1
  <2>2. d[j + 1] # NUL
    BY <2>1, <1>1 DEF Plain, n
  <2> QED BY <2>1, <2>2, <1>2
<1>6. IndexOf(f, NUL, NameLen) = n
  BY <1>1, <1>3, <1>4, <1>5, IndexIs
<1> QED BY <1>2, <1>6 DEF f, n, d

(* Lengths and strncmp decide equality of names.                           *)
LEMMA SameNameIff ==
  ASSUME NEW fname, NEW S, NEW name \in Seq(S), Spells(fname, name),
         NEW i \in 1 .. Len(Directory)
  PROVE  SameName(fname, i) <=> Directory[i] = name
<1> DEFINE d == Directory[i]
           n == Len(d)
           f == Filename(i)
<1>1. /\ NameLen \in Nat /\ n \in 1 .. NameLen /\ Plain(d) /\ d \in Names
  BY DirectoryFacts
<1>2. \A k \in 0 .. NameLen - 1 : f[k] = IF k < n THEN d[k + 1] ELSE NUL
  BY FilenameCells
<1>3. SameName(fname, i) <=> (Len(name) = n /\ strncmp_equal(fname, f, n))
  BY FilenameCells, StrlenSpelled DEF SameName
<1>4. \A j \in 0 .. Len(name) - 1 : fname[j] # NUL /\ fname[j] = name[j + 1]
  BY SpelledNotNul
<1>5. \A k \in 0 .. n - 1 : f[k] = d[k + 1] /\ k + 1 \in 1 .. n
  <2> HIDE DEF f, n, d
  <2>1. \A k \in 0 .. n - 1 : k \in 0 .. NameLen - 1 /\ k < n /\ k + 1 \in 1 .. n
    BY <1>1
  <2> QED BY <1>2, <2>1
<1>6. strncmp_equal(fname, f, n) <=>
        \A k \in 0 .. n - 1 :
          (\A j \in 0 .. k - 1 : fname[j] = f[j] /\ fname[j] # NUL) => fname[k] = f[k]
  BY DEF strncmp_equal
<1> HIDE DEF f
<1>7. ASSUME d = name PROVE SameName(fname, i)
  <2>1. Len(name) = n
    BY <1>7
  <2>2. \A k \in 0 .. n - 1 : fname[k] = f[k]
    BY <2>1, <1>4, <1>5, <1>7
  <2> QED BY <2>1, <2>2, <1>3, <1>6
<1>8. ASSUME SameName(fname, i) PROVE d = name
  <2>1. Len(name) = n /\ strncmp_equal(fname, f, n)
    BY <1>3, <1>8
  <2> DEFINE T == {k \in Nat : k \in 0 .. n - 1 /\ fname[k] # f[k]}
  <2>2. T = {}
    <3> SUFFICES ASSUME T # {} PROVE FALSE
      OBVIOUS
    <3>1. PICK k \in T : \A m \in T : k <= m
      BY LeastNat
    <3>2. k \in 0 .. n - 1 /\ k \in Nat /\ fname[k] # f[k]
      OBVIOUS
    <3>3. \A j \in 0 .. n - 1 : j \notin T => fname[j] = f[j]
      OBVIOUS
    <3> HIDE DEF T
    <3>4. \A j \in 0 .. k - 1 : fname[j] = f[j] /\ fname[j] # NUL
      <4> SUFFICES ASSUME NEW j \in 0 .. k - 1
                   PROVE  fname[j] = f[j] /\ fname[j] # NUL
        OBVIOUS
      <4>1. j \in 0 .. n - 1 /\ ~ (k <= j)
        BY <3>2, <1>1
      <4>2. fname[j] = f[j]
        BY <4>1, <3>1, <3>3
      <4>3. fname[j] # NUL
        BY <4>1, <2>1, <1>4
      <4> QED BY <4>2, <4>3
    <3> QED BY <3>2, <3>4, <2>1, <1>6
  <2>3. \A k \in 0 .. n - 1 : fname[k] = f[k]
    BY <2>2
  <2> HIDE DEF T
  <2>4. \A m \in 1 .. n : d[m] = name[m]
    <3> SUFFICES ASSUME NEW m \in 1 .. n PROVE d[m] = name[m]
      OBVIOUS
    <3>1. m - 1 \in 0 .. n - 1 /\ (m - 1) + 1 = m
      BY <1>1
    <3>2. fname[m - 1] = f[m - 1] /\ f[m - 1] = d[(m - 1) + 1]
          /\ fname[m - 1] = name[(m - 1) + 1]
      BY <3>1, <2>1, <2>3, <1>4, <1>5
    <3> QED BY <3>1, <3>2
  <2>5. n \in Nat /\ d = [m \in 1 .. n |-> d[m]] /\ name = [m \in 1 .. n |-> name[m]]
    <3>1. d = [m \in 1 .. Len(d) |-> d[m]]
      BY <1>1 DEF Names
    <3>2. name = [m \in 1 .. Len(name) |-> name[m]]
      OBVIOUS
    <3>3. n \in Nat
      BY <1>1
    <3> QED BY <2>1, <3>1, <3>2, <3>3
  <2> HIDE DEF n, d
  <2> QED BY <2>4, <2>5
<1> QED BY <1>7, <1>8

(* read_dentry_by_name finds the entry with the name that is spelled.      *)
LEMMA FoundByName ==
  ASSUME NEW fname, NEW S, NEW name \in Seq(S), Spells(fname, name)
  PROVE  read_dentry_by_name(fname) = EntryNamed(name)
<1> DEFINE hits == {i \in 1 .. Len(Directory) : SameName(fname, i)}
           same == {i \in 1 .. Len(Directory) : Directory[i] = name}
<1>1. hits = same
  BY SameNameIff
<1>2. read_dentry_by_name(fname) = IF hits = {} THEN 0 ELSE LeastOf(hits)
  BY DEF read_dentry_by_name, LeastOf
<1>3. EntryNamed(name) = IF same # {} THEN LeastOf(same) ELSE 0
  BY DEF EntryNamed, SelectInSeq, Min, LeastOf
<1> HIDE DEF hits, same
<1> QED BY <1>1, <1>2, <1>3

(* A line that is typed, as a text and in memory.                          *)
LEMMA TypedLine ==
  ASSUME NEW n \in Lengths, NEW text \in [1 .. n -> Letters \cup {SP}]
  PROVE  text \in Lines1 /\ Len(text) = n /\ Len(text) \in 1 .. MaxLine /\ Plain(text)
<1>1. MaxLine \in Nat /\ n \in 1 .. MaxLine
  BY DirectoryFacts DEF Lengths
<1>2. text \in Lines1 /\ Len(text) = n
  BY <1>1 DEF Lines1
<1>3. NUL \notin Letters \cup {SP}
  <2>1. NUL \notin Letters
    BY CommandsAssumption, Zenon
  <2>2. NUL # SP
    BY DEF NUL, SP
  <2> QED BY <2>1, <2>2
<1>4. Plain(text)
  BY <1>1, <1>2, <1>3 DEF Plain
<1> QED BY <1>1, <1>2, <1>4

Fitting(text) == text \in Lines1 /\ Len(text) \in 1 .. MaxLine /\ Plain(text)

LEMMA LineSpelled ==
  ASSUME NEW text, Fitting(text)
  PROVE  Spells(Cells(text, MaxLine + 1), text)
<1> DEFINE c == Cells(text, MaxLine + 1)
           n == Len(text)
<1>1. MaxLine \in Nat /\ n \in 1 .. MaxLine /\ Plain(text)
  BY DirectoryFacts DEF Fitting
<1>2. DOMAIN c = 0 .. MaxLine
      /\ \A i \in 0 .. MaxLine : c[i] = IF i < n THEN text[i + 1] ELSE NUL
  BY <1>1 DEF Cells
<1> HIDE DEF c
<1>3. DOMAIN c \subseteq Nat /\ n \in DOMAIN c /\ c[n] = NUL
  BY <1>1, <1>2
<1>4. \A j \in 0 .. n - 1 : c[j] = text[j + 1]
  BY <1>1, <1>2
<1> QED BY <1>1, <1>3, <1>4 DEF Spells, c

Space(text) == IndexOf(Cells(text, MaxLine + 1), SP, Len(text))

(* sys_execute stops at the first space, if there is one.                  *)
LEMMA SpaceFound ==
  ASSUME NEW text, Fitting(text)
  PROVE  \/ FirstSpace(text) = 0 /\ Space(text) = Len(text)
         \/ /\ FirstSpace(text) = Space(text) + 1
            /\ Space(text) \in 0 .. Len(text) - 1
<1> DEFINE c == Cells(text, MaxLine + 1)
           n == Len(text)
           S == {i \in 1 .. n : text[i] = SP}
<1>1. n \in Nat
  BY DEF Fitting, Plain
<1>2. \A j \in 0 .. n - 1 : c[j] = text[j + 1]
  BY LineSpelled DEF Spells
<1>3. FirstSpace(text) = IF S # {} THEN LeastOf(S) ELSE 0
  BY DEF FirstSpace, SelectInSeq, Min, LeastOf
<1>4. Space(text) = IndexOf(c, SP, n)
  BY DEF Space
<1>5. CASE S = {}
  <2>1. \A j \in 0 .. n - 1 : c[j] # SP
    <3> SUFFICES ASSUME NEW j \in 0 .. n - 1 PROVE c[j] # SP
      OBVIOUS
    <3>1. j + 1 \in 1 .. n /\ j + 1 \notin S
      BY <1>1, <1>5
    <3> QED BY <3>1, <1>2
  <2> HIDE DEF S, c, n
  <2>2. n \in 0 .. n
    BY <1>1
  <2>3. IndexOf(c, SP, n) = n
    <3>1. ~ (n < n)
      BY <1>1
    <3> QED BY <3>1, <1>1, <2>1, <2>2, IndexIs
  <2> QED BY <1>3, <1>4, <1>5, <2>3 DEF n
<1>6. CASE S # {}
  <2> DEFINE k == LeastOf(S)
  <2>1. S \in SUBSET Nat
    BY <1>1
  <2>2. k \in S /\ \A j \in S : k <= j
    BY <1>6, <2>1, LeastIn
  <2>3. k \in 1 .. n /\ text[k] = SP
    BY <2>2
  <2>4. \A j \in 1 .. n : text[j] = SP => k <= j
    BY <2>2
  <2> HIDE DEF k, S, c
  <2>5. k - 1 \in 0 .. n /\ k - 1 \in 0 .. n - 1 /\ (k - 1) + 1 = k
    BY <1>1, <2>3
  <2>6. c[k - 1] = SP
    BY <2>3, <2>5, <1>2
  <2>7. \A j \in 0 .. (k - 1) - 1 : c[j] # SP
    <3> SUFFICES ASSUME NEW j \in 0 .. (k - 1) - 1 PROVE c[j] # SP
      OBVIOUS
    <3>1. j + 1 \in 1 .. n /\ j \in 0 .. n - 1 /\ ~ (k <= j + 1)
      BY <1>1, <2>3
    <3> QED BY <3>1, <2>4, <1>2
  <2>8. IndexOf(c, SP, n) = k - 1
    BY <1>1, <2>5, <2>6, <2>7, IndexIs
  <2> QED BY <1>3, <1>4, <1>6, <2>5, <2>8 DEF k
<1> QED BY <1>5, <1>6

LEMMA Parts ==
  ASSUME NEW text, Fitting(text), NEW a \in Nat, NEW b \in Nat,
         1 <= a, a <= b + 1, b <= Len(text)
  PROVE  LET w == SubSeq(text, a, b) IN
         /\ w \in Lines1 /\ Plain(w) /\ Len(w) = b + 1 - a
         /\ \A j \in 1 .. b + 1 - a : w[j] = text[a + j - 1]
<1> DEFINE w == SubSeq(text, a, b)
<1>1. text \in Lines1 /\ Len(text) \in Nat
      /\ \A j \in 1 .. Len(text) : text[j] # NUL
  BY DEF Fitting, Plain
<1>2. w \in Lines1 /\ Len(w) = b + 1 - a
      /\ \A j \in 1 .. b + 1 - a : w[j] = text[a + j - 1]
  <2>1. text \in Seq(Letters \cup {SP})
    BY <1>1 DEF Lines1
  <2>2. w = [j \in 1 .. b + 1 - a |-> text[a + j - 1]]
    BY <2>1, <1>1
  <2>3. \A j \in 1 .. b + 1 - a : a + j - 1 \in 1 .. Len(text)
    BY <1>1
  <2>4. \A j \in 1 .. b + 1 - a : text[a + j - 1] \in Letters \cup {SP}
    BY <2>1, <2>3
  <2>5. b + 1 - a \in Nat
    OBVIOUS
  <2> HIDE DEF w
  <2>6. w \in [1 .. b + 1 - a -> Letters \cup {SP}]
    BY <2>2, <2>4
  <2>7. \A j \in 1 .. b + 1 - a : w[j] = text[a + j - 1]
    BY <2>2
  <2> QED BY <2>5, <2>6, <2>7 DEF Lines1
<1>3. Plain(w)
  <2>1. \A j \in 1 .. b + 1 - a : a + j - 1 \in 1 .. Len(text)
    BY <1>1
  <2>2. b + 1 - a \in Nat
    OBVIOUS
  <2> HIDE DEF w
  <2> QED BY <1>1, <1>2, <2>1, <2>2 DEF Plain
<1> QED BY <1>2, <1>3

(* The buffer with the name of the program.                                *)
LEMMA WordSpelled ==
  ASSUME NEW text, Fitting(text)
  PROVE  /\ Word(text) \in Lines1
         /\ Spells(ArgBuffer(Cells(text, MaxLine + 1), Space(text)), Word(text))
<1> DEFINE c == Cells(text, MaxLine + 1)
           n == Len(text)
           s == Space(text)
           a == ArgBuffer(c, s)
           w == Word(text)
<1>1. n \in Nat /\ n \in 1 .. MaxLine /\ Plain(text) /\ text \in Lines1
  BY DirectoryFacts DEF Fitting, Plain
<1>2. \A j \in 0 .. n - 1 : c[j] = text[j + 1]
  BY LineSpelled DEF Spells
<1>3. s \in Nat /\ s <= n
  BY <1>1, SpaceFound
<1>4. /\ w \in Lines1 /\ Plain(w) /\ Len(w) = s
      /\ \A j \in 1 .. s : w[j] = text[j]
  <2>1. CASE FirstSpace(text) = 0
    <3>1. s = n
      BY <2>1, <1>1, SpaceFound
    <3>2. w = text
      BY <2>1 DEF Word
    <3> HIDE DEF w, s
    <3> QED BY <3>1, <3>2, <1>1
  <2>2. CASE FirstSpace(text) # 0
    <3>1. FirstSpace(text) = s + 1
      BY <2>2, SpaceFound
    <3>2. w = SubSeq(text, 1, s)
      <4>1. (s + 1) - 1 = s
        BY <1>3
      <4> QED BY <3>1, <2>2, <4>1, Zenon DEF Word
    <3> HIDE DEF w, s
    <3>3. 1 <= s + 1 /\ s + 1 - 1 = s
      BY <1>3
    <3>4. /\ w \in Lines1 /\ Plain(w) /\ Len(w) = s + 1 - 1
          /\ \A j \in 1 .. s + 1 - 1 : w[j] = text[1 + j - 1]
      BY <1>1, <1>3, <3>2, <3>3, Parts
    <3>5. \A j \in 1 .. s : 1 + j - 1 = j
      BY <1>3
    <3> QED BY <3>3, <3>4, <3>5
  <2> QED BY <2>1, <2>2
<1>5. DOMAIN a = 0 .. s /\ \A i \in 0 .. s : a[i] = IF i < s THEN c[i] ELSE NUL
  BY DEF ArgBuffer
<1> HIDE DEF w, s, c, a, n
<1>6. DOMAIN a \subseteq Nat /\ s \in DOMAIN a /\ a[s] = NUL
  BY <1>3, <1>5
<1>7. \A j \in 0 .. s - 1 : a[j] = w[j + 1]
  <2> SUFFICES ASSUME NEW j \in 0 .. s - 1 PROVE a[j] = w[j + 1]
    OBVIOUS
  <2>1. j \in 0 .. s /\ j < s /\ j \in 0 .. n - 1 /\ j + 1 \in 1 .. s
    BY <1>1, <1>3
  <2> QED BY <2>1, <1>2, <1>4, <1>5
<1>8. Spells(a, w)
  BY <1>4, <1>6, <1>7 DEF Spells
<1> QED BY <1>4, <1>8 DEF w, s, c, a

(* The argument that the slot of the program gets.                         *)
LEMMA RestSpelled ==
  ASSUME NEW text, Fitting(text), FirstSpace(text) # 0, NEW old
  PROVE  /\ Rest(text) \in Lines1
         /\ Spells(StoredArgument(old, Cells(text, MaxLine + 1), Space(text)), Rest(text))
<1> DEFINE c == Cells(text, MaxLine + 1)
           n == Len(text)
           s == Space(text)
           a == StoredArgument(old, c, s)
           w == Rest(text)
           k == n - (s + 1)
<1>1. /\ n \in Nat /\ n \in 1 .. MaxLine /\ Plain(text) /\ text \in Lines1
      /\ MaxLine \in Nat /\ ArgLen \in Nat /\ MaxLine < ArgLen
  BY DirectoryFacts DEF Fitting, Plain
<1>2. \A j \in 0 .. n - 1 : c[j] = text[j + 1]
  BY LineSpelled DEF Spells
<1>3. FirstSpace(text) = s + 1 /\ s \in 0 .. n - 1
  BY SpaceFound
<1>4. strlen(c) = n
  BY LineSpelled, StrlenSpelled
<1>5. DOMAIN a = 0 .. ArgLen - 1
      /\ \A j \in 0 .. ArgLen - 1 :
           a[j] = IF j < k THEN c[j + s + 1] ELSE IF j = k THEN NUL ELSE old[j]
  BY <1>4 DEF StoredArgument
<1>6. w = SubSeq(text, (s + 1) + 1, n)
  BY <1>3, Zenon DEF Rest
<1> HIDE DEF w, s, c, a, n
<1>7. /\ k \in Nat /\ k \in 0 .. ArgLen - 1
      /\ (s + 1) + 1 \in Nat /\ 1 <= (s + 1) + 1 /\ (s + 1) + 1 <= n + 1 /\ n <= n
      /\ n + 1 - ((s + 1) + 1) = k
  BY <1>1, <1>3
<1>8. /\ w \in Lines1 /\ Plain(w) /\ Len(w) = k
      /\ \A j \in 1 .. k : w[j] = text[(s + 1) + 1 + j - 1]
  <2> HIDE DEF k
  <2>1. n <= Len(text)
    BY <1>7 DEF n
  <2> QED BY <1>1, <1>6, <1>7, <2>1, Parts
<1>9. DOMAIN a \subseteq Nat /\ k \in DOMAIN a /\ a[k] = NUL
  <2> HIDE DEF k
  <2>1. ~ (k < k)
    BY <1>7
  <2> QED BY <2>1, <1>5, <1>7
<1>10. \A j \in 0 .. k - 1 : a[j] = w[j + 1]
  <2> SUFFICES ASSUME NEW j \in 0 .. k - 1 PROVE a[j] = w[j + 1]
    OBVIOUS
  <2>1. /\ j \in 0 .. ArgLen - 1 /\ j < k /\ j + s + 1 \in 0 .. n - 1 /\ j + 1 \in 1 .. k
        /\ (s + 1) + 1 + (j + 1) - 1 = (j + s + 1) + 1
    BY <1>1, <1>3, <1>7
  <2> HIDE DEF k
  <2>2. a[j] = c[j + s + 1]
    BY <2>1, <1>5
  <2>3. w[j + 1] = text[(j + s + 1) + 1]
    BY <2>1, <1>8
  <2> QED BY <2>1, <2>2, <2>3, <1>2
<1>11. Spells(a, w)
  <2> HIDE DEF k
  <2> QED BY <1>8, <1>9, <1>10 DEF Spells
<1> QED BY <1>8, <1>11 DEF w, s, c, a

LEMMA EntryOfEntry ==
  ASSUME NEW i \in 1 .. Len(Directory)
  PROVE  EntryNamed(Directory[i]) = i
<1> DEFINE same == {j \in 1 .. Len(Directory) : Directory[j] = Directory[i]}
<1>1. same = {i}
  BY DirectoryFacts
<1>2. EntryNamed(Directory[i]) = IF same # {} THEN LeastOf(same) ELSE 0
  BY DEF EntryNamed, SelectInSeq, Min, LeastOf
<1> HIDE DEF same
<1>3. {i} \in SUBSET Nat /\ {i} # {}
  BY DirectoryFacts
<1>4. LeastOf({i}) \in {i}
  BY <1>3, LeastIn
<1> QED BY <1>1, <1>2, <1>4

Listing(i) == [name |-> Directory[i], entry |-> IF Directory[i][1] = DOT THEN 0 ELSE i]

(* What ls and grep get for an entry.                                      *)
LEMMA NameRead ==
  ASSUME NEW i \in 1 .. Len(Directory)
  PROVE  LET name == strncpy(Filename(i), NameLen)
             chars == IndexOf(Filename(i), NUL, NameLen)
             buf == [j \in 0 .. NameLen |->
                       IF j = chars \/ j = NameLen THEN NUL ELSE name[j]]
         IN  [name |-> [j \in 1 .. chars |-> buf[j - 1]],
              entry |-> IF buf[0] = DOT THEN 0 ELSE read_dentry_by_name(buf)]
             = Listing(i)
<1> DEFINE name == strncpy(Filename(i), NameLen)
           chars == IndexOf(Filename(i), NUL, NameLen)
           buf == [j \in 0 .. NameLen |->
                       IF j = chars \/ j = NameLen THEN NUL ELSE name[j]]
           d == Directory[i]
           f == Filename(i)
           n == Len(d)
           r == [j \in 1 .. chars |-> buf[j - 1]]
<1>1. /\ NameLen \in Nat /\ n \in 1 .. NameLen /\ Plain(d) /\ d \in Names
  BY DirectoryFacts
<1>2. chars = n /\ \A j \in 0 .. NameLen - 1 : f[j] = IF j < n THEN d[j + 1] ELSE NUL
  BY FilenameCells
<1>3. \A j \in 0 .. NameLen - 1 :
        name[j] = IF \A m \in 0 .. j : f[m] # NUL THEN f[j] ELSE NUL
  BY DEF strncpy
<1>4. DOMAIN buf = 0 .. NameLen
      /\ \A j \in 0 .. NameLen : buf[j] = IF j = chars \/ j = NameLen THEN NUL ELSE name[j]
  OBVIOUS
<1>5. r = [j \in 1 .. chars |-> buf[j - 1]]
  OBVIOUS
<1> HIDE DEF name, chars, buf, f, n, d, r
<1>6. \A j \in 0 .. n - 1 : buf[j] = d[j + 1]
  <2> SUFFICES ASSUME NEW j \in 0 .. n - 1 PROVE buf[j] = d[j + 1]
    OBVIOUS
  <2>1. j \in 0 .. NameLen /\ j \in 0 .. NameLen - 1 /\ j # n /\ j # NameLen /\ j < n
    BY <1>1
  <2>2. \A m \in 0 .. j : f[m] # NUL
    <3> SUFFICES ASSUME NEW m \in 0 .. j PROVE f[m] # NUL
      OBVIOUS
    <3>1. m \in 0 .. NameLen - 1 /\ m < n /\ m + 1 \in 1 .. n
      BY <1>1
    <3>2. d[m + 1] # NUL
      BY <3>1, <1>1 DEF Plain, n
    <3> QED BY <3>1, <3>2, <1>2
  <2>3. name[j] = f[j]
    BY <2>1, <2>2, <1>3
  <2> QED BY <2>1, <2>3, <1>2, <1>4
<1>7. DOMAIN buf \subseteq Nat /\ n \in DOMAIN buf /\ buf[n] = NUL
  <2>1. n \in 0 .. NameLen
    BY <1>1
  <2> QED BY <2>1, <1>1, <1>2, <1>4
<1>8. Spells(buf, d)
  BY <1>1, <1>6, <1>7 DEF Spells, n
<1>9. read_dentry_by_name(buf) = i
  BY <1>1, <1>8, FoundByName, EntryOfEntry DEF Names, d
<1>10. buf[0] = d[1]
  <2>1. 0 \in 0 .. n - 1 /\ 0 + 1 = 1
    BY <1>1
  <2> QED BY <2>1, <1>6
<1>11. r = d
  <2>1. \A j \in 1 .. n : buf[j - 1] = d[j]
    <3> SUFFICES ASSUME NEW j \in 1 .. n PROVE buf[j - 1] = d[j]
      OBVIOUS
    <3>1. j - 1 \in 0 .. n - 1 /\ (j - 1) + 1 = j
      BY <1>1
    <3> QED BY <3>1, <1>6
  <2>2. d = [j \in 1 .. n |-> d[j]]
    BY <1>1 DEF Names, n
  <2> QED BY <2>1, <2>2, <1>2, <1>5
<1>12. [name |-> r, entry |-> IF buf[0] = DOT THEN 0 ELSE read_dentry_by_name(buf)]
       = Listing(i)
  BY <1>9, <1>10, <1>11 DEF Listing, d
<1> QED BY <1>12 DEF r, buf, chars, name

-----------------------------------------------------------------------------
(* The slot of the program that runs holds the rest of the line that       *)
(* started it, behind whatever earlier arguments left.                     *)
ArgumentStored ==
  (started # 0 /\ FirstSpace(line) # 0) =>
    Rest(line) \in Lines1 /\ Spells(arguments[taken - 1], Rest(line))

CommandsInv ==
  /\ taken \in 1 .. MaxSlots
  /\ started # 0 => taken > 1
  /\ DOMAIN arguments = 0 .. MaxSlots - 1
  /\ ArgumentStored
  /\ position \in 0 .. Len(Directory)
  /\ listed = [i \in 1 .. position |-> Listing(i)]
  /\ CommandObeyed

LEMMA NothingListed ==
  /\ 0 \in 0 .. Len(Directory) /\ << >> = [i \in 1 .. 0 |-> Listing(i)]
  /\ Len(<< >>) = 0
<1>1. 0 \in 0 .. Len(Directory)
  BY DirectoryFacts
<1> QED BY <1>1

LEMMA CommandsInitInv == CommandsInit => CommandsInv
<1> SUFFICES ASSUME CommandsInit PROVE CommandsInv
  OBVIOUS
<1>1. /\ taken = 1 /\ started = 0 /\ refused = FALSE /\ position = 0 /\ listed = << >>
      /\ DOMAIN arguments = 0 .. MaxSlots - 1
  BY DEF CommandsInit
<1>2. taken \in 1 .. MaxSlots
  BY <1>1, DirectoryFacts
<1>3. position \in 0 .. Len(Directory) /\ listed = [i \in 1 .. position |-> Listing(i)]
  BY <1>1, NothingListed
<1>4. ArgumentStored
  BY <1>1 DEF ArgumentStored
<1>5. CommandObeyed
  BY <1>1, NothingListed DEF CommandObeyed
<1> QED BY <1>1, <1>2, <1>3, <1>4, <1>5 DEF CommandsInv

LEMMA ExecuteObeys ==
  ASSUME CommandsInv, NEW n \in Lengths, NEW text \in [1 .. n -> Letters \cup {SP}],
         Execute(text)
  PROVE  CommandsInv'
<1> DEFINE c == Cells(text, MaxLine + 1)
           s == Space(text)
           dentry == read_dentry_by_name(ArgBuffer(c, s))
<1>1. Fitting(text)
  BY TypedLine DEF Fitting
<1>2. /\ started = 0 /\ taken < MaxSlots /\ line' = text /\ taken' = taken + 1
      /\ arguments' = IF s = Len(text) THEN arguments
           ELSE [arguments EXCEPT ![taken] = StoredArgument(arguments[taken], c, s)]
      /\ started' = IF dentry \in Programs THEN dentry ELSE 0
      /\ refused' = (dentry \notin Programs)
      /\ opened' = -1 /\ position' = 0 /\ listed' = << >>
  BY Zenon DEF Execute, Space
<1>3. dentry = EntryNamed(Word(text))
  <2>1. Word(text) \in Lines1 /\ Spells(ArgBuffer(c, s), Word(text))
    BY <1>1, WordSpelled
  <2> HIDE DEF c, s
  <2> QED BY <2>1, FoundByName DEF Lines1
<1>4. taken \in 1 .. MaxSlots /\ DOMAIN arguments = 0 .. MaxSlots - 1 /\ MaxSlots \in Nat
  BY DirectoryFacts, Zenon DEF CommandsInv
<1> HIDE DEF dentry, c, s
<1>5. /\ taken' \in 1 .. MaxSlots /\ taken' > 1
      /\ taken' - 1 = taken /\ taken \in 0 .. MaxSlots - 1
  BY <1>2, <1>4
<1>6. DOMAIN arguments' = 0 .. MaxSlots - 1
  BY <1>2, <1>4
<1>7. ArgumentStored'
  <2> SUFFICES ASSUME FirstSpace(text) # 0
               PROVE  Rest(text) \in Lines1 /\ Spells(arguments'[taken], Rest(text))
    BY <1>2, <1>5 DEF ArgumentStored
  <2>1. s # Len(text)
    <3>1. Len(text) \in Nat
      BY <1>1 DEF Fitting, Plain
    <3>2. s \in 0 .. Len(text) - 1
      BY <1>1, SpaceFound DEF s
    <3> QED BY <3>1, <3>2
  <2>2. arguments'[taken] = StoredArgument(arguments[taken], c, s)
    BY <2>1, <1>2, <1>4, <1>5
  <2> QED BY <2>2, <1>1, RestSpelled DEF c, s
<1>8. position' \in 0 .. Len(Directory)
      /\ listed' = [i \in 1 .. position' |-> Listing(i)] /\ Len(listed') = 0
  BY <1>2, NothingListed
<1>9. CommandObeyed'
  <2>1. started' # 0 => started' = EntryNamed(Word(line'))
    BY <1>2, <1>3
  <2>2. refused' => EntryNamed(Word(line')) \notin Programs
    BY <1>2, <1>3
  <2> QED BY <2>1, <2>2, <1>2, <1>8 DEF CommandObeyed
<1> QED BY <1>5, <1>6, <1>7, <1>8, <1>9 DEF CommandsInv

LEMMA CatObeys ==
  ASSUME CommandsInv, Cat
  PROVE  CommandsInv'
<1> DEFINE a == arguments[taken - 1]
           r == Rest(line)
<1>1. /\ started # 0
      /\ opened' = IF a[0] = NUL THEN 0 ELSE read_dentry_by_name(a)
      /\ UNCHANGED <<line, taken, arguments, started, refused, position, listed>>
  BY DEF Cat
<1>2. ASSUME FirstSpace(line) # 0 PROVE opened' = EntryNamed(r)
  <2>1. r \in Lines1 /\ Spells(a, r)
    BY <1>1, <1>2, Zenon DEF CommandsInv, ArgumentStored
  <2> HIDE DEF a, r
  <2>2. read_dentry_by_name(a) = EntryNamed(r)
    BY <2>1, FoundByName DEF Lines1
  <2>3. ASSUME a[0] = NUL PROVE EntryNamed(r) = 0
    <3>1. Len(r) = 0
      <4>1. Len(r) \in Nat
        BY <2>1 DEF Spells, Plain
      <4>2. \A j \in 0 .. Len(r) - 1 : a[j] # NUL
        BY <2>1, SpelledNotNul
      <4> QED BY <4>1, <4>2, <2>3
    <3> DEFINE same == {j \in 1 .. Len(Directory) : Directory[j] = r}
    <3>2. same = {}
      BY <3>1, DirectoryFacts
    <3>3. EntryNamed(r) = IF same # {} THEN LeastOf(same) ELSE 0
      BY DEF EntryNamed, SelectInSeq, Min, LeastOf
    <3> HIDE DEF same
    <3> QED BY <3>2, <3>3
  <2> QED BY <1>1, <2>2, <2>3
<1>3. CommandObeyed'
  <2>1. CommandObeyed
    BY DEF CommandsInv
  <2> QED BY <1>1, <1>2, <2>1 DEF CommandObeyed
<1>4. ArgumentStored'
  <2>1. ArgumentStored
    BY DEF CommandsInv
  <2> QED BY <1>1, <2>1 DEF ArgumentStored
<1> QED BY <1>1, <1>3, <1>4 DEF CommandsInv

LEMMA ReadDirectoryObeys ==
  ASSUME CommandsInv, ReadDirectory
  PROVE  CommandsInv'
<1> DEFINE p == position + 1
<1>1. /\ position < Len(Directory) /\ position' = p
      /\ UNCHANGED <<line, taken, arguments, started, refused, opened>>
  BY DEF ReadDirectory
<1>2. position \in 0 .. Len(Directory) /\ Len(Directory) \in Nat
      /\ listed = [i \in 1 .. position |-> Listing(i)]
  BY DirectoryFacts, Zenon DEF CommandsInv
<1>3. p \in 1 .. Len(Directory)
  BY <1>1, <1>2
<1>4. listed' = Append(listed, Listing(p))
  <2> DEFINE e == LET name == strncpy(Filename(p), NameLen)
                      chars == IndexOf(Filename(p), NUL, NameLen)
                      buf == [j \in 0 .. NameLen |->
                                IF j = chars \/ j = NameLen THEN NUL ELSE name[j]]
                  IN  [name |-> [j \in 1 .. chars |-> buf[j - 1]],
                       entry |-> IF buf[0] = DOT THEN 0 ELSE read_dentry_by_name(buf)]
  <2>1. listed' = Append(listed, e)
    BY Zenon DEF ReadDirectory
  <2> HIDE DEF p
  <2>2. e = Listing(p)
    BY <1>3, NameRead, Zenon
  <2> QED BY <2>1, <2>2
<1>5. listed' = [i \in 1 .. p |-> Listing(i)]
  <2> HIDE DEF Listing
  <2>1. position \in Nat
    BY <1>2
  <2>2. listed \in Seq({Listing(i) : i \in 1 .. p}) /\ Len(listed) = position
    BY <1>2, <2>1
  <2> QED BY <2>1, <2>2, <1>2, <1>4
<1>6. p \in Nat /\ position' \in 0 .. Len(Directory)
  BY <1>1, <1>3
<1>7. CommandObeyed'
  <2>1. CommandObeyed
    BY DEF CommandsInv
  <2> HIDE DEF p
  <2>2. \A i \in 1 .. Len(listed') :
          listed'[i] = [name |-> Directory[i],
                        entry |-> IF Directory[i][1] = DOT THEN 0 ELSE i]
    <3> DEFINE l == listed'
    <3>1. l = [i \in 1 .. p |-> Listing(i)]
      BY <1>5
    <3> HIDE DEF l
    <3>2. \A i \in 1 .. Len(l) : l[i] = Listing(i)
      BY <3>1, <1>6
    <3> QED BY <3>2, Zenon DEF l, Listing
  <2> QED BY <1>1, <2>1, <2>2 DEF CommandObeyed
<1>8. ArgumentStored'
  <2>1. ArgumentStored
    BY DEF CommandsInv
  <2> QED BY <1>1, <2>1 DEF ArgumentStored
<1>9. /\ taken' \in 1 .. MaxSlots /\ (started' # 0 => taken' > 1)
      /\ DOMAIN arguments' = 0 .. MaxSlots - 1
  BY <1>1 DEF CommandsInv
<1> QED BY <1>1, <1>5, <1>6, <1>7, <1>8, <1>9 DEF CommandsInv

LEMMA ProgramHaltsObeys ==
  ASSUME CommandsInv, ProgramHalts
  PROVE  CommandsInv'
<1>1. /\ started # 0 /\ started' = 0 /\ taken' = taken - 1
      /\ position' = 0 /\ listed' = << >>
      /\ UNCHANGED <<line, arguments, refused>>
  BY DEF ProgramHalts
<1>2. taken \in 1 .. MaxSlots /\ taken > 1 /\ MaxSlots \in Nat
  BY <1>1, DirectoryFacts DEF CommandsInv
<1>3. taken' \in 1 .. MaxSlots
  BY <1>1, <1>2
<1>4. position' \in 0 .. Len(Directory)
      /\ listed' = [i \in 1 .. position' |-> Listing(i)] /\ Len(listed') = 0
  BY <1>1, NothingListed
<1>5. CommandObeyed'
  BY <1>1, <1>4 DEF CommandsInv, CommandObeyed
<1>6. ArgumentStored' /\ DOMAIN arguments' = 0 .. MaxSlots - 1
  BY <1>1 DEF CommandsInv, ArgumentStored
<1> QED BY <1>1, <1>3, <1>4, <1>5, <1>6 DEF CommandsInv

LEMMA CommandsStepInv ==
  ASSUME CommandsInv, [CommandsNext]_cvars
  PROVE  CommandsInv'
<1>1. CASE \E n \in Lengths : \E text \in [1 .. n -> Letters \cup {SP}] : Execute(text)
  BY <1>1, ExecuteObeys
<1>2. CASE Cat
  BY <1>2, CatObeys
<1>3. CASE ReadDirectory
  BY <1>3, ReadDirectoryObeys
<1>4. CASE ProgramHalts
  BY <1>4, ProgramHaltsObeys
<1>5. CASE UNCHANGED cvars
  BY <1>5 DEF cvars, CommandsInv, ArgumentStored, CommandObeyed
<1> QED BY <1>1, <1>2, <1>3, <1>4, <1>5 DEF CommandsNext

(* Whatever names the directory holds, up to NameLen long, and whatever    *)
(* lines are typed in whatever order: sys_execute starts the program that  *)
(* the line names, read_dentry_by_name opens for cat the file that the     *)
(* rest of the line names, and dir_read gives ls and grep every name.      *)
THEOREM CommandsAlwaysObeyed == CommandsSpec => []CommandObeyed
<1>1. CommandsInit => CommandsInv
  BY CommandsInitInv
<1>2. CommandsInv /\ [CommandsNext]_cvars => CommandsInv'
  BY CommandsStepInv
<1>3. CommandsInv => CommandObeyed
  BY DEF CommandsInv
<1> QED BY <1>1, <1>2, <1>3, PTL DEF CommandsSpec

-----------------------------------------------------------------------------
(* Pictures: how a byte moves the place of the next one.                   *)

LEMMA PlaceStart ==
  ASSUME NEW f
  PROVE  RowOf(f, 0) = 0 /\ ColOf(f, 0) = 0
<1>1. LineFeeds(f, 0) = {}
  BY DEF LineFeeds
<1>2. RowOf(f, 0) = 0
  BY <1>1, FS_EmptySet DEF RowOf
<1> DEFINE M == Max({0})
<1>3. M \in {0}
  <2>1. \E x \in {0} : \A y \in {0} : x >= y
    OBVIOUS
  <2> QED BY <2>1, Zenon DEF Max
<1>4. ColOf(f, 0) = 0 - M
  <2>1. {0} \cup LineFeeds(f, 0) = {0}
    BY <1>1
  <2> QED BY <2>1, Zenon DEF ColOf
<1> HIDE DEF M
<1> QED BY <1>2, <1>3, <1>4

LEMMA RowTypes ==
  ASSUME NEW f, NEW i \in Nat
  PROVE  IsFiniteSet(LineFeeds(f, i)) /\ RowOf(f, i) \in Nat
<1>1. IsFiniteSet(1 .. i)
  BY FS_Interval
<1>2. LineFeeds(f, i) \subseteq 1 .. i
  BY DEF LineFeeds
<1>3. IsFiniteSet(LineFeeds(f, i))
  BY <1>1, <1>2, FS_Subset
<1> QED BY <1>3, FS_CardinalityType DEF RowOf

LEMMA RowNext ==
  ASSUME NEW f, NEW i \in Nat
  PROVE  RowOf(f, i + 1) = IF f[i + 1] = NL THEN RowOf(f, i) + 1 ELSE RowOf(f, i)
<1> DEFINE S == LineFeeds(f, i)
<1>1. LineFeeds(f, i + 1) = IF f[i + 1] = NL THEN S \cup {i + 1} ELSE S
  BY DEF LineFeeds
<1>2. i + 1 \notin S
  BY DEF LineFeeds
<1>3. IsFiniteSet(S)
  BY RowTypes
<1> HIDE DEF S
<1>4. Cardinality(S \cup {i + 1}) = Cardinality(S) + 1
  BY <1>2, <1>3, FS_AddElement
<1> QED BY <1>1, <1>4 DEF RowOf, S

(* The end of the line before a place.                                     *)
Start(f, i) == Max({0} \cup LineFeeds(f, i))

LEMMA StartIs ==
  ASSUME NEW f, NEW i \in Nat, NEW m \in {0} \cup LineFeeds(f, i),
         \A j \in {0} \cup LineFeeds(f, i) : j <= m
  PROVE  Start(f, i) = m
<1> DEFINE S == {0} \cup LineFeeds(f, i)
           r == Start(f, i)
<1>1. S \subseteq Nat
  BY DEF LineFeeds
<1>2. m \in S /\ \A y \in S : m >= y
  BY <1>1
<1>3. r = CHOOSE x \in S : \A y \in S : x >= y
  BY DEF Start, Max
<1> HIDE DEF S, r
<1>4. r \in S /\ \A y \in S : r >= y
  BY <1>2, <1>3, Zenon
<1>5. r >= m /\ m >= r /\ r \in Nat /\ m \in Nat
  BY <1>1, <1>2, <1>4
<1>6. r = m
  BY <1>5
<1> QED BY <1>6 DEF r

(* There is a last line feed, if there is one.                             *)
LEMMA StartTypes ==
  ASSUME NEW f, NEW i \in Nat
  PROVE  /\ Start(f, i) \in {0} \cup LineFeeds(f, i)
         /\ \A j \in {0} \cup LineFeeds(f, i) : j <= Start(f, i)
         /\ Start(f, i) \in 0 .. i
<1> DEFINE S == {0} \cup LineFeeds(f, i)
           T == {k \in Nat : \A j \in S : j <= k}
<1>1. S \subseteq 0 .. i
  BY DEF LineFeeds
<1>2. 0 \in S
  OBVIOUS
<1>3. i \in T /\ T \in SUBSET Nat
  BY <1>1
<1>4. PICK m \in T : \A k \in T : m <= k
  BY <1>3, LeastNat
<1>5. m \in Nat /\ \A j \in S : j <= m
  BY <1>4
<1>6. m \in S
  <2> SUFFICES ASSUME m \notin S PROVE FALSE
    OBVIOUS
  <2>1. m # 0 /\ m - 1 \in Nat
    BY <1>2, <1>5
  <2>2. \A j \in S : j <= m - 1
    <3> SUFFICES ASSUME NEW j \in S PROVE j <= m - 1
      OBVIOUS
    <3>1. j \in Nat /\ j # m /\ j <= m
      BY <1>1, <1>5
    <3> HIDE DEF S
    <3> QED BY <3>1, <1>5
  <2>3. m - 1 \in T
    BY <2>1, <2>2
  <2> HIDE DEF T
  <2> QED BY <2>1, <2>3, <1>4, <1>5
<1>7. Start(f, i) = m
  BY <1>5, <1>6, StartIs
<1> QED BY <1>1, <1>5, <1>6, <1>7

LEMMA ColTypes ==
  ASSUME NEW f, NEW i \in Nat
  PROVE  ColOf(f, i) \in 0 .. i /\ ColOf(f, i) = i - Start(f, i)
<1>1. Start(f, i) \in 0 .. i
  BY StartTypes
<1>2. ColOf(f, i) = i - Start(f, i)
  BY DEF ColOf, Start
<1> QED BY <1>1, <1>2

LEMMA ColNext ==
  ASSUME NEW f, NEW i \in Nat
  PROVE  ColOf(f, i + 1) = IF f[i + 1] = NL THEN 0 ELSE ColOf(f, i) + 1
<1> DEFINE S == {0} \cup LineFeeds(f, i)
           U == {0} \cup LineFeeds(f, i + 1)
           m == Start(f, i)
<1>1. S \subseteq 0 .. i /\ m \in 0 .. i
  BY StartTypes DEF LineFeeds
<1>2. U = IF f[i + 1] = NL THEN S \cup {i + 1} ELSE S
  BY DEF LineFeeds
<1>3. m \in S /\ \A j \in S : j <= m
  BY StartTypes
<1>4. ColOf(f, i + 1) = (i + 1) - Start(f, i + 1) /\ ColOf(f, i) = i - m
  BY ColTypes
<1>5. CASE f[i + 1] = NL
  <2>1. i + 1 \in U /\ \A j \in U : j <= i + 1
    BY <1>1, <1>2, <1>5
  <2>2. Start(f, i + 1) = i + 1
    BY <2>1, StartIs
  <2> QED BY <2>2, <1>4, <1>5
<1>6. CASE f[i + 1] # NL
  <2>1. m \in U /\ \A j \in U : j <= m
    BY <1>2, <1>3, <1>6
  <2> HIDE DEF m
  <2>2. Start(f, i + 1) = m
    BY <2>1, StartIs
  <2> QED BY <2>2, <1>1, <1>4, <1>6
<1> QED BY <1>5, <1>6

LEMMA RowBelow ==
  ASSUME NEW f, NEW i \in Nat
  PROVE  RowOf(f, i) <= i
<1> DEFINE T == {k \in Nat : ~ (RowOf(f, k) <= k)}
<1>1. T = {}
  <2> SUFFICES ASSUME T # {} PROVE FALSE
    OBVIOUS
  <2>1. PICK k \in T : \A m \in T : k <= m
    BY LeastNat
  <2>2. k \in Nat /\ ~ (RowOf(f, k) <= k) /\ RowOf(f, k) \in Nat
    BY RowTypes
  <2>3. k # 0
    BY <2>2, PlaceStart
  <2>4. k - 1 \in Nat /\ (k - 1) + 1 = k
    BY <2>2, <2>3
  <2>5. k - 1 \notin T
    BY <2>1, <2>2, <2>4
  <2>6. RowOf(f, k - 1) <= k - 1 /\ RowOf(f, k - 1) \in Nat
    BY <2>4, <2>5, RowTypes
  <2>7. RowOf(f, (k - 1) + 1) \in {RowOf(f, k - 1), RowOf(f, k - 1) + 1}
    BY <2>4, RowNext
  <2> HIDE DEF T
  <2> QED BY <2>2, <2>4, <2>6, <2>7
<1> QED BY <1>1

(* One place comes before another one.                                     *)
Before(r, c, row2, col2) == r < row2 \/ (r = row2 /\ c < col2)

LEMMA BeforeNext ==
  ASSUME NEW f, NEW i \in Nat
  PROVE  Before(RowOf(f, i), ColOf(f, i), RowOf(f, i + 1), ColOf(f, i + 1))
<1>1. RowOf(f, i) \in Nat /\ ColOf(f, i) \in Nat
  BY RowTypes, ColTypes
<1> QED BY <1>1, RowNext, ColNext DEF Before

(* Later bytes are at later places.                                        *)
LEMMA PlacesIncrease ==
  ASSUME NEW f, NEW i \in Nat, NEW j \in Nat, i < j
  PROVE  Before(RowOf(f, i), ColOf(f, i), RowOf(f, j), ColOf(f, j))
<1> DEFINE r(k) == RowOf(f, k)
           c(k) == ColOf(f, k)
           T == {k \in Nat : i < k /\ ~ Before(r(i), c(i), r(k), c(k))}
<1>0. \A k \in Nat : r(k) \in Nat /\ c(k) \in Nat
  BY RowTypes, ColTypes
<1>1. T = {}
  <2> SUFFICES ASSUME T # {} PROVE FALSE
    OBVIOUS
  <2>1. PICK k \in T : \A m \in T : k <= m
    BY LeastNat
  <2>2. k \in Nat /\ i < k /\ ~ Before(r(i), c(i), r(k), c(k))
    BY <2>1
  <2>3. k - 1 \in Nat /\ (k - 1) + 1 = k /\ ~ (k <= k - 1)
    BY <2>2
  <2>4. k - 1 \notin T
    BY <2>1, <2>3
  <2>5. Before(r(k - 1), c(k - 1), r((k - 1) + 1), c((k - 1) + 1))
    BY <2>3, BeforeNext
  <2>6. k - 1 = i \/ Before(r(i), c(i), r(k - 1), c(k - 1))
    BY <2>2, <2>3, <2>4
  <2> HIDE DEF T, r, c
  <2>7. r(i) \in Nat /\ c(i) \in Nat /\ r(k) \in Nat /\ c(k) \in Nat
        /\ r(k - 1) \in Nat /\ c(k - 1) \in Nat
    BY <1>0, <2>2, <2>3
  <2> QED BY <2>2, <2>3, <2>5, <2>6, <2>7 DEF Before
<1> QED BY <1>1

-----------------------------------------------------------------------------
(* What is at a place.                                                     *)
LEMMA PixelOfByte ==
  ASSUME NEW f, NEW i \in 1 .. Len(f), Len(f) \in Nat, f[i] # NL
  PROVE  PixelAt(f, RowOf(f, i - 1), ColOf(f, i - 1)) = f[i]
<1> DEFINE r == RowOf(f, i - 1)
           c == ColOf(f, i - 1)
           S == BytesAt(f, r, c)
<1>1. i \in S
  BY DEF BytesAt
<1>2. ASSUME NEW j \in S PROVE j = i
  <2>1. j \in 1 .. Len(f) /\ RowOf(f, j - 1) = r /\ ColOf(f, j - 1) = c
    BY <1>2 DEF BytesAt
  <2>2. i - 1 \in Nat /\ j - 1 \in Nat /\ i \in Nat /\ j \in Nat
    BY <2>1
  <2>3. r \in Nat /\ c \in Nat
    BY <2>2, RowTypes, ColTypes
  <2>4. ~ (i - 1 < j - 1) /\ ~ (j - 1 < i - 1)
    BY <2>1, <2>2, <2>3, PlacesIncrease DEF Before
  <2> QED BY <2>2, <2>4
<1>3. S = {i}
  BY <1>1, <1>2
<1>4. (CHOOSE j \in S : TRUE) = i
  BY <1>3
<1> QED BY <1>1, <1>4, Zenon DEF PixelAt

LEMMA NoPixel ==
  ASSUME NEW f, NEW r, NEW c,
         \A i \in 1 .. Len(f) :
           f[i] # NL => ~ (RowOf(f, i - 1) = r /\ ColOf(f, i - 1) = c)
  PROVE  PixelAt(f, r, c) = SP
<1>1. BytesAt(f, r, c) = {}
  BY DEF BytesAt
<1> QED BY <1>1 DEF PixelAt

LEMMA PixelInside ==
  ASSUME NEW f, Len(f) \in Nat, NEW r, NEW c, PixelAt(f, r, c) # SP
  PROVE  r \in 0 .. Len(f) /\ c \in 0 .. Len(f)
<1>1. BytesAt(f, r, c) # {}
  BY Zenon DEF PixelAt
<1>2. PICK i \in 1 .. Len(f) : RowOf(f, i - 1) = r /\ ColOf(f, i - 1) = c
  BY <1>1 DEF BytesAt
<1>3. i - 1 \in Nat /\ i - 1 <= Len(f)
  BY <1>2
<1>4. r \in Nat /\ r <= i - 1 /\ c \in 0 .. i - 1
  BY <1>2, <1>3, RowBelow, RowTypes, ColTypes
<1> QED BY <1>3, <1>4

-----------------------------------------------------------------------------
(* Where add_frames is in a file while it is at a place: in the line, at   *)
(* the start of the next line because this one is over, or at the end.     *)
InLine(f, p, c, eof, r, k) ==
  c # NL /\ ~eof /\ RowOf(f, p) = r /\ ColOf(f, p) = k
LineOver(f, p, c, eof, r, k) ==
  /\ c = NL /\ ~eof /\ p > 0 /\ RowOf(f, p) = r + 1 /\ ColOf(f, p) = 0
  /\ RowOf(f, p - 1) = r /\ ColOf(f, p - 1) < k
FileOver(f, p, c, eof, r, k) ==
  c = NL /\ eof /\ p = Len(f) /\ ~ Before(r, k, RowOf(f, p), ColOf(f, p))

FileAt(f, p, c, eof, r, k) ==
  /\ Len(f) \in Nat /\ p \in 0 .. Len(f)
  /\ \/ InLine(f, p, c, eof, r, k)
     \/ LineOver(f, p, c, eof, r, k)
     \/ FileOver(f, p, c, eof, r, k)

(* A line feed as the next byte: nothing is left in the line.              *)
LEMMA NothingLeft ==
  ASSUME NEW f, NEW p, NEW c, NEW eof, NEW r \in Nat, NEW k \in Nat,
         FileAt(f, p, c, eof, r, k), Byte(f, p, c) = NL, NEW l \in Nat, k <= l
  PROVE  PixelAt(f, r, l) = SP
<1>1. Len(f) \in Nat /\ p \in 0 .. Len(f) /\ p \in Nat
  BY DEF FileAt
<1> SUFFICES ASSUME NEW i \in 1 .. Len(f), f[i] # NL,
                    RowOf(f, i - 1) = r, ColOf(f, i - 1) = l
             PROVE  FALSE
  BY NoPixel
<1>2. i - 1 \in Nat /\ i \in Nat /\ i - 1 < Len(f)
  BY <1>1
<1>3. RowOf(f, p) \in Nat /\ ColOf(f, p) \in Nat
  BY <1>1, RowTypes, ColTypes
<1>4. ASSUME i - 1 < p PROVE Before(r, l, RowOf(f, p), ColOf(f, p))
  BY <1>1, <1>2, <1>4, PlacesIncrease
<1>5. ASSUME p < i - 1 PROVE Before(RowOf(f, p), ColOf(f, p), r, l)
  BY <1>1, <1>2, <1>5, PlacesIncrease
<1>6. CASE InLine(f, p, c, eof, r, k)
  <2>1. ~ (i - 1 < p)
    BY <1>3, <1>4, <1>6 DEF Before, InLine
  <2>2. p < Len(f) /\ f[p + 1] = NL
    BY <1>1, <1>2, <1>6, <2>1 DEF InLine, Byte
  <2>3. i - 1 # p
    <3>1. i - 1 = p => i = p + 1
      BY <1>1, <1>2
    <3> QED BY <2>2, <3>1
  <2>4. p + 1 \in Nat /\ i - 1 >= p + 1
    BY <1>1, <1>2, <2>1, <2>3
  <2>5. RowOf(f, p + 1) = r + 1
    BY <1>1, <1>6, <2>2, RowNext DEF InLine
  <2>6. i - 1 = p + 1 \/ Before(RowOf(f, p + 1), ColOf(f, p + 1), r, l)
    BY <1>2, <2>4, PlacesIncrease
  <2> QED BY <2>5, <2>6 DEF Before
<1>7. CASE LineOver(f, p, c, eof, r, k)
  <2>1. i - 1 # p
    BY <1>7 DEF LineOver
  <2>2. ~ (p < i - 1)
    BY <1>5, <1>7 DEF Before, LineOver
  <2>3. p - 1 \in Nat /\ i - 1 <= p - 1
    BY <1>1, <1>2, <2>1, <2>2
  <2>4. i - 1 = p - 1 \/ Before(r, l, RowOf(f, p - 1), ColOf(f, p - 1))
    BY <1>2, <2>3, PlacesIncrease
  <2>5. ColOf(f, p - 1) \in Nat /\ ColOf(f, p - 1) < k /\ RowOf(f, p - 1) = r
    BY <1>7, <2>3, ColTypes DEF LineOver
  <2> QED BY <2>4, <2>5 DEF Before
<1>8. CASE FileOver(f, p, c, eof, r, k)
  <2>1. i - 1 < p
    BY <1>2, <1>8 DEF FileOver
  <2>2. Before(r, l, RowOf(f, p), ColOf(f, p))
    BY <2>1, <1>4
  <2> QED BY <1>3, <1>8, <2>2 DEF FileOver, Before
<1> QED BY <1>6, <1>7, <1>8 DEF FileAt

(* The byte that is compared and displayed is the one at the place.        *)
LEMMA ByteAtPlace ==
  ASSUME NEW f, NEW p, NEW c, NEW eof, NEW r \in Nat, NEW k \in Nat,
         FileAt(f, p, c, eof, r, k)
  PROVE  OrBlank(Byte(f, p, c)) = PixelAt(f, r, k)
<1>1. CASE Byte(f, p, c) = NL
  BY <1>1, NothingLeft DEF OrBlank
<1>2. CASE Byte(f, p, c) # NL
  <2>1. c # NL /\ p # Len(f) /\ Byte(f, p, c) = f[p + 1]
    BY <1>2 DEF Byte
  <2>2. InLine(f, p, c, eof, r, k) /\ Len(f) \in Nat /\ p \in 0 .. Len(f)
    BY <2>1 DEF FileAt, LineOver, FileOver
  <2>3. p + 1 \in 1 .. Len(f) /\ (p + 1) - 1 = p
    BY <2>1, <2>2
  <2>4. PixelAt(f, RowOf(f, (p + 1) - 1), ColOf(f, (p + 1) - 1)) = f[p + 1]
    BY <1>2, <2>1, <2>2, <2>3, PixelOfByte
  <2> QED BY <1>2, <2>1, <2>2, <2>3, <2>4 DEF OrBlank, InLine
<1> QED BY <1>1, <1>2

(* A file that is over has nothing from the place on.                      *)
LEMMA NothingBehind ==
  ASSUME NEW f, NEW p, NEW c, NEW r \in Nat, NEW k \in Nat,
         FileOver(f, p, c, TRUE, r, k), Len(f) \in Nat,
         NEW r2 \in Nat, NEW k2 \in Nat, PixelAt(f, r2, k2) # SP
  PROVE  Before(r2, k2, r, k)
<1>1. PICK i \in 1 .. Len(f) : RowOf(f, i - 1) = r2 /\ ColOf(f, i - 1) = k2
  BY NoPixel
<1>2. i - 1 \in Nat /\ i - 1 < p /\ p \in Nat
  BY <1>1 DEF FileOver
<1>3. Before(r2, k2, RowOf(f, p), ColOf(f, p))
  BY <1>1, <1>2, PlacesIncrease
<1>4. RowOf(f, p) \in Nat /\ ColOf(f, p) \in Nat
  BY <1>2, RowTypes, ColTypes
<1> QED BY <1>3, <1>4 DEF FileOver, Before

Eof(f, p, c, eof) == eof \/ AtEof(f, p, c)

LEMMA FileSteps ==
  ASSUME NEW f, NEW p, NEW c, NEW eof, NEW r \in Nat, NEW k \in Nat,
         FileAt(f, p, c, eof, r, k)
  PROVE  /\ FileAt(f, NextPos(f, p, c), Byte(f, p, c), Eof(f, p, c, eof), r, k + 1)
         /\ Byte(f, p, c) = NL =>
              FileAt(f, NextPos(f, p, c), RowStart(Eof(f, p, c, eof)),
                     Eof(f, p, c, eof), r + 1, 0)
<1> DEFINE q == NextPos(f, p, c)
           b == Byte(f, p, c)
           e == Eof(f, p, c, eof)
<1>1. Len(f) \in Nat /\ p \in 0 .. Len(f) /\ p \in Nat
  BY DEF FileAt
<1>2. RowOf(f, p) \in Nat /\ ColOf(f, p) \in Nat
  BY <1>1, RowTypes, ColTypes
<1>3. Zero # NL
  BY DEF Zero, NL
<1>4. CASE InLine(f, p, c, eof, r, k) /\ p = Len(f)
  <2>1. q = p /\ b = NL /\ e /\ RowStart(e) = NL
    BY <1>4 DEF InLine, NextPos, Byte, Eof, AtEof, RowStart
  <2>2. RowOf(f, p) = r /\ ColOf(f, p) = k /\ p = Len(f)
    BY <1>4 DEF InLine
  <2>3. /\ ~ Before(r, k + 1, RowOf(f, p), ColOf(f, p))
        /\ ~ Before(r + 1, 0, RowOf(f, p), ColOf(f, p))
    BY <2>2 DEF Before
  <2> HIDE DEF q, b, e
  <2>4. FileOver(f, q, b, e, r, k + 1) /\ FileOver(f, q, RowStart(e), e, r + 1, 0)
    BY <2>1, <2>2, <2>3 DEF FileOver
  <2>5. FileAt(f, q, b, e, r, k + 1) /\ FileAt(f, q, RowStart(e), e, r + 1, 0)
    BY <1>1, <2>1, <2>4 DEF FileAt
  <2> QED BY <2>5 DEF q, b, e
<1>5. CASE InLine(f, p, c, eof, r, k) /\ p # Len(f)
  <2>1. q = p + 1 /\ b = f[p + 1] /\ ~e
    BY <1>5 DEF InLine, NextPos, Byte, Eof, AtEof
  <2>2. RowOf(f, p) = r /\ ColOf(f, p) = k
    BY <1>5 DEF InLine
  <2>3. q \in 0 .. Len(f) /\ q > 0 /\ q - 1 = p
    BY <1>1, <1>5, <2>1
  <2>4. RowOf(f, p + 1) = (IF b = NL THEN r + 1 ELSE r)
        /\ ColOf(f, p + 1) = (IF b = NL THEN 0 ELSE k + 1)
    BY <1>1, <2>1, <2>2, RowNext, ColNext
  <2>5. RowStart(e) = Zero
    BY <2>1 DEF RowStart
  <2> HIDE DEF q, b, e
  <2>6. FileAt(f, q, b, e, r, k + 1)
    <3>1. CASE b = NL
      <4>1. LineOver(f, q, b, e, r, k + 1)
        BY <2>1, <2>2, <2>3, <2>4, <3>1 DEF LineOver
      <4> QED BY <4>1, <1>1, <2>3 DEF FileAt
    <3>2. CASE b # NL
      <4>1. InLine(f, q, b, e, r, k + 1)
        BY <2>1, <2>4, <3>2 DEF InLine
      <4> QED BY <4>1, <1>1, <2>3 DEF FileAt
    <3> QED BY <3>1, <3>2
  <2>7. ASSUME b = NL PROVE FileAt(f, q, RowStart(e), e, r + 1, 0)
    <3>1. InLine(f, q, RowStart(e), e, r + 1, 0)
      BY <2>1, <2>4, <2>5, <2>7, <1>3 DEF InLine
    <3> QED BY <3>1, <1>1, <2>3 DEF FileAt
  <2> QED BY <2>6, <2>7 DEF q, b, e
<1>6. CASE LineOver(f, p, c, eof, r, k)
  <2>1. q = p /\ b = NL /\ ~e
    BY <1>6 DEF LineOver, NextPos, Byte, Eof, AtEof
  <2>2. /\ p > 0 /\ RowOf(f, p) = r + 1 /\ ColOf(f, p) = 0
        /\ RowOf(f, p - 1) = r /\ ColOf(f, p - 1) < k
    BY <1>6 DEF LineOver
  <2>3. RowStart(e) = Zero
    BY <2>1 DEF RowStart
  <2>4. p - 1 \in Nat
    BY <1>1, <2>2
  <2>5. ColOf(f, p - 1) \in Nat
    BY <2>4, ColTypes
  <2>6. ColOf(f, p - 1) < k + 1
    BY <2>2, <2>5
  <2> HIDE DEF q, b, e
  <2>7. LineOver(f, q, b, e, r, k + 1)
    BY <2>1, <2>2, <2>6 DEF LineOver
  <2>8. InLine(f, q, RowStart(e), e, r + 1, 0)
    BY <2>1, <2>2, <2>3, <1>3 DEF InLine
  <2>9. FileAt(f, q, b, e, r, k + 1) /\ FileAt(f, q, RowStart(e), e, r + 1, 0)
    BY <1>1, <2>1, <2>7, <2>8 DEF FileAt
  <2> QED BY <2>9 DEF q, b, e
<1>7. CASE FileOver(f, p, c, eof, r, k)
  <2>1. q = p /\ b = NL /\ e /\ RowStart(e) = NL
    BY <1>7 DEF FileOver, NextPos, Byte, Eof, RowStart
  <2>2. p = Len(f) /\ ~ Before(r, k, RowOf(f, p), ColOf(f, p))
    BY <1>7 DEF FileOver
  <2>3. /\ ~ Before(r, k + 1, RowOf(f, p), ColOf(f, p))
        /\ ~ Before(r + 1, 0, RowOf(f, p), ColOf(f, p))
    BY <1>2, <2>2 DEF Before
  <2> HIDE DEF q, b, e
  <2>4. FileOver(f, q, b, e, r, k + 1) /\ FileOver(f, q, RowStart(e), e, r + 1, 0)
    BY <2>1, <2>2, <2>3 DEF FileOver
  <2>5. FileAt(f, q, b, e, r, k + 1) /\ FileAt(f, q, RowStart(e), e, r + 1, 0)
    BY <1>1, <2>1, <2>4 DEF FileAt
  <2> QED BY <2>5 DEF q, b, e
<1> QED BY <1>4, <1>5, <1>6, <1>7 DEF FileAt

-----------------------------------------------------------------------------
(* What has been added when add_frames is at a place: a blinking character *)
(* for each place before it where a picture is not blank.                  *)
Lit(f, g, r, k) == PixelAt(f, r, k) # SP \/ PixelAt(g, r, k) # SP

Sign(f, g, r, k) == [row |-> r, col |-> k, on_char |-> PixelAt(f, r, k),
                     off_char |-> PixelAt(g, r, k)]

Signs == [row : Nat, col : Nat, on_char : Nat, off_char : Nat]

Drawn(f, g, r, k, x) ==
  /\ x \in Signs /\ x = Sign(f, g, x.row, x.col)
  /\ Lit(f, g, x.row, x.col) /\ Before(x.row, x.col, r, k)

AllDrawn(f, g, A, r, k) ==
  \A r2, k2 \in Nat : Before(r2, k2, r, k) /\ Lit(f, g, r2, k2) =>
    \E i \in 1 .. Len(A) : A[i].row = r2 /\ A[i].col = k2

DrawnOnce(A) ==
  \A i, j \in 1 .. Len(A) : A[i].row = A[j].row /\ A[i].col = A[j].col => i = j

DrawnTo(f, g, A, r, k) ==
  /\ A \in Seq(Signs)
  /\ \A i \in 1 .. Len(A) : Drawn(f, g, r, k, A[i])
  /\ AllDrawn(f, g, A, r, k)
  /\ DrawnOnce(A)

LEMMA PixelTypes ==
  ASSUME NEW f \in Seq(Nat), NEW r, NEW k
  PROVE  PixelAt(f, r, k) \in Nat
<1>1. CASE BytesAt(f, r, k) = {}
  BY <1>1 DEF PixelAt, SP
<1>2. CASE BytesAt(f, r, k) # {}
  <2> DEFINE i == CHOOSE j \in BytesAt(f, r, k) : TRUE
  <2>1. i \in BytesAt(f, r, k)
    BY <1>2, Zenon
  <2>2. PixelAt(f, r, k) = f[i]
    BY <1>2, Zenon DEF PixelAt
  <2>3. i \in 1 .. Len(f)
    BY <2>1 DEF BytesAt
  <2> HIDE DEF i
  <2> QED BY <2>2, <2>3
<1> QED BY <1>1, <1>2

LEMMA OneMorePlace ==
  ASSUME NEW r \in Nat, NEW k \in Nat, NEW r2 \in Nat, NEW k2 \in Nat
  PROVE  /\ Before(r2, k2, r, k + 1) <=> Before(r2, k2, r, k) \/ (r2 = r /\ k2 = k)
         /\ Before(r2, k2, r + 1, 0) <=> Before(r2, k2, r, k) \/ (r2 = r /\ k <= k2)
         /\ ~ Before(r, k, r, k) /\ ~ Before(r2, k2, 0, 0)
BY DEF Before

LEMMA StillBefore ==
  ASSUME NEW r \in Nat, NEW k \in Nat, NEW r2 \in Nat, NEW k2 \in Nat,
         Before(r2, k2, r, k)
  PROVE  Before(r2, k2, r, k + 1) /\ Before(r2, k2, r + 1, 0)
BY DEF Before

(* A place that is blank in both pictures adds nothing.                    *)
LEMMA BlankPlace ==
  ASSUME NEW f, NEW g, NEW A, NEW r \in Nat, NEW k \in Nat,
         DrawnTo(f, g, A, r, k), ~ Lit(f, g, r, k)
  PROVE  DrawnTo(f, g, A, r, k + 1)
<1>1. ASSUME NEW i \in 1 .. Len(A) PROVE Drawn(f, g, r, k + 1, A[i])
  <2>1. Drawn(f, g, r, k, A[i])
    BY <1>1 DEF DrawnTo
  <2>2. A[i].row \in Nat /\ A[i].col \in Nat
    BY <2>1 DEF Drawn, Signs
  <2>3. Before(A[i].row, A[i].col, r, k)
    BY <2>1, Zenon DEF Drawn
  <2>4. Before(A[i].row, A[i].col, r, k + 1)
    BY <2>2, <2>3, StillBefore
  <2> QED BY <2>1, <2>4, Zenon DEF Drawn
<1>2. ASSUME NEW r2 \in Nat, NEW k2 \in Nat, Before(r2, k2, r, k + 1),
             Lit(f, g, r2, k2)
      PROVE  \E i \in 1 .. Len(A) : A[i].row = r2 /\ A[i].col = k2
  <2>1. Before(r2, k2, r, k)
    BY <1>2, OneMorePlace
  <2> QED BY <1>2, <2>1, Zenon DEF DrawnTo, AllDrawn
<1>3. AllDrawn(f, g, A, r, k + 1)
  BY <1>2, ZenonT(40) DEF AllDrawn
<1> QED BY <1>1, <1>3, Zenon DEF DrawnTo

(* The end of a row, when nothing is left in it.                           *)
LEMMA RowOver ==
  ASSUME NEW f, NEW g, NEW A, NEW r \in Nat, NEW k \in Nat,
         DrawnTo(f, g, A, r, k), \A l \in Nat : k <= l => ~ Lit(f, g, r, l)
  PROVE  DrawnTo(f, g, A, r + 1, 0)
<1>1. ASSUME NEW i \in 1 .. Len(A) PROVE Drawn(f, g, r + 1, 0, A[i])
  <2>1. Drawn(f, g, r, k, A[i])
    BY <1>1 DEF DrawnTo
  <2>2. A[i].row \in Nat /\ A[i].col \in Nat
    BY <2>1 DEF Drawn, Signs
  <2>3. Before(A[i].row, A[i].col, r, k)
    BY <2>1, Zenon DEF Drawn
  <2>4. Before(A[i].row, A[i].col, r + 1, 0)
    BY <2>2, <2>3, StillBefore
  <2> QED BY <2>1, <2>4, Zenon DEF Drawn
<1>2. ASSUME NEW r2 \in Nat, NEW k2 \in Nat, Before(r2, k2, r + 1, 0),
             Lit(f, g, r2, k2)
      PROVE  \E i \in 1 .. Len(A) : A[i].row = r2 /\ A[i].col = k2
  <2>1. Before(r2, k2, r, k)
    BY <1>2, OneMorePlace
  <2> QED BY <1>2, <2>1, Zenon DEF DrawnTo, AllDrawn
<1>3. AllDrawn(f, g, A, r + 1, 0)
  BY <1>2, Zenon DEF AllDrawn
<1> QED BY <1>1, <1>3, Zenon DEF DrawnTo

(* A place that is not blank adds one character.                           *)
LEMMA LitPlace ==
  ASSUME NEW f \in Seq(Nat), NEW g \in Seq(Nat), NEW A, NEW r \in Nat, NEW k \in Nat,
         DrawnTo(f, g, A, r, k), Lit(f, g, r, k)
  PROVE  DrawnTo(f, g, Append(A, Sign(f, g, r, k)), r, k + 1)
<1> DEFINE x == Sign(f, g, r, k)
           B == Append(A, x)
<1>1. x \in Signs /\ x.row = r /\ x.col = k
  BY PixelTypes DEF Sign, Signs
<1>2. A \in Seq(Signs) /\ Len(A) \in Nat
  BY DEF DrawnTo
<1>3. x = Sign(f, g, x.row, x.col)
  BY <1>1
<1> HIDE DEF x
<1>4. /\ B \in Seq(Signs) /\ Len(B) = Len(A) + 1
      /\ B[Len(A) + 1] = x /\ \A i \in 1 .. Len(A) : B[i] = A[i]
  BY <1>1, <1>2
<1> HIDE DEF B
<1>5. \A i \in 1 .. Len(B) : i \in 1 .. Len(A) \/ i = Len(A) + 1
  BY <1>2, <1>4
<1>6. ASSUME NEW i \in 1 .. Len(A)
      PROVE  /\ Drawn(f, g, r, k + 1, A[i])
             /\ ~ (A[i].row = x.row /\ A[i].col = x.col)
  <2>1. Drawn(f, g, r, k, A[i])
    BY <1>6 DEF DrawnTo
  <2>2. A[i].row \in Nat /\ A[i].col \in Nat
    BY <2>1 DEF Drawn, Signs
  <2>3. Before(A[i].row, A[i].col, r, k)
    BY <2>1 DEF Drawn
  <2>4. ~ (A[i].row = x.row /\ A[i].col = x.col)
    BY <1>1, <2>3, OneMorePlace
  <2>5. Before(A[i].row, A[i].col, r, k + 1)
    BY <2>2, <2>3, StillBefore
  <2> QED BY <2>1, <2>4, <2>5, Zenon DEF Drawn
<1>7. Drawn(f, g, r, k + 1, x)
  <2>1. Before(x.row, x.col, r, k + 1)
    BY <1>1, OneMorePlace
  <2>2. Lit(f, g, x.row, x.col)
    BY <1>1
  <2> QED BY <1>1, <1>3, <2>1, <2>2, Zenon DEF Drawn
<1>8. \A i \in 1 .. Len(B) : Drawn(f, g, r, k + 1, B[i])
  BY <1>4, <1>5, <1>6, <1>7
<1>9. ASSUME NEW r2 \in Nat, NEW k2 \in Nat, Before(r2, k2, r, k + 1),
             Lit(f, g, r2, k2)
      PROVE  \E i \in 1 .. Len(B) : B[i].row = r2 /\ B[i].col = k2
  <2>1. CASE Before(r2, k2, r, k)
    <3>1. PICK i \in 1 .. Len(A) : A[i].row = r2 /\ A[i].col = k2
      BY <1>9, <2>1, Zenon DEF DrawnTo, AllDrawn
    <3>2. i \in 1 .. Len(B) /\ B[i] = A[i]
      BY <1>2, <1>4, <3>1
    <3> QED BY <3>1, <3>2
  <2>2. CASE r2 = r /\ k2 = k
    <3>1. Len(A) + 1 \in 1 .. Len(B)
      BY <1>2, <1>4
    <3> QED BY <1>1, <1>4, <2>2, <3>1
  <2> QED BY <1>9, <2>1, <2>2, OneMorePlace
<1>10. AllDrawn(f, g, B, r, k + 1)
  BY <1>9, ZenonT(40) DEF AllDrawn
<1>11. DrawnOnce(B)
  <2> SUFFICES ASSUME NEW i \in 1 .. Len(B), NEW j \in 1 .. Len(B),
                      B[i].row = B[j].row, B[i].col = B[j].col
               PROVE  i = j
    BY Zenon DEF DrawnOnce
  <2>1. CASE i \in 1 .. Len(A) /\ j \in 1 .. Len(A)
    <3>1. A[i].row = A[j].row /\ A[i].col = A[j].col
      BY <1>4, <2>1
    <3> QED BY <2>1, <3>1, Zenon DEF DrawnTo, DrawnOnce
  <2>2. CASE i \in 1 .. Len(A) /\ j = Len(A) + 1
    BY <1>4, <1>6, <2>2
  <2>3. CASE i = Len(A) + 1 /\ j \in 1 .. Len(A)
    BY <1>4, <1>6, <2>3
  <2> QED BY <1>5, <2>1, <2>2, <2>3
<1> QED BY <1>4, <1>8, <1>10, <1>11, Zenon DEF DrawnTo, B, x

-----------------------------------------------------------------------------
FramesInv ==
  /\ f0 \in Pictures /\ f1 \in Pictures
  /\ row \in Nat /\ col \in Nat
  /\ FileAt(f0, pos0, c0, eof0, row, col)
  /\ FileAt(f1, pos1, c1, eof1, row, col)
  /\ DrawnTo(f0, f1, added, row, col)
  /\ fdone => eof0 /\ eof1

LEMMA PictureTypes ==
  ASSUME NEW f \in Pictures
  PROVE  f \in Seq(Nat) /\ Len(f) \in Nat
BY FramesAssumption

LEMMA FramesInitInv == FramesInit => FramesInv
<1> SUFFICES ASSUME FramesInit PROVE FramesInv
  OBVIOUS
<1>1. ASSUME NEW f \in Pictures PROVE FileAt(f, 0, Zero, FALSE, 0, 0)
  <2>1. InLine(f, 0, Zero, FALSE, 0, 0)
    BY PlaceStart DEF InLine, Zero, NL
  <2>2. Len(f) \in Nat /\ 0 \in 0 .. Len(f)
    BY <1>1, PictureTypes
  <2> QED BY <2>1, <2>2, Zenon DEF FileAt
<1>2. DrawnTo(f0, f1, <<>>, 0, 0)
  <2>1. AllDrawn(f0, f1, <<>>, 0, 0)
    BY OneMorePlace DEF AllDrawn
  <2> QED BY <2>1 DEF DrawnTo, DrawnOnce
<1> QED BY <1>1, <1>2, Zenon DEF FramesInv, FramesInit

(* What is compared and what is displayed.                                 *)
LEMMA VisibleIsLit ==
  ASSUME NEW f, NEW g, NEW r, NEW k, NEW a, NEW b,
         OrBlank(a) = PixelAt(f, r, k), OrBlank(b) = PixelAt(g, r, k)
  PROVE  Visible(a, b) <=> Lit(f, g, r, k)
BY DEF Visible, Lit, OrBlank

LEMMA FrameStepInv ==
  ASSUME FramesInv, FrameStep
  PROVE  FramesInv'
<1> DEFINE a == Byte(f0, pos0, c0)
           b == Byte(f1, pos1, c1)
           e0 == Eof(f0, pos0, c0, eof0)
           e1 == Eof(f1, pos1, c1, eof1)
           q0 == NextPos(f0, pos0, c0)
           q1 == NextPos(f1, pos1, c1)
<1>1. /\ f0 \in Pictures /\ f1 \in Pictures
      /\ row \in Nat /\ col \in Nat
      /\ FileAt(f0, pos0, c0, eof0, row, col)
      /\ FileAt(f1, pos1, c1, eof1, row, col)
      /\ DrawnTo(f0, f1, added, row, col)
  BY DEF FramesInv
<1>2. f0' = f0 /\ f1' = f1 /\ pos0' = q0 /\ pos1' = q1 /\ ~fdone
      /\ eof0' = e0 /\ eof1' = e1
  BY Zenon DEF FrameStep, Eof
<1>3. /\ FileAt(f0, q0, a, e0, row, col + 1)
      /\ a = NL => FileAt(f0, q0, RowStart(e0), e0, row + 1, 0)
  BY <1>1, FileSteps
<1>4. /\ FileAt(f1, q1, b, e1, row, col + 1)
      /\ b = NL => FileAt(f1, q1, RowStart(e1), e1, row + 1, 0)
  BY <1>1, FileSteps
<1>5. OrBlank(a) = PixelAt(f0, row, col) /\ OrBlank(b) = PixelAt(f1, row, col)
  BY <1>1, ByteAtPlace
<1>6. f0 \in Seq(Nat) /\ f1 \in Seq(Nat)
  BY <1>1, PictureTypes
<1>7. CASE a = NL /\ b = NL
  <2>1. /\ c0' = RowStart(e0) /\ c1' = RowStart(e1) /\ row' = row + 1 /\ col' = 0
        /\ fdone' = (e0 /\ e1) /\ added' = added
    BY <1>2, <1>7, Zenon DEF FrameStep
  <2>2. \A l \in Nat : col <= l => ~ Lit(f0, f1, row, l)
    <3> SUFFICES ASSUME NEW l \in Nat, col <= l PROVE ~ Lit(f0, f1, row, l)
      OBVIOUS
    <3>1. PixelAt(f0, row, l) = SP
      BY <1>1, <1>7, NothingLeft
    <3>2. PixelAt(f1, row, l) = SP
      BY <1>1, <1>7, NothingLeft
    <3> QED BY <3>1, <3>2 DEF Lit
  <2>3. DrawnTo(f0, f1, added, row + 1, 0)
    BY <1>1, <2>2, RowOver
  <2>4. row + 1 \in Nat /\ 0 \in Nat
    BY <1>1
  <2> HIDE DEF a, b, e0, e1, q0, q1
  <2> QED BY <1>1, <1>2, <1>3, <1>4, <1>7, <2>1, <2>3, <2>4, Zenon DEF FramesInv
<1>8. CASE ~ (a = NL /\ b = NL)
  <2>1. /\ c0' = a /\ c1' = b /\ row' = row /\ col' = col + 1 /\ fdone' = fdone
        /\ added' = IF Visible(a, b)
             THEN Append(added, [row |-> row, col |-> col,
                                 on_char |-> OrBlank(a), off_char |-> OrBlank(b)])
             ELSE added
    BY <1>8, Zenon DEF FrameStep
  <2>2. Sign(f0, f1, row, col) = [row |-> row, col |-> col,
                                  on_char |-> OrBlank(a), off_char |-> OrBlank(b)]
    BY <1>5, Zenon DEF Sign
  <2>3. Visible(a, b) <=> Lit(f0, f1, row, col)
    BY <1>5, VisibleIsLit
  <2>4. DrawnTo(f0, f1, added', row, col + 1)
    <3>1. CASE Visible(a, b)
      <4>1. DrawnTo(f0, f1, Append(added, Sign(f0, f1, row, col)), row, col + 1)
        BY <1>1, <1>6, <2>3, <3>1, LitPlace
      <4>2. added' = Append(added, Sign(f0, f1, row, col))
        BY <2>1, <2>2, <3>1, Zenon
      <4> QED BY <4>1, <4>2, Zenon
    <3>2. CASE ~ Visible(a, b)
      <4>1. DrawnTo(f0, f1, added, row, col + 1)
        BY <1>1, <2>3, <3>2, BlankPlace
      <4> QED BY <2>1, <3>2, <4>1, Zenon
    <3> QED BY <3>1, <3>2
  <2>5. col + 1 \in Nat
    BY <1>1
  <2> HIDE DEF a, b, e0, e1, q0, q1
  <2> QED BY <1>1, <1>2, <1>3, <1>4, <2>1, <2>4, <2>5, Zenon DEF FramesInv
<1> QED BY <1>7, <1>8

LEMMA FramesInvExact == FramesInv => FramesExact
<1> SUFFICES ASSUME FramesInv, fdone PROVE FramesExact
  BY Zenon DEF FramesExact
<1> DEFINE I == 1 .. Len(added)
           P == (0 .. Longest) \X (0 .. Longest)
<1>1. DrawnTo(f0, f1, added, row, col) /\ row \in Nat /\ col \in Nat
  BY DEF FramesInv
<1>2. Len(f0) \in Nat /\ Len(f1) \in Nat
  BY PictureTypes DEF FramesInv
<1>3. FileOver(f0, pos0, c0, TRUE, row, col) /\ FileOver(f1, pos1, c1, TRUE, row, col)
  <2>1. eof0 /\ eof1 /\ FileAt(f0, pos0, c0, eof0, row, col)
        /\ FileAt(f1, pos1, c1, eof1, row, col)
    BY DEF FramesInv
  <2>2. FileOver(f0, pos0, c0, eof0, row, col) /\ FileOver(f1, pos1, c1, eof1, row, col)
    BY <2>1, Zenon DEF FileAt, InLine, LineOver
  <2> QED BY <2>1, <2>2, Zenon DEF FileOver
<1>4. \A r, k : NotBlank(r, k) <=> Lit(f0, f1, r, k)
  BY Zenon DEF NotBlank, Lit
<1>5. \A r, k : Blinking(r, k) = Sign(f0, f1, r, k)
  BY Zenon DEF Blinking, Sign
<1>6. ASSUME NEW r, NEW k, Lit(f0, f1, r, k)
      PROVE  r \in 0 .. Longest /\ k \in 0 .. Longest
  <2>1. \/ r \in 0 .. Len(f0) /\ k \in 0 .. Len(f0)
        \/ r \in 0 .. Len(f1) /\ k \in 0 .. Len(f1)
    BY <1>2, <1>6, PixelInside DEF Lit
  <2> QED BY <1>2, <2>1 DEF Longest
<1>7. Longest \in Nat
  BY <1>2 DEF Longest
<1>8. ASSUME NEW i \in I
      PROVE  \E p \in P : NotBlank(p[1], p[2]) /\ added[i] = Blinking(p[1], p[2])
  <2> DEFINE x == added[i]
  <2>1. Drawn(f0, f1, row, col, x)
    BY <1>1, <1>8, Zenon DEF DrawnTo
  <2>2. Lit(f0, f1, x.row, x.col) /\ x = Sign(f0, f1, x.row, x.col)
    BY <2>1, Zenon DEF Drawn
  <2>3. x.row \in 0 .. Longest /\ x.col \in 0 .. Longest
    BY <1>6, <2>2
  <2>4. NotBlank(x.row, x.col) /\ x = Blinking(x.row, x.col)
    BY <1>4, <1>5, <2>2
  <2> DEFINE p == <<x.row, x.col>>
  <2>5. p \in P /\ p[1] = x.row /\ p[2] = x.col
    BY <2>3
  <2> HIDE DEF p, P
  <2> QED BY <2>4, <2>5
<1>9. ASSUME NEW p \in P, NotBlank(p[1], p[2])
      PROVE  \E i \in I : added[i] = Blinking(p[1], p[2])
  <2>1. p[1] \in Nat /\ p[2] \in Nat /\ Lit(f0, f1, p[1], p[2])
    BY <1>4, <1>7, <1>9
  <2> DEFINE r == p[1]
             k == p[2]
  <2> HIDE DEF r, k
  <2>2. r \in Nat /\ k \in Nat /\ Lit(f0, f1, r, k)
    BY <2>1 DEF r, k
  <2>3. Before(r, k, row, col)
    BY <1>1, <1>2, <1>3, <2>2, NothingBehind DEF Lit
  <2>4. PICK i \in I : added[i].row = r /\ added[i].col = k
    <3>1. AllDrawn(f0, f1, added, row, col)
      BY <1>1, Zenon DEF DrawnTo
    <3> QED BY <2>2, <2>3, <3>1 DEF AllDrawn
  <2>5. added[i] = Sign(f0, f1, added[i].row, added[i].col)
    BY <1>1, <2>4, Zenon DEF DrawnTo, Drawn
  <2>6. added[i] = Blinking(r, k)
    BY <1>5, <2>4, <2>5
  <2> QED BY <2>6 DEF r, k
<1> HIDE DEF P
<1>10. {added[i] : i \in I} = {Blinking(p[1], p[2]) : p \in {q \in P : NotBlank(q[1], q[2])}}
  BY <1>8, <1>9
<1>11. DrawnOnce(added)
  BY <1>1 DEF DrawnTo
<1> QED BY <1>10, <1>11, Zenon DEF FramesExact, DrawnOnce, P

(* For all pictures: when add_frames is done, there is one blinking        *)
(* character for each place where one of the two pictures is not blank,    *)
(* it shows the two pictures in turn, and there is no other one.           *)
THEOREM FramesAlwaysExact == FramesSpec => []FramesExact
<1>1. ASSUME FramesInv, [FrameStep]_frvars PROVE FramesInv'
  <2>1. CASE FrameStep
    BY <1>1, <2>1, FrameStepInv
  <2>2. CASE UNCHANGED frvars
    BY <1>1, <2>2, Zenon DEF FramesInv, frvars
  <2> QED BY <1>1, <2>1, <2>2
<1> QED BY <1>1, FramesInitInv, FramesInvExact, PTL DEF FramesSpec

-----------------------------------------------------------------------------
(* Searching texts: what has been printed when all lines before a place    *)
(* have been searched.                                                     *)

LEMMA TextFacts ==
  ASSUME NEW d \in Dirs
  PROVE  /\ Len(d) \in Nat
         /\ \A e \in 1 .. Len(d) : /\ d[e] \in Seq(Nat) /\ Len(d[e]) \in Nat
                                   /\ \A i \in 1 .. Len(d[e]) : d[e][i] \in Nat \ {NUL}
                                   /\ Fits(d[e])
<1>1. d \in Seq(Seq(Nat \ {NUL})) /\ \A e \in 1 .. Len(d) : Fits(d[e])
  BY GrepAssumption
<1>2. ASSUME NEW e \in 1 .. Len(d) PROVE d[e] \in Seq(Nat \ {NUL})
  BY <1>1
<1>3. ASSUME NEW f \in Seq(Nat \ {NUL})
      PROVE  f \in Seq(Nat) /\ Len(f) \in Nat /\ \A i \in 1 .. Len(f) : f[i] \in Nat \ {NUL}
  OBVIOUS
<1> QED BY <1>1, <1>2, <1>3

(* The line l contains the string t.                                       *)
Matching(t, l) == \E i \in 0 .. Len(l) - Len(t) : SubSeq(l, i + 1, i + Len(t)) = t

LEMMA EmptyLine ==
  ASSUME NEW t \in Searches
  PROVE  ~ Matching(t, <<>>)
<1>1. t \in Seq(Nat) /\ t # <<>>
  BY GrepAssumption
<1>2. Len(t) \in Nat /\ Len(t) # 0
  BY <1>1
<1>3. Len(<<>>) = 0
  OBVIOUS
<1> QED BY <1>2, <1>3 DEF Matching

(* A line of entry e that contains the string, behind a bytes of it.       *)
HitAt(d, t, e, a) ==
  e \in 1 .. Len(d) /\ a \in Nat /\ LineStart(d[e], a) /\ Matching(t, LineFrom(d[e], a))

HitSet(d, t) == {q \in Nat \X Nat : HitAt(d, t, q[1], q[2])}

(* Those before a place, and those up to one of them: p is printed as the  *)
(* one whose number is the size of Through.                                *)
Earlier(d, t, e, a) == {q \in HitSet(d, t) : Before(q[1], q[2], e, a)}
Through(d, t, p) == {q \in HitSet(d, t) : q[1] < p[1] \/ (q[1] = p[1] /\ q[2] <= p[2])}

(* F is what has to be printed of the lines before a place.                *)
PrintedTo(d, t, F, e, a) ==
  /\ F \in Seq(Nat \X Seq(Nat))
  /\ IsFiniteSet(Earlier(d, t, e, a))
  /\ Len(F) = Cardinality(Earlier(d, t, e, a))
  /\ \A p \in Earlier(d, t, e, a) :
       F[Cardinality(Through(d, t, p))] = <<p[1], LineFrom(d[p[1]], p[2])>>

LEMMA SamePrinted ==
  ASSUME NEW d, NEW t, NEW F, NEW e, NEW a, NEW e2, NEW a2, PrintedTo(d, t, F, e, a),
         Earlier(d, t, e2, a2) = Earlier(d, t, e, a)
  PROVE  PrintedTo(d, t, F, e2, a2)
BY Zenon DEF PrintedTo

LEMMA OnePrinted ==
  ASSUME NEW d, NEW t, NEW F, NEW e \in Nat, NEW a \in Nat, NEW e2, NEW a2,
         PrintedTo(d, t, F, e, a), HitAt(d, t, e, a), LineFrom(d[e], a) \in Seq(Nat),
         Earlier(d, t, e2, a2) = Earlier(d, t, e, a) \cup {<<e, a>>}
  PROVE  PrintedTo(d, t, Append(F, <<e, LineFrom(d[e], a)>>), e2, a2)
<1> DEFINE E == Earlier(d, t, e, a)
           y == <<e, a>>
           x == <<e, LineFrom(d[e], a)>>
           G == Append(F, x)
           S == Nat \X Seq(Nat)
<1>1. F \in Seq(S) /\ IsFiniteSet(E) /\ Len(F) = Cardinality(E) /\ Len(F) \in Nat
  BY DEF PrintedTo
<1>2. x \in S
  OBVIOUS
<1>3. y \in HitSet(d, t) /\ y \notin E /\ y[1] = e /\ y[2] = a
  BY DEF HitSet, Earlier, Before
<1>4. IsFiniteSet(E \cup {y}) /\ Cardinality(E \cup {y}) = Len(F) + 1
  BY <1>1, <1>3, FS_AddElement
<1>5. Through(d, t, y) = E \cup {y}
  <2>1. ASSUME NEW q \in HitSet(d, t)
        PROVE  (q[1] < e \/ (q[1] = e /\ q[2] <= a)) <=> (Before(q[1], q[2], e, a) \/ q = y)
    <3>1. q \in Nat \X Nat
      BY DEF HitSet
    <3>2. q[1] \in Nat /\ q[2] \in Nat /\ q = <<q[1], q[2]>>
      BY <3>1
    <3>3. q = y <=> q[1] = e /\ q[2] = a
      BY <3>2
    <3> QED BY <3>2, <3>3 DEF Before
  <2> HIDE DEF y
  <2> QED BY <1>3, <2>1 DEF Through, Earlier
<1>6. ASSUME NEW p \in E PROVE Cardinality(Through(d, t, p)) \in 1 .. Len(F)
  <2> DEFINE P == Through(d, t, p)
  <2>1. p \in HitSet(d, t) /\ p[1] \in Nat /\ p[2] \in Nat /\ Before(p[1], p[2], e, a)
    BY <1>6 DEF Earlier, HitSet
  <2>2. p \in P
    BY <2>1 DEF Through
  <2>3. ASSUME NEW q \in P PROVE q \in E
    <3>1. q \in HitSet(d, t) /\ (q[1] < p[1] \/ (q[1] = p[1] /\ q[2] <= p[2]))
      BY <2>3 DEF Through
    <3>2. q[1] \in Nat /\ q[2] \in Nat
      BY <3>1 DEF HitSet
    <3>3. Before(q[1], q[2], e, a)
      BY <2>1, <3>1, <3>2 DEF Before
    <3> QED BY <3>1, <3>3 DEF Earlier
  <2> HIDE DEF P, E
  <2>4. IsFiniteSet(P) /\ Cardinality(P) <= Cardinality(E) /\ Cardinality(P) \in Nat
    BY <1>1, <2>3, FS_Subset, FS_CardinalityType
  <2>5. Cardinality(P) # 0
    BY <2>2, <2>4, FS_EmptySet
  <2> QED BY <1>1, <2>4, <2>5 DEF P
<1> HIDE DEF x, S, E, y
<1>7. /\ G \in Seq(S) /\ Len(G) = Len(F) + 1 /\ G[Len(F) + 1] = x
      /\ \A i \in 1 .. Len(F) : G[i] = F[i]
  BY <1>1, <1>2
<1> HIDE DEF G
<1>8. ASSUME NEW p \in E \cup {y}
      PROVE  G[Cardinality(Through(d, t, p))] = <<p[1], LineFrom(d[p[1]], p[2])>>
  <2>1. CASE p \in E
    <3>1. F[Cardinality(Through(d, t, p))] = <<p[1], LineFrom(d[p[1]], p[2])>>
      BY <2>1 DEF PrintedTo, E
    <3> QED BY <1>6, <1>7, <2>1, <3>1
  <2>2. CASE p = y
    <3>1. G[Cardinality(Through(d, t, y))] = x
      BY <1>4, <1>5, <1>7
    <3>2. x = <<y[1], LineFrom(d[y[1]], y[2])>>
      BY <1>3 DEF x
    <3> QED BY <2>2, <3>1, <3>2
  <2> QED BY <1>8, <2>1, <2>2
<1>9. Earlier(d, t, e2, a2) = E \cup {y}
  BY DEF E, y
<1>10. PrintedTo(d, t, G, e2, a2)
  BY <1>4, <1>7, <1>8, <1>9, Zenon DEF PrintedTo, S
<1> QED BY <1>10 DEF G, x

(* A line ends where the next line feed or the end of the file is.         *)
EndsAt(f, a, b) ==
  /\ b \in a .. Len(f) /\ (b = Len(f) \/ f[b + 1] = NL)
  /\ \A i \in a + 1 .. b : f[i] # NL

LEMMA LineStopIs ==
  ASSUME NEW f, Len(f) \in Nat, NEW a \in Nat, NEW b, EndsAt(f, a, b)
  PROVE  LineStop(f, a) = b
<1> DEFINE r == LineStop(f, a)
           P(z) == (z = Len(f) \/ f[z + 1] = NL) /\ \A i \in a + 1 .. z : f[i] # NL
<1>1. r = CHOOSE z \in a .. Len(f) : P(z)
  BY DEF LineStop
<1>2. b \in a .. Len(f) /\ P(b)
  BY DEF EndsAt
<1> HIDE DEF r
<1>3. r \in a .. Len(f) /\ P(r)
  <2> HIDE DEF P
  <2> QED BY <1>1, <1>2, Zenon
<1>4. ~ (b < r)
  <2> SUFFICES ASSUME b < r PROVE FALSE
    OBVIOUS
  <2>1. b + 1 \in a + 1 .. r /\ b # Len(f)
    BY <1>2, <1>3
  <2> QED BY <1>2, <1>3, <2>1
<1>5. ~ (r < b)
  <2> SUFFICES ASSUME r < b PROVE FALSE
    OBVIOUS
  <2>1. r + 1 \in a + 1 .. b /\ r # Len(f)
    BY <1>2, <1>3
  <2> QED BY <1>2, <1>3, <2>1
<1>6. r = b
  BY <1>2, <1>3, <1>4, <1>5
<1> QED BY <1>6 DEF r

(* Where grep is in a file: at the start of a line, or at the end of one   *)
(* that was searched already.                                              *)
Reached(d, t, F, e, c) ==
  /\ c \in 0 .. Len(d[e])
  /\ \/ LineStart(d[e], c) /\ PrintedTo(d, t, F, e, c)
     \/ (c = Len(d[e]) \/ d[e][c + 1] = NL) /\ PrintedTo(d, t, F, e, c + 1)

Bytes(f, c, b) == [i \in 1 .. b - c |-> f[c + i]]

LEMMA LineSearched ==
  ASSUME NEW d \in Dirs, NEW t \in Searches, NEW F, NEW e \in 1 .. Len(d), NEW c, NEW b,
         Reached(d, t, F, e, c), EndsAt(d[e], c, b)
  PROVE  PrintedTo(d, t, IF Matching(t, Bytes(d[e], c, b))
                           THEN Append(F, <<e, Bytes(d[e], c, b)>>) ELSE F, e, b + 1)
<1> DEFINE f == d[e]
           Ln == Bytes(f, c, b)
           G == IF Matching(t, Ln) THEN Append(F, <<e, Ln>>) ELSE F
<1>1. Len(f) \in Nat /\ f \in Seq(Nat) /\ e \in Nat
  BY TextFacts
<1> HIDE DEF f
<1>2. c \in Nat /\ b \in Nat /\ c <= b /\ b <= Len(f) /\ b \in c .. Len(f)
      /\ (b = Len(f) \/ f[b + 1] = NL) /\ \A i \in c + 1 .. b : f[i] # NL
  BY <1>1 DEF Reached, EndsAt, f
<1>3. CASE LineStart(f, c) /\ PrintedTo(d, t, F, e, c)
  <2>1. LineStop(f, c) = b
    BY <1>1, <1>2, LineStopIs DEF f
  <2>2. Ln = LineFrom(f, c)
    BY <2>1 DEF LineFrom, Bytes
  <2>3. Ln \in Seq(Nat)
    <3>1. b - c \in Nat /\ \A i \in 1 .. b - c : f[c + i] \in Nat
      BY <1>1, <1>2
    <3> QED BY <3>1, IsASeq DEF Bytes
  <2>4. ASSUME NEW q \in HitSet(d, t), q # <<e, c>>
        PROVE  Before(q[1], q[2], e, b + 1) <=> Before(q[1], q[2], e, c)
    <3>1. q \in Nat \X Nat /\ HitAt(d, t, q[1], q[2])
      BY <2>4 DEF HitSet
    <3>2. q[1] \in Nat /\ q[2] \in Nat /\ q = <<q[1], q[2]>>
      BY <3>1
    <3>3. CASE q[1] # e
      BY <3>2, <3>3, <1>1 DEF Before
    <3>4. CASE q[1] = e
      <4>1. q[2] # c
        BY <2>4, <3>2, <3>4
      <4>2. q[2] = 0 \/ f[q[2]] = NL
        BY <3>1, <3>4 DEF HitAt, LineStart, f
      <4>3. q[2] \notin c + 1 .. b
        BY <1>2, <4>2
      <4> QED BY <1>1, <1>2, <3>2, <3>4, <4>1, <4>3 DEF Before
    <3> QED BY <3>3, <3>4
  <2>5. Before(e, c, e, b + 1) /\ ~ Before(e, c, e, c)
    BY <1>1, <1>2 DEF Before
  <2>6. <<e, c>> \in HitSet(d, t) <=> Matching(t, Ln)
    <3>1. <<e, c>> \in HitSet(d, t) <=> HitAt(d, t, e, c)
      BY <1>1, <1>2 DEF HitSet
    <3>2. HitAt(d, t, e, c) <=> Matching(t, Ln)
      BY <1>1, <1>2, <1>3, <2>2 DEF HitAt, f
    <3> QED BY <3>1, <3>2
  <2> HIDE DEF Ln
  <2>7. CASE Matching(t, Ln)
    <3>1. Earlier(d, t, e, b + 1) = Earlier(d, t, e, c) \cup {<<e, c>>}
      BY <2>4, <2>5, <2>6, <2>7 DEF Earlier
    <3>2. HitAt(d, t, e, c)
      BY <2>6, <2>7 DEF HitSet
    <3>3. PrintedTo(d, t, Append(F, <<e, LineFrom(d[e], c)>>), e, b + 1)
      BY <1>1, <1>2, <1>3, <2>2, <2>3, <3>1, <3>2, OnePrinted DEF f
    <3>4. PrintedTo(d, t, G, e, b + 1)
      BY <2>2, <2>7, <3>3, Zenon DEF f
    <3> QED BY <3>4 DEF f, Ln
  <2>8. CASE ~ Matching(t, Ln)
    <3>1. Earlier(d, t, e, b + 1) = Earlier(d, t, e, c)
      BY <2>4, <2>5, <2>6, <2>8 DEF Earlier
    <3>2. PrintedTo(d, t, F, e, b + 1)
      BY <1>3, <3>1, SamePrinted
    <3>3. PrintedTo(d, t, G, e, b + 1)
      BY <2>8, <3>2, Zenon
    <3> QED BY <3>3 DEF f, Ln
  <2> QED BY <2>7, <2>8
<1>4. CASE (c = Len(f) \/ f[c + 1] = NL) /\ PrintedTo(d, t, F, e, c + 1)
  <2>1. b = c
    <3> SUFFICES ASSUME b # c PROVE FALSE
      OBVIOUS
    <3>1. c # Len(f) /\ c + 1 \in c + 1 .. b
      BY <1>1, <1>2
    <3> QED BY <1>2, <1>4, <3>1
  <2>2. Ln = <<>>
    BY <1>2, <2>1 DEF Bytes
  <2>3. ~ Matching(t, Ln)
    BY <2>2, EmptyLine
  <2> HIDE DEF Ln
  <2>4. PrintedTo(d, t, G, e, b + 1)
    BY <1>4, <2>1, <2>3, Zenon
  <2> QED BY <2>4 DEF f, Ln
<1> QED BY <1>3, <1>4 DEF Reached, f

(* The end of a file, and of the directory.                                *)
LEMMA FileSearched ==
  ASSUME NEW d \in Dirs, NEW t \in Searches, NEW F, NEW e \in 1 .. Len(d),
         Reached(d, t, F, e, Len(d[e]))
  PROVE  PrintedTo(d, t, F, e + 1, 0)
<1> DEFINE n == Len(d[e])
<1>1. n \in Nat /\ e \in Nat
  BY TextFacts
<1>2. EndsAt(d[e], n, n)
  BY <1>1 DEF EndsAt
<1>3. Bytes(d[e], n, n) = <<>>
  BY <1>1 DEF Bytes
<1>4. ~ Matching(t, Bytes(d[e], n, n))
  BY <1>3, EmptyLine
<1> HIDE DEF n
<1>5. PrintedTo(d, t, F, e, n + 1)
  <2>1. Reached(d, t, F, e, n)
    BY DEF n
  <2>2. PrintedTo(d, t, IF Matching(t, Bytes(d[e], n, n))
                          THEN Append(F, <<e, Bytes(d[e], n, n)>>) ELSE F, e, n + 1)
    BY <1>2, <2>1, LineSearched
  <2> QED BY <1>4, <2>2, Zenon
<1>6. ASSUME NEW q \in HitSet(d, t)
      PROVE  Before(q[1], q[2], e + 1, 0) <=> Before(q[1], q[2], e, n + 1)
  <2>1. q[1] \in Nat /\ q[2] \in Nat /\ HitAt(d, t, q[1], q[2])
    BY <1>6 DEF HitSet
  <2>2. q[1] = e => q[2] <= n
    BY <1>1, <2>1 DEF HitAt, LineStart, n
  <2> QED BY <1>1, <2>1, <2>2 DEF Before
<1>7. Earlier(d, t, e + 1, 0) = Earlier(d, t, e, n + 1)
  BY <1>6 DEF Earlier
<1> QED BY <1>5, <1>7, SamePrinted

-----------------------------------------------------------------------------
(* The buffer holds the bytes of the file from line_start on, up to where  *)
(* the file has been read.                                                 *)
Buffered(D, f, n, from, p) ==
  /\ n \in 0 .. BufSize /\ p \in n .. Len(f)
  /\ \A i \in from .. n - 1 : D[i] = f[p - n + i + 1]

ReadInv ==
  /\ entry \in 1 .. Len(dir) /\ last < BufSize
  /\ Buffered(data, File, last, 0, pos)
  /\ Reached(dir, search, found, entry, pos - last)

LineInv ==
  /\ entry \in 1 .. Len(dir)
  /\ line_start \in Nat /\ (line_start = 0 \/ line_start < last)
  /\ Buffered(data, File, last, line_start, pos)
  /\ last = BufSize \/ pos = Len(File)
  /\ cnt = 0 => pos = Len(File)
  /\ Reached(dir, search, found, entry, pos - last + line_start)

GrepInv ==
  /\ dir \in Dirs /\ search \in Searches
  /\ data \in [0 .. BufSize -> Nat]
  /\ entry \in 0 .. Len(dir)
  /\ gpc = "dir" => PrintedTo(dir, search, found, entry + 1, 0)
  /\ gpc = "read" => ReadInv
  /\ gpc = "line" => LineInv
  /\ gpc = "done" => PrintedTo(dir, search, found, Len(dir) + 1, 0)

LEMMA BufFacts == BufSize \in Nat /\ BufSize # 0 /\ StackBytes \subseteq Nat
BY GrepAssumption

LEMMA GrepInitInv == GrepInit => GrepInv
<1> SUFFICES ASSUME GrepInit PROVE GrepInv
  OBVIOUS
<1>1. /\ dir \in Dirs /\ search \in Searches /\ gpc = "dir" /\ entry = 0 /\ found = <<>>
      /\ data \in [0 .. BufSize -> StackBytes]
  BY DEF GrepInit
<1>2. data \in [0 .. BufSize -> Nat]
  BY <1>1, BufFacts
<1>3. Len(dir) \in Nat /\ entry \in 0 .. Len(dir) /\ entry + 1 = 1
  BY <1>1, TextFacts
<1>4. Earlier(dir, search, 1, 0) = {}
  <2> SUFFICES ASSUME NEW q \in Earlier(dir, search, 1, 0) PROVE FALSE
    OBVIOUS
  <2>1. q[1] \in Nat /\ q[2] \in Nat /\ q[1] \in 1 .. Len(dir) /\ Before(q[1], q[2], 1, 0)
    BY DEF Earlier, HitSet, HitAt
  <2> QED BY <1>3, <2>1 DEF Before
<1>5. PrintedTo(dir, search, <<>>, 1, 0)
  BY <1>4, FS_EmptySet DEF PrintedTo
<1> QED BY <1>1, <1>2, <1>3, <1>5, Zenon DEF GrepInv

(* The next file starts with a line.                                       *)
LEMMA NextEntryInv ==
  ASSUME GrepInv, NextEntry
  PROVE  GrepInv'
<1>1. /\ gpc = "dir" /\ pos' = 0 /\ last' = 0
      /\ dir' = dir /\ search' = search /\ data' = data /\ found' = found
  BY Zenon DEF NextEntry
<1>2. /\ dir \in Dirs /\ search \in Searches /\ data \in [0 .. BufSize -> Nat]
      /\ entry \in 0 .. Len(dir)
      /\ PrintedTo(dir, search, found, entry + 1, 0)
  BY <1>1, Zenon DEF GrepInv
<1>3. Len(dir) \in Nat
  BY <1>2, TextFacts
<1>4. CASE entry = Len(dir)
  <2>1. gpc' = "done" /\ entry' = entry
    BY <1>4, Zenon DEF NextEntry
  <2>2. PrintedTo(dir, search, found, Len(dir) + 1, 0)
    BY <1>2, <1>4, Zenon
  <2> QED BY <1>1, <1>2, <2>1, <2>2 DEF GrepInv
<1>5. CASE entry # Len(dir)
  <2>1. entry' = entry + 1 /\ gpc' \in {"read", "failed"}
    BY <1>5 DEF NextEntry
  <2>2. entry' \in 1 .. Len(dir) /\ entry' \in 0 .. Len(dir)
    BY <1>2, <1>3, <1>5, <2>1
  <2> DEFINE e == entry'
  <2> HIDE DEF e
  <2>3. e \in 1 .. Len(dir) /\ PrintedTo(dir, search, found, e, 0)
    BY <1>2, <2>1, <2>2 DEF e
  <2>4. Len(dir[e]) \in Nat
    BY <1>2, <2>3, TextFacts
  <2>5. Reached(dir, search, found, e, 0)
    <3>1. LineStart(dir[e], 0) /\ 0 \in 0 .. Len(dir[e])
      BY <2>4 DEF LineStart
    <3> QED BY <2>3, <3>1, Zenon DEF Reached
  <2>6. Buffered(data, dir[e], 0, 0, 0) /\ 0 < BufSize /\ 0 - 0 = 0
    BY <1>2, <2>4, BufFacts DEF Buffered
  <2>7. ReadInv'
    <3>1. File' = dir[e]
      BY <1>1 DEF File, e
    <3> QED BY <1>1, <1>2, <2>3, <2>5, <2>6, <3>1 DEF ReadInv, e
  <2> QED BY <1>1, <1>2, <2>1, <2>2, <2>7 DEF GrepInv
<1> QED BY <1>4, <1>5

(* A read fills the buffer or reaches the end of the file.                 *)
LEMMA ReadStepInv ==
  ASSUME GrepInv, Read
  PROVE  GrepInv'
<1> DEFINE n == Least(BufSize - last, Len(File) - pos)
           f == File
           D == [i \in 0 .. BufSize |->
                   IF i >= last /\ i < last + n THEN f[pos + i - last + 1] ELSE data[i]]
<1>1. /\ gpc = "read" /\ gpc' = "line" /\ cnt' = n /\ pos' = pos + n /\ last' = last + n
      /\ line_start' = 0 /\ data' = D
      /\ dir' = dir /\ search' = search /\ entry' = entry /\ found' = found
  BY Zenon DEF Read
<1>2. /\ dir \in Dirs /\ search \in Searches /\ data \in [0 .. BufSize -> Nat]
      /\ entry \in 0 .. Len(dir) /\ ReadInv
  BY <1>1, Zenon DEF GrepInv
<1>3. entry \in 1 .. Len(dir) /\ Buffered(data, f, last, 0, pos)
      /\ Reached(dir, search, found, entry, pos - last) /\ last < BufSize
  BY <1>2, Zenon DEF ReadInv
<1>4. Len(f) \in Nat /\ \A i \in 1 .. Len(f) : f[i] \in Nat
  BY <1>2, <1>3, TextFacts DEF File
<1>5. BufSize \in Nat /\ last \in Nat /\ pos \in Nat /\ last <= pos /\ pos <= Len(f)
  BY <1>3, <1>4, BufFacts DEF Buffered
<1>6. /\ n \in Nat /\ last + n <= BufSize /\ pos + n <= Len(f)
      /\ last + n = BufSize \/ pos + n = Len(f)
      /\ n = 0 => pos + n = Len(f)
  BY <1>3, <1>4, <1>5 DEF Least
<1> HIDE DEF n, f
<1>7. D \in [0 .. BufSize -> Nat]
  <2> SUFFICES ASSUME NEW i \in 0 .. BufSize,  i >= last /\ i < last + n
               PROVE  f[pos + i - last + 1] \in Nat
    BY <1>2
  <2>1. pos + i - last + 1 \in 1 .. Len(f)
    BY <1>5, <1>6
  <2> QED BY <1>4, <2>1
<1>8. \A i \in 0 .. BufSize :
        D[i] = IF i >= last /\ i < last + n THEN f[pos + i - last + 1] ELSE data[i]
  OBVIOUS
<1> HIDE DEF D
<1>9. Buffered(D, f, last + n, 0, pos + n)
  <2>1. last + n \in 0 .. BufSize /\ pos + n \in last + n .. Len(f)
    BY <1>5, <1>6
  <2>2. ASSUME NEW i \in 0 .. (last + n) - 1
        PROVE  D[i] = f[(pos + n) - (last + n) + i + 1]
    <3>1. i \in Nat /\ i \in 0 .. BufSize /\ i < last + n
          /\ (pos + n) - (last + n) + i + 1 = pos + i - last + 1
          /\ pos - last + i + 1 = pos + i - last + 1
      BY <1>5, <1>6, <2>2
    <3>2. CASE i >= last
      BY <1>8, <3>1, <3>2
    <3>3. CASE ~ (i >= last)
      <4>1. i \in 0 .. last - 1
        BY <1>5, <3>1, <3>3
      <4>2. data[i] = f[pos - last + i + 1]
        BY <1>3, <4>1 DEF Buffered
      <4> QED BY <1>8, <3>1, <3>3, <4>2
    <3> QED BY <3>2, <3>3
  <2> QED BY <2>1, <2>2, Zenon DEF Buffered
<1>10. (pos + n) - (last + n) + 0 = pos - last
  BY <1>5, <1>6
<1>11. LineInv'
  <2>1. File' = f
    BY <1>1 DEF File, f
  <2> QED BY <1>1, <1>3, <1>6, <1>9, <1>10, <2>1 DEF LineInv
<1> QED BY <1>1, <1>2, <1>7, <1>11 DEF GrepInv

LEMMA LineEndIs ==
  ASSUME line_start \in Nat, last \in 0 .. BufSize, line_start <= last
  PROVE  /\ LineEnd \in line_start .. last
         /\ LineEnd = last \/ data[LineEnd] = NL
         /\ \A i \in line_start .. LineEnd - 1 : data[i] # NL
<1> DEFINE T == {k \in Nat : k >= line_start /\ (k >= last \/ data[k] = NL)}
           P(z) == /\ z >= last \/ data[z] = NL
                   /\ \A i \in line_start .. z - 1 : i < last /\ data[i] # NL
           r == LineEnd
<1>1. last \in Nat /\ last <= BufSize /\ BufSize \in Nat
  BY BufFacts
<1>2. last \in T /\ T \in SUBSET Nat
  BY <1>1
<1>3. PICK m \in T : \A k \in T : m <= k
  BY <1>2, LeastNat
<1>4. m \in Nat /\ m >= line_start /\ m <= last /\ (m >= last \/ data[m] = NL)
  BY <1>2, <1>3
<1>5. ASSUME NEW i \in line_start .. m - 1 PROVE i < last /\ data[i] # NL
  <2>1. i \in Nat /\ i >= line_start /\ ~ (m <= i) /\ i < last
    BY <1>1, <1>4
  <2>2. i \notin T
    BY <1>3, <2>1
  <2> QED BY <2>1, <2>2
<1>6. m \in line_start .. BufSize /\ P(m)
  BY <1>1, <1>4, <1>5
<1>7. r = CHOOSE z \in line_start .. BufSize : P(z)
  BY DEF LineEnd
<1> HIDE DEF r, T
<1>8. r \in line_start .. BufSize /\ P(r)
  <2> HIDE DEF P
  <2> QED BY <1>6, <1>7, Zenon
<1>9. ~ (last < r)
  <2> SUFFICES ASSUME last < r PROVE FALSE
    OBVIOUS
  <2>1. last \in line_start .. r - 1
    BY <1>1, <1>8
  <2> QED BY <1>1, <1>8, <2>1
<1>10. r \in line_start .. last /\ (r = last \/ data[r] = NL)
       /\ \A i \in line_start .. r - 1 : data[i] # NL
  BY <1>1, <1>8, <1>9
<1> QED BY <1>10 DEF r

(* The part of a line moves to the start of the buffer.                    *)
LEMMA Moved ==
  ASSUME NEW D, NEW a \in Nat, NEW n \in 0 .. BufSize, a <= n, D[n] = NUL,
         \A i \in a .. n - 1 : D[i] # NUL
  PROVE  MoveDown(D, a) = [i \in 0 .. BufSize |-> IF i <= n - a THEN D[a + i] ELSE D[i]]
<1> DEFINE P(z) == D[z] = NUL /\ \A i \in a .. z - 1 : D[i] # NUL
           r == CHOOSE z \in a .. BufSize : P(z)
<1>1. BufSize \in Nat /\ n \in Nat
  BY BufFacts
<1>2. n \in a .. BufSize /\ P(n)
  BY <1>1
<1>3. MoveDown(D, a) = [i \in 0 .. BufSize |-> IF i <= r - a THEN D[a + i] ELSE D[i]]
  BY DEF MoveDown
<1>4. r \in a .. BufSize /\ P(r)
  <2> HIDE DEF P
  <2> QED BY <1>2, Zenon
<1> HIDE DEF r
<1>5. ~ (n < r)
  <2> SUFFICES ASSUME n < r PROVE FALSE
    OBVIOUS
  <2>1. n \in a .. r - 1
    BY <1>1, <1>2, <1>4
  <2> QED BY <1>2, <1>4, <2>1
<1>6. ~ (r < n)
  <2> SUFFICES ASSUME r < n PROVE FALSE
    OBVIOUS
  <2>1. r \in a .. n - 1
    BY <1>1, <1>2, <1>4
  <2> QED BY <1>2, <1>4, <2>1
<1>7. r = n
  BY <1>1, <1>2, <1>4, <1>5, <1>6
<1> QED BY <1>3, <1>7

(* The line in the buffer is the one of the file, if it ends there.        *)
LineFound ==
  /\ dir \in Dirs /\ search \in Searches /\ data \in [0 .. BufSize -> Nat]
  /\ entry \in 0 .. Len(dir) /\ LineInv

LEMMA LineTypes ==
  ASSUME LineFound
  PROVE  /\ Len(File) \in Nat /\ BufSize \in Nat /\ last \in Nat /\ pos \in Nat
         /\ line_start \in Nat /\ line_start <= last /\ last <= BufSize
         /\ last \in 0 .. BufSize /\ last <= pos /\ pos <= Len(File)
         /\ entry \in 1 .. Len(dir)
         /\ \A i \in line_start .. last - 1 : data[i] = File[pos - last + i + 1]
<1>1. /\ entry \in 1 .. Len(dir) /\ line_start \in Nat
      /\ line_start = 0 \/ line_start < last
      /\ Buffered(data, File, last, line_start, pos)
  BY DEF LineFound, LineInv
<1>2. Len(File) \in Nat
  BY <1>1, TextFacts DEF LineFound, File
<1>3. /\ last \in 0 .. BufSize /\ pos \in last .. Len(File)
      /\ \A i \in line_start .. last - 1 : data[i] = File[pos - last + i + 1]
  BY <1>1, Zenon DEF Buffered
<1>4. last \in Nat /\ pos \in Nat /\ last <= pos /\ pos <= Len(File) /\ last <= BufSize
  BY <1>2, <1>3, BufFacts
<1>5. line_start <= last
  BY <1>1, <1>4
<1> QED BY <1>1, <1>2, <1>3, <1>4, <1>5, BufFacts

LEMMA LineEnds ==
  ASSUME LineFound, LineEnd # last \/ cnt = 0 \/ line_start = 0
  PROVE  /\ EndsAt(File, pos - last + line_start, pos - last + LineEnd)
         /\ Text(data, line_start, LineEnd) =
              Bytes(File, pos - last + line_start, pos - last + LineEnd)
<1> DEFINE e == LineEnd
           f == File
           c == pos - last + line_start
           b == pos - last + e
<1>1. /\ Len(f) \in Nat /\ BufSize \in Nat /\ last \in Nat /\ pos \in Nat
      /\ line_start \in Nat /\ line_start <= last /\ last <= BufSize
      /\ last \in 0 .. BufSize /\ last <= pos /\ pos <= Len(f)
  BY LineTypes
<1>2. \A i \in line_start .. last - 1 : data[i] = f[pos - last + i + 1]
  BY LineTypes
<1>3. e \in line_start .. last /\ (e = last \/ data[e] = NL)
      /\ \A i \in line_start .. e - 1 : data[i] # NL
  BY <1>1, LineEndIs
<1>4. Fits(f) /\ (last = BufSize \/ pos = Len(f)) /\ (cnt = 0 => pos = Len(f))
  <2>1. entry \in 1 .. Len(dir) /\ dir \in Dirs
    BY LineTypes DEF LineFound
  <2> QED BY <2>1, TextFacts DEF LineFound, LineInv, File
<1> HIDE DEF e, f
<1>5. e \in Nat /\ line_start <= e /\ e <= last /\ c \in Nat /\ b \in Nat
      /\ b \in c .. Len(f) /\ b - c = e - line_start
  BY <1>1, <1>3
<1>6. ASSUME NEW i \in c + 1 .. b PROVE f[i] # NL
  <2> DEFINE k == i - 1 - (pos - last)
  <2>1. k \in line_start .. e - 1 /\ k \in line_start .. last - 1 /\ pos - last + k + 1 = i
    BY <1>1, <1>5
  <2> HIDE DEF k
  <2> QED BY <1>2, <1>3, <2>1
<1>7. b = Len(f) \/ f[b + 1] = NL
  <2>1. CASE e < last
    <3>1. e \in line_start .. last - 1 /\ data[e] = NL
      BY <1>1, <1>3, <1>5, <2>1
    <3> QED BY <1>2, <3>1
  <2>2. CASE e = last
    <3>1. b = pos
      BY <1>1, <2>2
    <3>2. CASE pos = Len(f)
      BY <3>1, <3>2
    <3>3. CASE pos # Len(f)
      <4>1. last = BufSize /\ line_start = 0
        BY <1>4, <2>2, <3>3 DEF e
      <4>2. c \in 0 .. Len(f) - BufSize - 1 /\ c + BufSize = b
        BY <1>1, <3>1, <3>3, <4>1
      <4>3. PICK j \in c + 1 .. c + BufSize + 1 : f[j] = NL
        BY <1>4, <4>2 DEF Fits
      <4>4. j = b + 1
        BY <1>5, <1>6, <4>2, <4>3, <1>1
      <4> QED BY <4>3, <4>4
    <3> QED BY <3>2, <3>3
  <2> QED BY <1>1, <1>5, <2>1, <2>2
<1>8. EndsAt(f, c, b)
  BY <1>5, <1>6, <1>7, Zenon DEF EndsAt
<1>9. Text(data, line_start, e) = Bytes(f, c, b)
  <2>1. ASSUME NEW i \in 1 .. e - line_start
        PROVE  data[line_start + i - 1] = f[c + i]
    <3> DEFINE k == line_start + i - 1
    <3>1. k \in line_start .. last - 1 /\ pos - last + k + 1 = c + i
      BY <1>1, <1>5
    <3> HIDE DEF k, c
    <3>2. data[k] = f[c + i]
      BY <1>2, <3>1
    <3> QED BY <3>2 DEF k
  <2> HIDE DEF c, b
  <2> QED BY <1>5, <2>1 DEF Text, Bytes
<1> QED BY <1>8, <1>9 DEF e, f

(* A NUL ends the line.                                                    *)
LEMMA LineCut ==
  ASSUME LineFound
  PROVE  LET D == [data EXCEPT ![LineEnd] = NUL] IN
         /\ LineEnd \in 0 .. BufSize /\ D \in [0 .. BufSize -> Nat] /\ D[LineEnd] = NUL
         /\ \A i \in 0 .. BufSize : i # LineEnd => D[i] = data[i]
<1> DEFINE e == LineEnd
           D == [data EXCEPT ![e] = NUL]
<1>1. /\ BufSize \in Nat /\ last \in Nat /\ line_start \in Nat /\ line_start <= last
      /\ last <= BufSize /\ last \in 0 .. BufSize
  BY LineTypes
<1>2. e \in line_start .. last
  BY <1>1, LineEndIs
<1>3. data \in [0 .. BufSize -> Nat] /\ NUL \in Nat
  BY DEF LineFound, NUL
<1> HIDE DEF e
<1>4. e \in 0 .. BufSize
  BY <1>1, <1>2
<1>5. D \in [0 .. BufSize -> Nat] /\ D[e] = NUL
      /\ \A i \in 0 .. BufSize : i # e => D[i] = data[i]
  BY <1>3, <1>4
<1> QED BY <1>4, <1>5 DEF e, D

(* A line that is cut is kept for the next piece of the file.              *)
LEMMA CutInv ==
  ASSUME GrepInv, LineStep, Incomplete(LineEnd)
  PROVE  GrepInv'
<1> DEFINE e == LineEnd
           D == [data EXCEPT ![e] = NUL]
           f == File
           n == last - line_start
<1>1. /\ gpc = "line" /\ data' = MoveDown(D, line_start) /\ last' = n
      /\ gpc' = "read" /\ found' = found
      /\ dir' = dir /\ search' = search /\ entry' = entry /\ pos' = pos
  BY Zenon DEF LineStep
<1>2. LineFound
  BY <1>1, Zenon DEF GrepInv, LineFound
<1>3. /\ Len(f) \in Nat /\ BufSize \in Nat /\ last \in Nat /\ pos \in Nat
      /\ line_start \in Nat /\ line_start <= last /\ last <= BufSize
      /\ last \in 0 .. BufSize /\ last <= pos /\ pos <= Len(f) /\ entry \in 1 .. Len(dir)
  BY <1>2, LineTypes
<1>4. \A i \in line_start .. last - 1 : data[i] = f[pos - last + i + 1]
  BY <1>2, LineTypes
<1>5. e \in line_start .. last /\ (e = last \/ data[e] = NL)
  BY <1>3, LineEndIs
<1>6. data[e] # NL /\ line_start # 0
  BY DEF Incomplete
<1>7. /\ D \in [0 .. BufSize -> Nat] /\ D[e] = NUL
      /\ \A i \in 0 .. BufSize : i # e => D[i] = data[i]
  BY <1>2, LineCut
<1>8. e = last
  BY <1>5, <1>6
<1>9. line_start < last
  BY <1>2, <1>3, <1>6 DEF LineFound, LineInv
<1>10. dir \in Dirs /\ search \in Searches /\ entry \in 0 .. Len(dir)
       /\ Reached(dir, search, found, entry, pos - last + line_start)
  BY <1>2 DEF LineFound, LineInv
<1>11. \A i \in 1 .. Len(f) : f[i] # NUL
  BY <1>3, <1>10, TextFacts DEF File
<1> HIDE DEF e, D, f
<1>12. ASSUME NEW i \in line_start .. last - 1
       PROVE  D[i] = f[pos - last + i + 1] /\ D[i] # NUL
  <2>1. i \in 0 .. BufSize /\ i # e /\ pos - last + i + 1 \in 1 .. Len(f)
    BY <1>3, <1>8
  <2> QED BY <1>4, <1>7, <1>11, <2>1
<1>13. data' = [i \in 0 .. BufSize |-> IF i <= n THEN D[line_start + i] ELSE D[i]]
  <2>1. D[last] = NUL
    BY <1>7, <1>8
  <2>2. MoveDown(D, line_start) =
          [i \in 0 .. BufSize |-> IF i <= last - line_start THEN D[line_start + i] ELSE D[i]]
    BY <1>3, <1>12, <2>1, Moved
  <2> QED BY <1>1, <2>2
<1>14. n \in Nat /\ n < BufSize /\ n <= pos /\ n \in 0 .. BufSize /\ pos \in n .. Len(f)
       /\ pos - n = pos - last + line_start
  BY <1>3, <1>6, <1>9
<1>15. ASSUME NEW i \in 0 .. BufSize
       PROVE  data'[i] \in Nat
  <2>1. data'[i] = IF i <= n THEN D[line_start + i] ELSE D[i]
    BY <1>13
  <2>2. i <= n => line_start + i \in 0 .. BufSize
    BY <1>3, <1>14
  <2> QED BY <1>7, <2>1, <2>2
<1>16. data' \in [0 .. BufSize -> Nat]
  <2>1. data' = [i \in 0 .. BufSize |-> data'[i]]
    BY <1>13
  <2> QED BY <1>15, <2>1
<1>17. ASSUME NEW i \in 0 .. n - 1 PROVE data'[i] = f[pos - n + i + 1]
  <2>1. i \in 0 .. BufSize /\ i <= n /\ line_start + i \in line_start .. last - 1
        /\ pos - last + (line_start + i) + 1 = pos - n + i + 1
    BY <1>3, <1>14
  <2>2. data'[i] = D[line_start + i]
    BY <1>13, <2>1
  <2> HIDE DEF n
  <2> QED BY <1>12, <2>1, <2>2
<1>18. Buffered(data', f, n, 0, pos)
  <2> HIDE DEF n
  <2> QED BY <1>14, <1>17 DEF Buffered
<1>19. ReadInv'
  <2>1. File' = f
    BY <1>1 DEF File, f
  <2>2. Reached(dir, search, found, entry, pos - n)
    BY <1>10, <1>14
  <2> HIDE DEF n
  <2> QED BY <1>1, <1>3, <1>14, <1>16, <1>18, <2>1, <2>2 DEF ReadInv
<1> QED BY <1>1, <1>10, <1>16, <1>19 DEF GrepInv

(* A line that ends is searched.                                           *)
LEMMA SearchedInv ==
  ASSUME GrepInv, LineStep, ~ Incomplete(LineEnd), ~ Misread(LineEnd)
  PROVE  GrepInv'
<1> DEFINE e == LineEnd
           D == [data EXCEPT ![e] = NUL]
           f == File
           c == pos - last + line_start
           b == pos - last + e
           Ln == Text(data, line_start, e)
<1>1. /\ gpc = "line" /\ data' = D /\ line_start' = e + 1
      /\ found' = IF Matches(Ln) THEN Append(found, <<entry, Ln>>) ELSE found
      /\ dir' = dir /\ search' = search /\ entry' = entry /\ pos' = pos /\ cnt' = cnt
  BY Zenon DEF LineStep
<1>2. IF e + 1 < last THEN gpc' = "line" /\ last' = last
                      ELSE last' = 0 /\ EndOfPiece
  BY Zenon DEF LineStep
<1>3. LineFound
  BY <1>1, Zenon DEF GrepInv, LineFound
<1>4. /\ Len(f) \in Nat /\ BufSize \in Nat /\ last \in Nat /\ pos \in Nat
      /\ line_start \in Nat /\ line_start <= last /\ last <= BufSize
      /\ last \in 0 .. BufSize /\ last <= pos /\ pos <= Len(f) /\ entry \in 1 .. Len(dir)
  BY <1>3, LineTypes
<1>5. \A i \in line_start .. last - 1 : data[i] = f[pos - last + i + 1]
  BY <1>3, LineTypes
<1>6. e \in line_start .. last /\ (e = last \/ data[e] = NL)
  BY <1>4, LineEndIs
<1>7. /\ D \in [0 .. BufSize -> Nat] /\ e \in 0 .. BufSize
      /\ \A i \in 0 .. BufSize : i # e => D[i] = data[i]
  BY <1>3, LineCut
<1>8. e # last \/ cnt = 0 \/ line_start = 0
  BY Zenon DEF Incomplete, Misread
<1>9. EndsAt(f, c, b) /\ Ln = Bytes(f, c, b)
  BY <1>3, <1>8, LineEnds
<1>10. /\ dir \in Dirs /\ search \in Searches /\ entry \in 0 .. Len(dir)
       /\ Reached(dir, search, found, entry, c)
       /\ last = BufSize \/ pos = Len(f)
       /\ cnt = 0 => pos = Len(f)
  BY <1>3 DEF LineFound, LineInv
<1>11. PrintedTo(dir, search, found', entry, b + 1)
  <2> HIDE DEF c, b
  <2>1. EndsAt(dir[entry], c, b)
    BY <1>9 DEF f, File
  <2>2. PrintedTo(dir, search, IF Matching(search, Bytes(dir[entry], c, b))
                    THEN Append(found, <<entry, Bytes(dir[entry], c, b)>>) ELSE found,
                  entry, b + 1)
    BY <1>4, <1>10, <2>1, LineSearched
  <2>3. Ln = Bytes(dir[entry], c, b)
    BY <1>9 DEF f, File
  <2>4. Matches(Ln) <=> Matching(search, Ln)
    BY Zenon DEF Matches, Matching
  <2> QED BY <1>1, <2>2, <2>3, <2>4, Zenon
<1> HIDE DEF e, D, f, Ln
<1>12. e \in Nat /\ line_start <= e /\ e <= last /\ b \in Nat /\ b + 1 = pos - last + (e + 1)
  BY <1>4, <1>6
<1>13. File' = f
  BY <1>1 DEF File, f
<1>14. (b = Len(f) \/ f[b + 1] = NL) /\ b <= Len(f)
  BY <1>9, <1>12, <1>4 DEF EndsAt
<1>15. CASE e + 1 < last
  <2>1. gpc' = "line" /\ last' = last
    BY <1>2, <1>15
  <2>2. f[b + 1] = NL /\ b + 1 \in 0 .. Len(f)
    <3>1. b # Len(f) /\ b + 1 <= Len(f)
      BY <1>4, <1>12, <1>15
    <3> QED BY <1>12, <1>14, <3>1
  <2>3. Reached(dir, search, found', entry, b + 1)
    <3>1. LineStart(f, b + 1)
      BY <2>2 DEF LineStart
    <3> HIDE DEF b
    <3> QED BY <1>11, <2>2, <3>1 DEF Reached, f, File
  <2>4. Buffered(D, f, last, e + 1, pos)
    <3>1. \A i \in e + 1 .. last - 1 : D[i] = f[pos - last + i + 1]
      <4> SUFFICES ASSUME NEW i \in e + 1 .. last - 1
                   PROVE  D[i] = f[pos - last + i + 1]
        OBVIOUS
      <4>1. i \in 0 .. BufSize /\ i # e /\ i \in line_start .. last - 1
        BY <1>4, <1>12
      <4> QED BY <1>5, <1>7, <4>1
    <3>2. pos \in last .. Len(f)
      BY <1>4
    <3> QED BY <1>4, <3>1, <3>2, Zenon DEF Buffered
  <2>5. LineInv'
    <3>1. e + 1 \in Nat
      BY <1>12
    <3>2. Reached(dir, search, found', entry, pos - last + (e + 1))
      BY <1>12, <2>3
    <3> QED BY <1>1, <1>4, <1>10, <1>13, <1>15, <2>1, <2>4, <3>1, <3>2 DEF LineInv
  <2> QED BY <1>1, <1>7, <1>10, <2>1, <2>5 DEF GrepInv
<1>16. CASE ~ (e + 1 < last)
  <2>1. last' = 0 /\ EndOfPiece
    BY <1>2, <1>16
  <2>2. Reached(dir, search, found', entry, pos)
    <3>1. CASE e = last
      <4>1. b = pos /\ pos \in 0 .. Len(f)
        BY <1>4, <3>1
      <4>2. pos = Len(f) \/ f[pos + 1] = NL
        BY <1>14, <4>1
      <4>3. PrintedTo(dir, search, found', entry, pos + 1)
        BY <1>11, <4>1
      <4> QED BY <4>1, <4>2, <4>3 DEF Reached, f, File
    <3>2. CASE e # last
      <4>1. b + 1 = pos /\ pos \in 0 .. Len(f) /\ b # Len(f)
        BY <1>4, <1>12, <1>16, <3>2
      <4>2. f[pos] = NL
        BY <1>14, <4>1
      <4>3. PrintedTo(dir, search, found', entry, pos)
        BY <1>11, <4>1
      <4>4. LineStart(f, pos)
        BY <4>1, <4>2 DEF LineStart
      <4> QED BY <4>1, <4>3, <4>4 DEF Reached, f, File
    <3> QED BY <3>1, <3>2
  <2>3. CASE cnt # 0
    <3>1. gpc' = "read"
      BY <2>1, <2>3 DEF EndOfPiece
    <3>2. Buffered(D, f, 0, 0, pos) /\ 0 < BufSize
      BY <1>4, BufFacts DEF Buffered
    <3>3. Reached(dir, search, found', entry, pos - 0)
      BY <1>4, <2>2
    <3>4. ReadInv'
      BY <1>1, <1>4, <1>13, <2>1, <3>2, <3>3 DEF ReadInv
    <3> QED BY <1>1, <1>7, <1>10, <3>1, <3>4 DEF GrepInv
  <2>4. CASE cnt = 0
    <3>1. gpc' = "dir"
      BY <2>1, <2>4 DEF EndOfPiece
    <3>2. Reached(dir, search, found', entry, Len(dir[entry]))
      BY <1>10, <2>2, <2>4 DEF f, File
    <3>3. PrintedTo(dir, search, found', entry + 1, 0)
      BY <1>4, <1>10, <3>2, FileSearched
    <3> QED BY <1>1, <1>7, <1>10, <3>1, <3>3 DEF GrepInv
  <2> QED BY <2>3, <2>4
<1> QED BY <1>15, <1>16

(* As long as no byte of the stack has ended a line.                       *)
Undeceived == ~ misread => GrepInv

LEMMA GrepStepInv ==
  ASSUME Undeceived, [GrepNext]_gvars
  PROVE  Undeceived'
<1> SUFFICES ASSUME ~ misread' PROVE GrepInv'
  BY DEF Undeceived
<1>1. ~ misread
  BY Zenon DEF GrepNext, NextEntry, Read, LineStep, gvars
<1>2. GrepInv
  BY <1>1 DEF Undeceived
<1>3. CASE LineStep
  <2>1. ~ Misread(LineEnd)
    BY <1>3, Zenon DEF LineStep
  <2> QED BY <1>2, <1>3, <2>1, CutInv, SearchedInv
<1>4. CASE UNCHANGED gvars
  BY <1>2, <1>4 DEF GrepInv, gvars, ReadInv, LineInv, File
<1> QED BY <1>2, <1>3, <1>4, NextEntryInv, ReadStepInv DEF GrepNext

LEMMA GrepInvExact == Undeceived => GrepExact
<1> SUFFICES ASSUME GrepInv, gpc = "done" PROVE GrepExact
  BY Zenon DEF GrepExact, Undeceived
<1>1. dir \in Dirs /\ PrintedTo(dir, search, found, Len(dir) + 1, 0)
  BY DEF GrepInv
<1>2. Len(dir) \in Nat
  BY <1>1, TextFacts
<1>3. \A l : Matches(l) <=> Matching(search, l)
  BY Zenon DEF Matches, Matching
<1>4. Hits = HitSet(dir, search)
  <2>1. ASSUME NEW q \in Hits PROVE q \in HitSet(dir, search)
    <3>1. PICK e \in 1 .. Len(dir) : \E a \in HitsIn(e) : q = <<e, a>>
      BY <2>1 DEF Hits
    <3>2. PICK a \in HitsIn(e) : q = <<e, a>>
      BY <3>1
    <3>3. a \in Nat /\ LineStart(dir[e], a) /\ Matches(LineFrom(dir[e], a))
      BY <3>2 DEF HitsIn
    <3>4. HitAt(dir, search, e, a)
      BY <1>3, <3>1, <3>3 DEF HitAt
    <3>5. e \in Nat
      BY <1>2, <3>1
    <3> QED BY <3>2, <3>3, <3>4, <3>5 DEF HitSet
  <2>2. ASSUME NEW q \in HitSet(dir, search) PROVE q \in Hits
    <3>1. q \in Nat \X Nat /\ HitAt(dir, search, q[1], q[2])
      BY <2>2 DEF HitSet
    <3>2. q = <<q[1], q[2]>>
      BY <3>1
    <3>3. q[1] \in 1 .. Len(dir) /\ q[2] \in HitsIn(q[1])
      BY <1>3, <3>1 DEF HitAt, HitsIn, LineStart
    <3> QED BY <3>2, <3>3 DEF Hits
  <2> QED BY <2>1, <2>2
<1>5. \A p : UpTo(p) = Through(dir, search, p)
  BY <1>4, Zenon DEF UpTo, Through
<1>6. Earlier(dir, search, Len(dir) + 1, 0) = Hits
  <2>1. ASSUME NEW q \in HitSet(dir, search) PROVE Before(q[1], q[2], Len(dir) + 1, 0)
    <3>1. q[1] \in 1 .. Len(dir)
      BY <2>1 DEF HitSet, HitAt
    <3> QED BY <1>2, <3>1 DEF Before
  <2> QED BY <1>4, <2>1 DEF Earlier
<1>7. /\ Len(found) = Cardinality(Hits)
      /\ \A p \in Hits : found[Cardinality(Through(dir, search, p))] =
                          <<p[1], LineFrom(dir[p[1]], p[2])>>
  BY <1>1, <1>6, Zenon DEF PrintedTo
<1> QED BY <1>5, <1>7, Zenon DEF GrepExact

(* For every directory of texts, every string and every size of the        *)
(* buffer that the lines fit, whatever bytes were on the stack: grep       *)
(* prints the lines that contain the string, each once, whole and in       *)
(* order, unless a line feed that was on the stack has ended a line.       *)
THEOREM GrepAlwaysExact == GrepSpec => []GrepExact
<1>1. GrepInit => Undeceived
  BY GrepInitInv DEF Undeceived
<1> QED BY <1>1, GrepStepInv, GrepInvExact, PTL DEF GrepSpec

=============================================================================
