--------------------------- MODULE HardwareProofs ---------------------------
(***************************************************************************)
(* Proofs about paging, the clock and the interrupt controllers.           *)
(***************************************************************************)
EXTENDS Rtc, Interrupts, Paging, SequenceTheorems, TLAPS

-----------------------------------------------------------------------------
(* Paging *)

KernelPage == Large(<<"4MB", 1>>, FALSE)
ProgramPage(s) == Large(UserFrame(s), TRUE)

(* What may be in the directory and in the TLB.                            *)
DirEntries == {page_table, video_table, KernelPage, Absent}
              \cup {ProgramPage(s) : s \in NSlots}
PFrames == {Video, Fault, <<"4MB", 1>>} \cup {UserFrame(s) : s \in NSlots}

PType ==
  /\ live \subseteq NSlots /\ running \in live
  /\ page_dir \in [{0, 1, 32, 33} -> DirEntries]
  /\ tlb \in [Pages -> PFrames]
  /\ vmem \subseteq NSlots
  /\ called \in BOOLEAN /\ pfrozen \in BOOLEAN

(* Only page_dir[32] ever changes, between the page of the running process *)
(* and the table of sys_vidmap.                                            *)
DirOK ==
  /\ page_dir[0] = page_table
  /\ page_dir[1] = KernelPage
  /\ page_dir[32] \in {ProgramPage(running), video_table}
  /\ page_dir[33] = Absent
  /\ ~called => page_dir[32] = ProgramPage(running)

(* What the TLB holds for the two pages of entry 32 was cached since the   *)
(* running process was mapped; video memory only since it called           *)
(* sys_vidmap.  Nothing is ever found behind the page.                     *)
TlbOK ==
  /\ tlb["program"] \in {Fault, UserFrame(running)}
  /\ tlb["first"] \in {Fault, UserFrame(running), Video}
  /\ ~called => tlb["first"] # Video
  /\ tlb["behind"] = Fault

PInv == /\ PType /\ DirOK /\ TlbOK
        /\ pfrozen => called \/ running \in vmem

LEMMA PageIndex ==
  /\ Pages = {"null", "video", "kernel", "first", "program", "behind"}
  /\ DirIndex["null"] = 0 /\ DirIndex["video"] = 0 /\ DirIndex["kernel"] = 1
  /\ DirIndex["first"] = 32 /\ DirIndex["program"] = 32 /\ DirIndex["behind"] = 33
  BY DEF Pages, DirIndex

(* What a walk through each kind of entry finds.                           *)
LEMMA EntryWalk ==
  ASSUME NEW p \in Pages
  PROVE  /\ \A s : ProgramPage(s).walk[p] = UserFrame(s) /\ ProgramPage(s).user
         /\ KernelPage.walk[p] = <<"4MB", 1>> /\ ~KernelPage.user
         /\ Absent.walk[p] = Fault /\ ~Absent.user
         /\ page_table.walk[p] \in {Video, Fault} /\ ~page_table.user
         /\ video_table.walk[p] = (IF p = "first" THEN Video ELSE Fault)
         /\ video_table.user
  BY DEF ProgramPage, KernelPage, Absent, page_table, video_table, Large, Table

LEMMA FramesDiffer ==
  /\ Video # Fault
  /\ \A s : UserFrame(s) # Video /\ UserFrame(s) # Fault
  BY DEF Video, Fault, UserFrame

(* What an access of each page finds, as long as the invariant holds.      *)
LEMMA ReachesWhat ==
  ASSUME PInv
  PROVE  /\ Reaches("program") \in {Fault, UserFrame(running)}
         /\ Reaches("first") \in {Fault, UserFrame(running), Video}
         /\ Reaches("behind") = Fault
         /\ ~called => /\ Reaches("program") = UserFrame(running)
                       /\ Reaches("first") = UserFrame(running)
         /\ \A p \in Pages : Reaches(p) \in PFrames
<1> USE DEF PInv
<1>1. {"first", "program", "behind"} \subseteq Pages
  BY PageIndex
<1>2. /\ Walk("program") \in {Fault, UserFrame(running)}
      /\ ~called => Walk("program") = UserFrame(running)
  BY <1>1, PageIndex, EntryWalk DEF Walk, DirOK
<1>3. /\ Walk("first") \in {Fault, UserFrame(running), Video}
      /\ ~called => Walk("first") = UserFrame(running)
  BY <1>1, PageIndex, EntryWalk DEF Walk, DirOK
<1>4. Walk("behind") = Fault
  BY <1>1, PageIndex, EntryWalk DEF Walk, DirOK
<1>5. \A p \in Pages : Walk(p) \in PFrames
  <2> SUFFICES ASSUME NEW p \in Pages PROVE Walk(p) \in PFrames
    OBVIOUS
  <2>1. DirIndex[p] \in {0, 1, 32, 33}
    BY PageIndex
  <2>2. page_dir[DirIndex[p]] \in DirEntries
    BY <2>1 DEF PType
  <2> DEFINE e == page_dir[DirIndex[p]]
  <2>3. Fault \in PFrames /\ Video \in PFrames /\ <<"4MB", 1>> \in PFrames
    BY DEF PFrames
  <2>4. CASE e \in {page_table, video_table, KernelPage, Absent}
    BY <2>3, <2>4, EntryWalk DEF Walk
  <2>5. CASE \E s \in NSlots : e = ProgramPage(s)
    BY <2>5, EntryWalk DEF Walk, PFrames
  <2> QED BY <2>2, <2>4, <2>5 DEF DirEntries
<1> QED BY <1>2, <1>3, <1>4, <1>5, FramesDiffer DEF Reaches, TlbOK, PType

LEMMA PInitInv == PInit => PInv
<1> SUFFICES ASSUME PInit PROVE PInv
  OBVIOUS
<1>1. 0 \in NSlots
  BY PagingAssumption DEF NSlots
<1>2. live = {0} /\ running = 0 /\ tlb = EmptyTlb /\ vmem = {} /\ ~called /\ ~pfrozen
  BY DEF PInit, NInit
<1>3. page_dir = [i \in {0, 1, 32, 33} |->
                    CASE i = 0 -> page_table [] i = 1 -> KernelPage
                      [] i = 32 -> ProgramPage(0) [] i = 33 -> Absent]
  BY DEF PInit, KernelPage, ProgramPage
<1>4. /\ page_dir[0] = page_table /\ page_dir[1] = KernelPage
      /\ page_dir[32] = ProgramPage(0) /\ page_dir[33] = Absent
  BY <1>3
<1>5. {page_table, KernelPage, ProgramPage(0), Absent} \subseteq DirEntries
  BY <1>1 DEF DirEntries
<1>6. page_dir \in [{0, 1, 32, 33} -> DirEntries]
  BY <1>3, <1>4, <1>5
<1>7. PType
  BY <1>1, <1>2, <1>6 DEF PInit, PType, EmptyTlb, PFrames
<1>8. DirOK /\ TlbOK
  BY <1>2, <1>4, PageIndex, FramesDiffer DEF DirOK, TlbOK, EmptyTlb
<1> QED BY <1>2, <1>7, <1>8 DEF PInv

(* A process is mapped: the directory and an empty TLB.                    *)
LEMMA MapProgramInv ==
  ASSUME PInv, NEW s \in NSlots, MapProgram(s),
         live' \subseteq NSlots, s \in live', running' = s,
         vmem' \subseteq NSlots, ~called', called' \in BOOLEAN,
         ~pfrozen', pfrozen' \in BOOLEAN
  PROVE  PInv'
<1>1. /\ page_dir' = [page_dir EXCEPT ![32] = ProgramPage(s)]
      /\ tlb' = EmptyTlb
  BY DEF MapProgram, ProgramPage
<1>2. PType'
  BY <1>1 DEF PInv, PType, DirEntries, EmptyTlb, PFrames
<1>3. DirOK'
  BY <1>1 DEF PInv, PType, DirOK
<1>4. TlbOK'
  BY <1>1, PageIndex, FramesDiffer DEF TlbOK, EmptyTlb
<1> QED BY <1>2, <1>3, <1>4 DEF PInv

LEMMA PExecuteInv ==
  ASSUME PInv, NEW s \in NSlots, PExecute(s)
  PROVE  PInv'
  BY MapProgramInv DEF PExecute, NExecute, PInv, PType

LEMMA PHaltInv ==
  ASSUME PInv, PHalt
  PROVE  PInv'
<1>1. PICK p \in live : NHalt(p)
  BY DEF PHalt
<1>2. /\ p \in NSlots /\ live' \subseteq NSlots /\ p \in live' /\ running' = p
      /\ vmem' \subseteq NSlots
  BY <1>1 DEF PHalt, NHalt, PInv, PType
<1>3. MapProgram(p)
  BY <1>2 DEF PHalt, MapProgram
<1> QED BY <1>2, <1>3, MapProgramInv DEF PHalt, PInv, PType

LEMMA PHaltBaseInv ==
  ASSUME PInv, PHaltBase
  PROVE  PInv'
  BY MapProgramInv DEF PHaltBase, PInv, PType

LEMMA SysVidmapInv ==
  ASSUME PInv, NEW p \in Pointers, SysVidmap(p)
  PROVE  PInv'
<1>1. /\ page_dir' = [page_dir EXCEPT ![32] = video_table] /\ called' = TRUE
      /\ UNCHANGED <<live, running, tlb>>
      /\ vmem' \in {vmem, vmem \cup {running}} /\ pfrozen' \in BOOLEAN
  BY DEF SysVidmap
<1>2. PType'
  BY <1>1 DEF PInv, PType, DirEntries
<1>3. DirOK' /\ TlbOK'
  BY <1>1 DEF PInv, PType, DirOK, TlbOK
<1> QED BY <1>1, <1>2, <1>3 DEF PInv

LEMMA FetchInv ==
  ASSUME PInv, Fetch
  PROVE  PInv'
<1>1. pfrozen' => called
  BY ReachesWhat, FramesDiffer DEF Fetch
<1> QED BY <1>1 DEF Fetch, PInv, PType, DirOK, TlbOK

LEMMA PokeScreenInv ==
  ASSUME PInv, PokeScreen
  PROVE  PInv'
  BY DEF PokeScreen, PInv, PType, DirOK, TlbOK

LEMMA FillInv ==
  ASSUME PInv, NEW p \in Pages, Fill(p) \/ Evict(p)
  PROVE  PInv'
<1>1. \E f \in {Reaches(p), Fault} : tlb' = [tlb EXCEPT ![p] = f]
  BY DEF Fill, Evict
<1>2. UNCHANGED <<live, running, page_dir, vmem, called, pfrozen>>
  BY DEF Fill, Evict
<1>3. PType'
  BY <1>1, <1>2, ReachesWhat DEF PInv, PType, PFrames
<1>4. TlbOK'
  BY <1>1, <1>2, ReachesWhat, PageIndex, FramesDiffer DEF PInv, PType, TlbOK
<1> QED BY <1>2, <1>3, <1>4 DEF PInv, DirOK

LEMMA PNextInv ==
  ASSUME PInv, [PNext]_pvars
  PROVE  PInv'
<1>1. CASE UNCHANGED pvars
  BY <1>1 DEF pvars, PInv, PType, DirOK, TlbOK
<1> QED BY <1>1, PExecuteInv, PHaltInv, PHaltBaseInv, SysVidmapInv, FetchInv,
           PokeScreenInv, FillInv DEF PNext

(* What a program reaches, cached or by a walk, is its own page, video     *)
(* memory or nothing, for any number of slots: no history of sys_execute,  *)
(* sys_halt and sys_vidmap leaves another process's page in reach.         *)
THEOREM Confinement == PSpec => []UserConfined
<1>1. PInv => UserConfined
  <2> SUFFICES ASSUME PInv, NEW p \in Pages, page_dir[DirIndex[p]].user
               PROVE  Reaches(p) \in {UserFrame(running), Video, Fault}
    BY DEF UserConfined
  <2>1. p \in {"first", "program", "behind"}
    BY PageIndex, EntryWalk DEF PInv, DirOK
  <2> QED BY <2>1, ReachesWhat
<1>2. PInv /\ [PNext]_pvars => PInv'
  BY PNextInv
<1> QED BY <1>1, <1>2, PInitInv, PTL DEF PSpec

(* A program that has not called sys_vidmap since it was executed or       *)
(* resumed reaches its own code, and only a process that has called it or  *)
(* has an address from it freezes the kernel, for any number of slots.     *)
THEOREM ProgramStaysMapped == PSpec => []ProgramMapped
<1>1. PInv => ProgramMapped
  BY ReachesWhat DEF ProgramMapped, PInv
<1>2. PInv /\ [PNext]_pvars => PInv'
  BY PNextInv
<1> QED BY <1>1, <1>2, PInitInv, PTL DEF PSpec

-----------------------------------------------------------------------------
(* The clock *)

(* A function on 1 .. n is a sequence.                                     *)
LEMMA ListOfFunction == \A S : \A n \in Nat : \A f \in [1 .. n -> S] : f \in Seq(S)
OBVIOUS

Registers == {"A", "B", "C"}
RateMatches(rate, freq) == freq \in Supported => 2^(16 - rate) = freq
Writing == {"get", "resel", "put"}

(* What the inductive invariant knows of a call, wherever it is suspended: *)
(* the register it has selected is selected, or hit says who moved it, and *)
(* what it has read of A keeps the divider.                                *)
DividerSet(byte) == (byte \div 16) % 8 = 2

CallOK(a, ix, sp) ==
  /\ a.pc \in Writing =>
       a.clock_rate \in 0 .. 15 /\ RateMatches(a.clock_rate, a.freq)
  /\ a.pc = "get" /\ "get" \notin a.hit /\ "program" \notin a.hit => ix = "A"
  /\ a.pc = "put" /\ "program" \notin a.hit => ix # "B"
  /\ a.pc = "put" /\ "put" \notin a.hit /\ "program" \notin a.hit => ix = "A"
  /\ a.pc \in {"resel", "put"} => a.previous % 16 = 0
  /\ a.pc \in {"resel", "put"} /\ ~sp /\ "get" \notin a.hit /\ "program" \notin a.hit
       => DividerSet(a.previous)
  /\ a.pc = "open_put" /\ "program" \notin a.hit => ix # "A"

Act == [pc : ProgramPcs \cup ClockPcs, clock_rate : Nat, previous : Nat,
        freq : Nat, hit : SUBSET (Windows \cup {"program"}), ticked : BOOLEAN]

(* The oldest entry is a program.                                          *)
Based(s) == s # <<>> /\ s[1].pc \in ProgramPcs

RtcTypes ==
  /\ index \in Registers
  /\ reg \in [A : Nat, B : Nat]
  /\ pending \in BOOLEAN /\ spoiled \in BOOLEAN /\ sure \in BOOLEAN
  /\ stack \in Seq(Act) /\ Based(stack)

RtcInv ==
  /\ RtcTypes
  /\ \A i \in 1 .. Len(stack) : CallOK(stack[i], index, spoiled)
  /\ sure => RateMatches(Low(reg.A), asked)
  /\ spoiled \/ (DividerSet(reg.A) /\ Bit6(reg.B))

(* The switch of rtc_write finds the rate of every supported frequency.    *)
LEMMA RateOfRight ==
  ASSUME NEW freq
  PROVE  RateOf(freq) \in 0 .. 15 /\ RateMatches(RateOf(freq), freq)
<1>1. CASE freq \notin Supported
  BY <1>1 DEF RateOf, RateMatches
<1>2. CASE freq \in Supported
  <2>1. \E r \in 8 .. 15 : 2^(16 - r) = freq
    <3>1. CASE freq = 2
      <4>1. 15 \in 8 .. 15 /\ 2^(16 - 15) = freq
        BY <3>1
      <4> QED BY <4>1, Zenon
    <3>2. CASE freq = 4
      <4>1. 14 \in 8 .. 15 /\ 2^(16 - 14) = freq
        BY <3>2
      <4> QED BY <4>1, Zenon
    <3>3. CASE freq = 8
      <4>1. 13 \in 8 .. 15 /\ 2^(16 - 13) = freq
        BY <3>3
      <4> QED BY <4>1, Zenon
    <3>4. CASE freq = 16
      <4>1. 12 \in 8 .. 15 /\ 2^(16 - 12) = freq
        BY <3>4
      <4> QED BY <4>1, Zenon
    <3>5. CASE freq = 32
      <4>1. 11 \in 8 .. 15 /\ 2^(16 - 11) = freq
        BY <3>5
      <4> QED BY <4>1, Zenon
    <3>6. CASE freq = 64
      <4>1. 10 \in 8 .. 15 /\ 2^(16 - 10) = freq
        BY <3>6
      <4> QED BY <4>1, Zenon
    <3>7. CASE freq = 128
      <4>1. 9 \in 8 .. 15 /\ 2^(16 - 9) = freq
        BY <3>7
      <4> QED BY <4>1, Zenon
    <3>8. CASE freq = 256
      <4>1. 8 \in 8 .. 15 /\ 2^(16 - 8) = freq
        BY <3>8
      <4> QED BY <4>1, Zenon
    <3> QED BY <1>2, <3>1, <3>2, <3>3, <3>4, <3>5, <3>6, <3>7, <3>8 DEF Supported
  <2>2. RateOf(freq) = CHOOSE r \in 8 .. 15 : 2^(16 - r) = freq
    BY <1>2 DEF RateOf
  <2>3. RateOf(freq) \in 8 .. 15 /\ 2^(16 - RateOf(freq)) = freq
    BY <2>1, <2>2, Zenon
  <2> QED BY <2>3 DEF RateMatches
<1> QED BY <1>1, <1>2


(* A step of the call on top: the others keep what the invariant knows.    *)
LEMMA BecomeOK ==
  ASSUME RtcInv, NEW act \in Act, Become(act), NEW sp \in BOOLEAN, spoiled => sp,
         CallOK(act, index, sp), act.pc \in ProgramPcs
  PROVE  /\ stack' \in Seq(Act) /\ Based(stack')
         /\ Len(stack') = Len(stack)
         /\ \A i \in 1 .. Len(stack') : CallOK(stack'[i], index, sp)
<1>1. stack \in Seq(Act) /\ Len(stack) \in Nat \ {0}
  BY DEF RtcInv, RtcTypes, Based
<1>2. /\ stack' \in Seq(Act) /\ Based(stack') /\ Len(stack') = Len(stack)
      /\ \A i \in 1 .. Len(stack) :
           stack'[i] = IF i = Len(stack) THEN act ELSE stack[i]
  BY <1>1 DEF Become, RtcInv, RtcTypes, Based
<1>3. \A i \in 1 .. Len(stack) : CallOK(stack[i], index, sp)
  BY <1>1 DEF RtcInv, CallOK
<1> HIDE DEF CallOK
<1> QED BY <1>2, <1>3

(* A select: those who lose their register are marked.                     *)
LEMMA SelectOK ==
  ASSUME RtcInv, NEW r \in Registers, NEW act \in Act, SelectReg(r, act),
         r = "C" <=> act.pc = "readC", CallOK(act, r, spoiled),
         act.pc \in ProgramPcs \/ TopAct.pc \in ClockPcs
  PROVE  /\ index' = r
         /\ stack' \in Seq(Act) /\ Based(stack')
         /\ Len(stack') = Len(stack)
         /\ \A i \in 1 .. Len(stack') : CallOK(stack'[i], r, spoiled)
<1>1. stack \in Seq(Act) /\ Len(stack) \in Nat \ {0}
  BY DEF RtcInv, RtcTypes, Based
<1> DEFINE who(pc) == IF act.pc = "readC" THEN pc ELSE "program"
           new(a) == [a EXCEPT !.hit = @ \cup {who(a.pc)}]
<1>2. index' = r
  BY DEF SelectReg
<1>3. stack' = [i \in 1 .. Len(stack) |->
                  IF i = Len(stack) THEN act
                  ELSE IF stack[i].pc \in Windows THEN new(stack[i]) ELSE stack[i]]
  BY DEF SelectReg
<1>4. ASSUME NEW i \in 1 .. Len(stack)
      PROVE  stack'[i] \in Act /\ CallOK(stack'[i], r, spoiled)
  <2>1. stack[i] \in Act /\ CallOK(stack[i], index, spoiled)
    BY <1>1 DEF RtcInv
  <2>2. CASE i = Len(stack)
    BY <1>3, <2>2
  <2>3. CASE i # Len(stack) /\ stack[i].pc \in Windows
    <3>1. stack'[i] = new(stack[i])
      BY <1>3, <2>3
    <3> DEFINE a == stack[i]
               b == stack'[i]
    <3>2. who(a.pc) \in Windows \cup {"program"}
      BY <2>3
    <3>3. /\ b \in Act /\ b.pc = a.pc /\ b.clock_rate = a.clock_rate
          /\ b.previous = a.previous /\ b.freq = a.freq
          /\ b.hit = a.hit \cup {who(a.pc)}
      BY <2>1, <3>1, <3>2 DEF Act
    <3> HIDE DEF a, b
    <3>4. CallOK(a, index, spoiled)
      BY <2>1 DEF a
    <3>5. CallOK(b, r, spoiled)
      BY <3>3, <3>4 DEF CallOK, Registers
    <3> QED BY <3>3, <3>5 DEF b
  <2>4. CASE i # Len(stack) /\ stack[i].pc \notin Windows
    BY <1>3, <2>1, <2>4 DEF CallOK, Windows
  <2> QED BY <2>2, <2>3, <2>4
<1>5. stack' \in Seq(Act) /\ Len(stack') = Len(stack) /\ Based(stack')
  <2> HIDE DEF new, who
  <2>1. stack' = [i \in 1 .. Len(stack) |-> stack'[i]]
    BY <1>3
  <2>2. DOMAIN stack' = 1 .. Len(stack)
    BY <1>3
  <2>3. stack' \in [1 .. Len(stack) -> Act]
    BY <2>1, <1>4
  <2>4. stack' \in Seq(Act)
    BY <2>3, <1>1, ListOfFunction
  <2>5. Len(stack') = Len(stack)
    BY <2>2, <2>4, <1>1, LenProperties
  <2>6. stack'[1].pc \in ProgramPcs
    <3>1. CASE Len(stack) = 1
      BY <3>1, <1>3 DEF RtcInv, RtcTypes, Based, TopAct, ProgramPcs, ClockPcs
    <3>2. CASE Len(stack) # 1
      BY <1>1, <1>3, <3>2 DEF new, RtcInv, RtcTypes, Based, Act
    <3> QED BY <3>1, <3>2
  <2> QED BY <2>4, <2>5, <2>6, <1>1 DEF Based
<1> QED BY <1>2, <1>4, <1>5

LEMMA IdleOK ==
  ASSUME NEW pc \in {"user", "spin", "open_get", "rtc", "selC", "readC"},
         NEW ix, NEW sp
  PROVE  Idle(pc) \in Act /\ CallOK(Idle(pc), ix, sp) /\ Idle(pc).pc = pc
BY DEF Idle, Act, CallOK, Writing, ProgramPcs, ClockPcs

(* Something comes on top, or what is on top ends.                         *)
LEMMA PushPopOK ==
  ASSUME RtcInv, NEW sp \in BOOLEAN, spoiled => sp,
         \/ stack' = Append(stack, Idle("rtc"))
         \/ stack' = Append(stack, Idle("user"))
         \/ stack' = SubSeq(stack, 1, Len(stack) - 1) /\ Len(stack) > 1
  PROVE  /\ stack' \in Seq(Act) /\ Based(stack')
         /\ \A i \in 1 .. Len(stack') : CallOK(stack'[i], index, sp)
<1>1. stack \in Seq(Act) /\ Len(stack) \in Nat \ {0}
  BY DEF RtcInv, RtcTypes, Based
<1>2. \A i \in 1 .. Len(stack) : CallOK(stack[i], index, sp)
  BY <1>1 DEF RtcInv, CallOK
<1> HIDE DEF CallOK, RtcInv, Idle
<1>3. ASSUME NEW pc \in {"user", "rtc"}, stack' = Append(stack, Idle(pc))
      PROVE  /\ stack' \in Seq(Act) /\ Based(stack')
             /\ \A i \in 1 .. Len(stack') : CallOK(stack'[i], index, sp)
  <2>1. Idle(pc) \in Act /\ CallOK(Idle(pc), index, sp)
    BY IdleOK
  <2>2. stack[1].pc \in ProgramPcs
    BY DEF RtcInv, RtcTypes, Based
  <2> HIDE DEF Act
  <2> QED BY <1>1, <1>2, <1>3, <2>1, <2>2 DEF Based
<1>4. CASE stack' = SubSeq(stack, 1, Len(stack) - 1) /\ Len(stack) > 1
  <2>1. /\ stack' \in Seq(Act) /\ Len(stack') = Len(stack) - 1
        /\ \A i \in 1 .. Len(stack) - 1 : stack'[i] = stack[i]
    <3> HIDE DEF Act
    <3> QED BY <1>1, <1>4
  <2>2. stack[1].pc \in ProgramPcs
    BY DEF RtcInv, RtcTypes, Based
  <2>3. Len(stack') \in Nat /\ Len(stack') >= 1 /\ 1 \in 1 .. Len(stack) - 1
    BY <1>1, <1>4, <2>1
  <2>4. stack'[1].pc \in ProgramPcs /\ stack' # <<>>
    BY <2>1, <2>2, <2>3
  <2>5. \A i \in 1 .. Len(stack') : i \in 1 .. Len(stack) /\ stack'[i] = stack[i]
    BY <1>1, <2>1
  <2>6. \A i \in 1 .. Len(stack') : CallOK(stack'[i], index, sp)
    BY <1>2, <2>5, Zenon
  <2> QED BY <2>1, <2>4, <2>6 DEF Based
<1>5. CASE stack' = Append(stack, Idle("rtc"))
  <2>1. "rtc" \in {"user", "rtc"}
    OBVIOUS
  <2> QED BY <1>3, <1>5, <2>1, Zenon
<1>6. CASE stack' = Append(stack, Idle("user"))
  <2>1. "user" \in {"user", "rtc"}
    OBVIOUS
  <2> QED BY <1>3, <1>6, <2>1, Zenon
<1> QED BY <1>4, <1>5, <1>6

LEMMA RtcInvStep ==
  ASSUME RtcInv, [Next]_rvars
  PROVE  RtcInv'
<1>1. stack \in Seq(Act) /\ Len(stack) \in Nat \ {0}
  BY DEF RtcInv, RtcTypes, Based
<1>2. TopAct \in Act /\ CallOK(TopAct, index, spoiled)
  BY <1>1 DEF RtcInv, TopAct
<1>3. InByte \in Nat
  BY DEF InByte, RtcInv, RtcTypes, Registers
(* Steps that leave the registers and the histories alone.                 *)
<1>4. ASSUME UNCHANGED <<reg, asked, sure, spoiled>>, index' \in Registers,
             pending' \in BOOLEAN, stack' \in Seq(Act), Based(stack'),
             \A i \in 1 .. Len(stack') : CallOK(stack'[i], index', spoiled)
      PROVE  RtcInv'
  BY <1>4 DEF RtcInv, RtcTypes, Low, Bit6, DividerSet, RateMatches
<1>5. ASSUME NEW freq \in Requests, WriteStart(freq) PROVE RtcInv'
  <2> DEFINE act == [Idle("get") EXCEPT !.clock_rate = RateOf(freq), !.freq = freq]
  <2>1. freq \in Nat /\ RateOf(freq) \in 0 .. 15 /\ RateMatches(RateOf(freq), freq)
    BY RateOfRight, RtcAssumption
  <2>2. /\ act \in Act /\ act.pc = "get" /\ act.clock_rate = RateOf(freq)
        /\ act.freq = freq /\ act.hit = {}
    <3>1. Idle("get") \in Act /\ Idle("get").pc = "get" /\ Idle("get").hit = {}
      BY DEF Idle, Act, ProgramPcs
    <3>2. RateOf(freq) \in Nat
      BY <2>1
    <3> HIDE DEF RateOf, Idle
    <3> QED BY <2>1, <3>1, <3>2 DEF Act
  <2>5. CallOK(act, "A", spoiled)
    <3> HIDE DEF RateOf, RateMatches, act
    <3> QED BY <2>1, <2>2 DEF CallOK, Writing
  <2>3. SelectReg("A", act)
    BY <1>5 DEF WriteStart
  <2> HIDE DEF act
  <2>4. index' = "A" /\ stack' \in Seq(Act) /\ Based(stack')
        /\ \A i \in 1 .. Len(stack') : CallOK(stack'[i], "A", spoiled)
    BY <2>2, <2>5, <2>3, SelectOK DEF Registers, ProgramPcs
  <2> QED BY <1>4, <1>5, <2>4 DEF WriteStart, Histories, Registers, RtcInv, RtcTypes
<1>6. CASE WriteGet
  <2> DEFINE act == [TopAct EXCEPT !.pc = "resel", !.previous = HighHalf(InByte)]
  <2>1. HighHalf(InByte) \in Nat /\ HighHalf(InByte) % 16 = 0
    BY <1>3 DEF HighHalf
  <2>2. ~spoiled /\ index = "A" => DividerSet(HighHalf(InByte))
    BY DEF InByte, DividerSet, HighHalf, RtcInv, RtcTypes
  <2>3. act \in Act /\ act.pc \in ProgramPcs /\ CallOK(act, index, spoiled)
    <3> HIDE DEF HighHalf, InByte, TopAct, DividerSet, RateMatches
    <3> QED BY <1>2, <1>6, <2>1, <2>2 DEF WriteGet, Running, Act, CallOK, Writing, ProgramPcs
  <2>4. Become(act)
    BY <1>6 DEF WriteGet
  <2> HIDE DEF act
  <2>5. stack' \in Seq(Act) /\ Based(stack')
        /\ \A i \in 1 .. Len(stack') : CallOK(stack'[i], index, spoiled)
    BY <2>3, <2>4, BecomeOK DEF RtcInv, RtcTypes
  <2> QED BY <1>4, <1>6, <2>5 DEF WriteGet, AfterRead, Histories, RtcInv, RtcTypes
<1>7. CASE WriteSelectAgain
  <2> DEFINE act == [TopAct EXCEPT !.pc = "put"]
  <2>1. act \in Act /\ act.pc = "put" /\ CallOK(act, "A", spoiled)
    <3> HIDE DEF TopAct, DividerSet, RateMatches
    <3> QED BY <1>2, <1>7 DEF WriteSelectAgain, Running, Act, CallOK, Writing, ProgramPcs
  <2>2. SelectReg("A", act)
    BY <1>7 DEF WriteSelectAgain
  <2> HIDE DEF act
  <2>3. index' = "A" /\ stack' \in Seq(Act) /\ Based(stack')
        /\ \A i \in 1 .. Len(stack') : CallOK(stack'[i], "A", spoiled)
    BY <2>1, <2>2, SelectOK DEF Registers, ProgramPcs
  <2> QED BY <1>4, <1>7, <2>3 DEF WriteSelectAgain, Histories, Registers, RtcInv, RtcTypes
<1>8. CASE WritePut
  <2> DEFINE a == TopAct
             byte == a.previous + a.clock_rate
  <2>1. /\ a.pc = "put" /\ UNCHANGED <<index, pending>>
        /\ asked' = a.freq
        /\ sure' = ("put" \notin a.hit /\ "program" \notin a.hit)
        /\ spoiled' = (spoiled \/ "get" \in a.hit \/ "program" \in a.hit)
        /\ OutByte(byte) /\ Become(Idle("user"))
    BY <1>8 DEF WritePut, Running
  <2>2. /\ a.previous \in Nat /\ a.clock_rate \in 0 .. 15 /\ a.previous % 16 = 0
        /\ RateMatches(a.clock_rate, a.freq)
    BY <1>2, <2>1 DEF CallOK, Writing, Act
  <2>3. Low(byte) = a.clock_rate /\ byte \in Nat
    <3> HIDE DEF a
    <3> QED BY <2>2 DEF Low
  <2>4. DividerSet(a.previous) => DividerSet(byte)
    <3> HIDE DEF a
    <3> QED BY <2>2 DEF DividerSet
  <2>5. stack' \in Seq(Act) /\ Based(stack') /\ spoiled' \in BOOLEAN
        /\ \A i \in 1 .. Len(stack') : CallOK(stack'[i], index, spoiled')
    BY <2>1, IdleOK, BecomeOK DEF RtcInv, RtcTypes, ProgramPcs
  <2>6. /\ sure' => index = "A"
        /\ ~spoiled' => index # "B" /\ ~spoiled /\ DividerSet(a.previous)
    BY <1>2, <2>1 DEF CallOK
  <2> HIDE DEF a, byte
  <2>7. reg' = IF index = "C" THEN reg ELSE [reg EXCEPT ![index] = byte]
    BY <2>1 DEF OutByte
  <2>8. reg \in [A : Nat, B : Nat] /\ index \in {"A", "B", "C"}
    BY DEF RtcInv, RtcTypes, Registers
  <2>9. /\ reg' \in [A : Nat, B : Nat]
        /\ index = "A" => reg'.A = byte /\ reg'.B = reg.B
        /\ index = "C" => reg' = reg
    BY <2>3, <2>7, <2>8
  <2>10. sure' => RateMatches(Low(reg'.A), asked')
    BY <2>1, <2>2, <2>3, <2>6, <2>9
  <2>11. ~spoiled => DividerSet(reg.A) /\ Bit6(reg.B)
    BY DEF RtcInv
  <2>12. spoiled' \/ (DividerSet(reg'.A) /\ Bit6(reg'.B))
    <3> HIDE DEF DividerSet, Bit6
    <3> QED BY <2>4, <2>6, <2>8, <2>9, <2>11
  <2>13. sure' \in BOOLEAN /\ index' \in Registers /\ pending' \in BOOLEAN
    BY <2>1 DEF RtcInv, RtcTypes
  <2> HIDE DEF CallOK, RateMatches, Low, DividerSet, Bit6
  <2> QED BY <2>1, <2>5, <2>9, <2>10, <2>12, <2>13 DEF RtcInv, RtcTypes
<1>9. CASE OpenStart
  <2>1. index' = "B" /\ stack' \in Seq(Act) /\ Based(stack')
        /\ \A i \in 1 .. Len(stack') : CallOK(stack'[i], "B", spoiled)
    BY <1>9, IdleOK, SelectOK DEF OpenStart, Registers, ProgramPcs
  <2> QED BY <1>4, <1>9, <2>1 DEF OpenStart, Histories, Registers, RtcInv, RtcTypes
<1>10. CASE OpenGet
  <2> DEFINE act == [TopAct EXCEPT !.pc = "open_resel", !.previous = InByte]
  <2>1. act \in Act /\ act.pc \in ProgramPcs /\ CallOK(act, index, spoiled)
    <3> HIDE DEF InByte, TopAct, DividerSet, RateMatches
    <3> QED BY <1>2, <1>3, <1>10 DEF OpenGet, Running, Act, CallOK, Writing, ProgramPcs
  <2>2. Become(act)
    BY <1>10 DEF OpenGet
  <2> HIDE DEF act
  <2>3. stack' \in Seq(Act) /\ Based(stack')
        /\ \A i \in 1 .. Len(stack') : CallOK(stack'[i], index, spoiled)
    BY <2>1, <2>2, BecomeOK DEF RtcInv, RtcTypes
  <2> QED BY <1>4, <1>10, <2>3 DEF OpenGet, AfterRead, Histories, RtcInv, RtcTypes
<1>11. CASE OpenSelectAgain
  <2> DEFINE act == [TopAct EXCEPT !.pc = "open_put"]
  <2>1. act \in Act /\ act.pc = "open_put" /\ CallOK(act, "B", spoiled)
    <3> HIDE DEF TopAct, DividerSet, RateMatches
    <3> QED BY <1>2, <1>11 DEF OpenSelectAgain, Running, Act, CallOK, Writing, ProgramPcs
  <2>2. SelectReg("B", act)
    BY <1>11 DEF OpenSelectAgain
  <2> HIDE DEF act
  <2>3. index' = "B" /\ stack' \in Seq(Act) /\ Based(stack')
        /\ \A i \in 1 .. Len(stack') : CallOK(stack'[i], "B", spoiled)
    BY <2>1, <2>2, SelectOK DEF Registers, ProgramPcs
  <2> QED BY <1>4, <1>11, <2>3 DEF OpenSelectAgain, Histories, Registers, RtcInv, RtcTypes
<1>12. CASE OpenPut
  <2> DEFINE a == TopAct
             byte == SetBit6(a.previous)
  <2>1. /\ a.pc = "open_put" /\ UNCHANGED <<index, pending, asked>>
        /\ sure' = (sure /\ "program" \notin a.hit)
        /\ spoiled' = (spoiled \/ "program" \in a.hit)
        /\ OutByte(byte) /\ Become(Idle("user"))
    BY <1>12 DEF OpenPut, Running
  <2>2. a.previous \in Nat
    BY <1>2 DEF Act
  <2>3. byte \in Nat /\ Bit6(byte)
    <3> HIDE DEF a
    <3> QED BY <2>2 DEF SetBit6, Bit6
  <2>4. stack' \in Seq(Act) /\ Based(stack') /\ spoiled' \in BOOLEAN
        /\ \A i \in 1 .. Len(stack') : CallOK(stack'[i], index, spoiled')
    BY <2>1, IdleOK, BecomeOK DEF RtcInv, RtcTypes, ProgramPcs
  <2>5. (sure' => index # "A" /\ sure) /\ (~spoiled' => index # "A" /\ ~spoiled)
    BY <1>2, <2>1 DEF CallOK
  <2> HIDE DEF a, byte
  <2>6. reg' = IF index = "C" THEN reg ELSE [reg EXCEPT ![index] = byte]
    BY <2>1 DEF OutByte
  <2>7. reg \in [A : Nat, B : Nat] /\ index \in {"A", "B", "C"}
    BY DEF RtcInv, RtcTypes, Registers
  <2>8. /\ reg' \in [A : Nat, B : Nat]
        /\ index = "B" => reg'.B = byte /\ reg'.A = reg.A
        /\ index = "C" => reg' = reg
    BY <2>3, <2>6, <2>7
  <2>9. /\ sure => RateMatches(Low(reg.A), asked)
        /\ ~spoiled => DividerSet(reg.A) /\ Bit6(reg.B)
    BY DEF RtcInv
  <2>10. sure' \in BOOLEAN /\ index' \in Registers /\ pending' \in BOOLEAN
    BY <2>1 DEF RtcInv, RtcTypes
  <2> HIDE DEF CallOK, RateMatches, Low, DividerSet, Bit6
  <2>11. sure' => RateMatches(Low(reg'.A), asked')
    BY <2>1, <2>5, <2>7, <2>8, <2>9
  <2>12. spoiled' \/ (DividerSet(reg'.A) /\ Bit6(reg'.B))
    BY <2>3, <2>5, <2>7, <2>8, <2>9
  <2> QED BY <2>1, <2>4, <2>8, <2>10, <2>11, <2>12 DEF RtcInv, RtcTypes
<1>13. CASE ReadStart \/ ReadEnd
  <2>1. PICK act \in Act : Become(act) /\ act.pc \in ProgramPcs /\ CallOK(act, index, spoiled)
    <3>1. CASE ReadEnd
      BY <3>1, IdleOK DEF ReadEnd, ProgramPcs
    <3>2. CASE ReadStart
      <4> DEFINE act == [TopAct EXCEPT !.pc = "spin"]
      <4>1. act \in Act /\ act.pc \in ProgramPcs /\ CallOK(act, index, spoiled)
        <5> HIDE DEF TopAct
        <5> QED BY <1>2 DEF Act, CallOK, Writing, ProgramPcs
      <4>2. Become(act)
        BY <3>2 DEF ReadStart, Advance
      <4> HIDE DEF act
      <4> QED BY <4>1, <4>2
    <3> QED BY <1>13, <3>1, <3>2
  <2>2. stack' \in Seq(Act) /\ Based(stack')
        /\ \A i \in 1 .. Len(stack') : CallOK(stack'[i], index, spoiled)
    BY <2>1, BecomeOK DEF RtcInv, RtcTypes
  <2> QED BY <1>4, <1>13, <2>2 DEF ReadStart, ReadEnd, Histories, RtcInv, RtcTypes
<1>14. CASE Tick \/ UNCHANGED rvars
  BY <1>4, <1>14 DEF Tick, rvars, Histories, RtcInv, RtcTypes
<1>15. CASE RtcTake \/ StartShell \/ EndShell
  <2>1. stack' \in Seq(Act) /\ Based(stack')
        /\ \A i \in 1 .. Len(stack') : CallOK(stack'[i], index, spoiled)
    BY <1>15, PushPopOK DEF RtcTake, StartShell, EndShell, RtcInv, RtcTypes
  <2> QED BY <1>4, <1>15, <2>1
          DEF RtcTake, StartShell, EndShell, Histories, RtcInv, RtcTypes
<1>16. CASE RtcEnd
  <2>1. /\ Len(stack') = Len(stack) /\ stack' \in Seq(Act) /\ Based(stack')
        /\ \A i \in 1 .. Len(stack) : CallOK(stack'[i], index, spoiled)
    <3>1. ASSUME NEW i \in 1 .. Len(stack)
          PROVE  stack'[i] \in Act /\ CallOK(stack'[i], index, spoiled)
      <4>1. stack[i] \in Act /\ CallOK(stack[i], index, spoiled)
        BY <1>1 DEF RtcInv
      <4>2. \/ stack'[i] = Idle("selC")
            \/ stack'[i] = stack[i]
            \/ stack[i].pc = "spin" /\ stack'[i] = [stack[i] EXCEPT !.ticked = TRUE]
        BY <1>16 DEF RtcEnd
      <4>3. CASE stack'[i] = Idle("selC")
        BY <4>3, IdleOK
      <4>4. CASE stack'[i] = stack[i]
        BY <4>1, <4>4
      <4>5. CASE stack[i].pc = "spin" /\ stack'[i] = [stack[i] EXCEPT !.ticked = TRUE]
        <5>1. stack'[i] \in Act /\ stack'[i].pc = "spin"
          BY <4>1, <4>5 DEF Act
        <5> QED BY <5>1 DEF CallOK, Writing
      <4> QED BY <4>2, <4>3, <4>4, <4>5
    <3>2. stack' \in [1 .. Len(stack) -> Act]
      BY <1>16, <3>1 DEF RtcEnd
    <3>3. stack' \in Seq(Act) /\ DOMAIN stack' = 1 .. Len(stack)
      BY <1>1, <3>2, ListOfFunction
    <3>4. Len(stack') = Len(stack)
      BY <1>1, <3>3, LenProperties
    <3>5. stack'[1].pc \in ProgramPcs
      <4>1. stack[1] \in Act /\ stack[1].pc \in ProgramPcs /\ Len(stack) # 1
        BY <1>1, <1>16 DEF RtcEnd, Running, TopAct, RtcInv, RtcTypes, Based, ProgramPcs
      <4> QED BY <1>1, <1>16, <4>1 DEF RtcEnd, Act
    <3> QED BY <1>1, <3>1, <3>3, <3>4, <3>5 DEF Based
  <2> QED BY <1>4, <1>16, <2>1 DEF RtcEnd, Histories, RtcInv, RtcTypes
<1>17. CASE RtcSelect
  <2>1. index' = "C" /\ stack' \in Seq(Act) /\ Based(stack')
        /\ \A i \in 1 .. Len(stack') : CallOK(stack'[i], "C", spoiled)
    BY <1>17, IdleOK, SelectOK DEF RtcSelect, Running, Registers, ClockPcs
  <2> QED BY <1>4, <1>17, <2>1 DEF RtcSelect, Histories, Registers, RtcInv, RtcTypes
<1>18. CASE RtcRead
  <2>1. spoiled' \in BOOLEAN /\ (spoiled => spoiled')
    BY <1>18 DEF RtcRead, RtcInv, RtcTypes
  <2>2. Len(stack) > 1
    BY <1>1, <1>18 DEF RtcRead, Running, TopAct, RtcInv, RtcTypes, Based, ProgramPcs
  <2>3. stack' \in Seq(Act) /\ Based(stack')
        /\ \A i \in 1 .. Len(stack') : CallOK(stack'[i], index, spoiled')
    BY <1>18, <2>1, <2>2, PushPopOK DEF RtcRead
  <2>4. /\ UNCHANGED <<index, reg, asked, sure>> /\ pending' \in BOOLEAN
    BY <1>18 DEF RtcRead, AfterRead, RtcInv, RtcTypes
  <2> HIDE DEF CallOK, RateMatches, Low, DividerSet, Bit6
  <2> QED BY <2>1, <2>3, <2>4 DEF RtcInv, RtcTypes
<1> QED BY <1>5, <1>6, <1>7, <1>8, <1>9, <1>10, <1>11, <1>12, <1>13, <1>14, <1>15,
           <1>16, <1>17, <1>18 DEF Next, Program, RtcInterrupt, ReadSpin
LEMMA RtcInvInit == Init => RtcInv
<1> SUFFICES ASSUME Init PROVE RtcInv
  OBVIOUS
<1>1. stack = <<Idle("user")>> /\ Idle("user") \in Act
      /\ CallOK(Idle("user"), index, spoiled) /\ Idle("user").pc \in ProgramPcs
  BY IdleOK DEF Init, ProgramPcs
<1> HIDE DEF Idle, Act, CallOK
<1>2. /\ stack \in Seq(Act) /\ Based(stack)
      /\ \A i \in 1 .. Len(stack) : CallOK(stack[i], index, spoiled)
  BY <1>1 DEF Based
<1>3. /\ index \in Registers /\ reg \in [A : Nat, B : Nat]
      /\ pending \in BOOLEAN /\ spoiled \in BOOLEAN /\ sure \in BOOLEAN
  BY DEF Init, Registers
<1>4. reg.A = 38 /\ reg.B = 66 /\ asked = 1024
  BY DEF Init
<1>5. RateMatches(Low(reg.A), asked)
  BY <1>4 DEF RateMatches, Supported
<1>6. DividerSet(reg.A) /\ Bit6(reg.B)
  BY <1>4 DEF DividerSet, Bit6
<1> HIDE DEF RateMatches, Low, DividerSet, Bit6, Init
<1> QED BY <1>2, <1>3, <1>5, <1>6 DEF RtcInv, RtcTypes

(* After rtc_write the clock runs at the frequency that was asked for,     *)
(* whatever was asked before, wherever the clock and the keyboard          *)
(* interrupted the call, and whatever ran on top of it, unless one of them *)
(* moved the selection right before one of its accesses.                   *)
THEOREM FrequencyKept == RtcSpec => []RateSet
<1>1. Init => RtcInv
  BY RtcInvInit
<1>2. RtcInv /\ [Next]_rvars => RtcInv'
  BY RtcInvStep
<1>3. RtcInv => RateSet
  BY DEF RtcInv, RtcTypes, RateSet, RateMatches, Runs, DividerSet
<1> QED BY <1>1, <1>2, <1>3, PTL DEF RtcSpec

(* int_flag is down in the loop of any rtc_read only after an interrupt.   *)
FlagInv ==
  \A i \in 1 .. Len(stack) : stack[i].pc = "spin" /\ ~int_flag => stack[i].ticked

(* What only rtc_read and rtc_interrupt do not keep: int_flag, and that a  *)
(* call stays in its loop as it is.                                        *)
SpinsKept ==
  /\ int_flag' = int_flag
  /\ \A i \in 1 .. Len(stack') :
       stack'[i].pc = "spin" =>
         /\ i \in 1 .. Len(stack) /\ stack[i].pc = "spin"
         /\ stack'[i].ticked = stack[i].ticked
  /\ \A i \in 1 .. Len(stack) :
       stack[i].pc = "spin" =>
         \/ i \in 1 .. Len(stack') /\ stack'[i].pc = "spin"
         \/ i = Len(stack) /\ ReadEnd

LEMMA StepKeepsSpins ==
  ASSUME RtcInv, [Next]_rvars, ~ReadStart, ~RtcEnd
  PROVE  SpinsKept
<1>1. stack \in Seq(Act) /\ Len(stack) \in Nat \ {0}
  BY DEF RtcInv, RtcTypes, Based
<1>2. TopAct = stack[Len(stack)] /\ TopAct \in Act
  BY <1>1 DEF TopAct
<1>3. ASSUME NEW act, Become(act), act.pc # "spin",
             TopAct.pc # "spin" \/ ReadEnd, UNCHANGED int_flag
      PROVE  SpinsKept
  <2>1. Len(stack') = Len(stack)
        /\ \A i \in 1 .. Len(stack) :
             stack'[i] = IF i = Len(stack) THEN act ELSE stack[i]
    <3> HIDE DEF Act
    <3> QED BY <1>1, <1>3 DEF Become
  <2> HIDE DEF TopAct
  <2> QED BY <1>1, <1>2, <1>3, <2>1 DEF SpinsKept
<1>4. ASSUME NEW r, NEW act, SelectReg(r, act), act.pc # "spin", TopAct.pc # "spin",
             UNCHANGED int_flag
      PROVE  SpinsKept
  <2>1. stack' = [i \in 1 .. Len(stack) |->
                    IF i = Len(stack) THEN act
                    ELSE IF stack[i].pc \in Windows
                      THEN [stack[i] EXCEPT !.hit =
                              @ \cup {IF act.pc = "readC" THEN stack[i].pc ELSE "program"}]
                    ELSE stack[i]]
    BY <1>4 DEF SelectReg
  <2>2. Len(stack') = Len(stack)
    BY <1>1, <2>1
  <2>3. \A i \in 1 .. Len(stack) :
          \/ i = Len(stack) /\ stack'[i] = act
          \/ i # Len(stack) /\ stack'[i].pc = stack[i].pc /\ stack[i].pc # "spin"
          \/ i # Len(stack) /\ stack'[i] = stack[i]
    <3> SUFFICES ASSUME NEW i \in 1 .. Len(stack), i # Len(stack),
                        stack[i].pc \in Windows
                 PROVE  stack'[i].pc = stack[i].pc /\ stack[i].pc # "spin"
      BY <2>1
    <3>1. stack[i] \in Act
      BY <1>1
    <3> QED BY <2>1, <3>1 DEF Act, Windows
  <2> HIDE DEF TopAct
  <2> QED BY <1>1, <1>2, <1>4, <2>2, <2>3 DEF SpinsKept
<1>5. ASSUME NEW act, stack' = Append(stack, act), act.pc # "spin", UNCHANGED int_flag
      PROVE  SpinsKept
  <2>1. Len(stack') = Len(stack) + 1 /\ stack'[Len(stack) + 1] = act
        /\ \A i \in 1 .. Len(stack) : stack'[i] = stack[i]
    <3> HIDE DEF Act
    <3> QED BY <1>1, <1>5
  <2> QED BY <1>1, <1>5, <2>1 DEF SpinsKept
<1>6. ASSUME stack' = SubSeq(stack, 1, Len(stack) - 1), TopAct.pc # "spin",
             UNCHANGED int_flag
      PROVE  SpinsKept
  <2>1. Len(stack') = Len(stack) - 1
        /\ \A i \in 1 .. Len(stack) - 1 : stack'[i] = stack[i]
    <3> DEFINE n == Len(stack) - 1
    <3>1. 1 \in Int /\ n \in Int /\ \A i \in 1 .. n : stack[i] \in Act
      BY <1>1
    <3> HIDE DEF Act, n
    <3>2. /\ Len(SubSeq(stack, 1, n)) = IF 1 <= n THEN n - 1 + 1 ELSE 0
          /\ \A i \in 1 .. n - 1 + 1 : SubSeq(stack, 1, n)[i] = stack[1 + i - 1]
      BY <3>1, SubSeqProperties
    <3>3. stack' = SubSeq(stack, 1, n) /\ n \in Nat /\ n = Len(stack) - 1
      BY <1>1, <1>6 DEF n
    <3> QED BY <3>2, <3>3
  <2> HIDE DEF TopAct
  <2> QED BY <1>1, <1>2, <1>6, <2>1 DEF SpinsKept
<1>7. ASSUME UNCHANGED <<stack, int_flag>> PROVE SpinsKept
  BY <1>7 DEF SpinsKept
<1>8. \A pc \in ProgramPcs \cup ClockPcs :
        Idle(pc).pc = pc /\ [TopAct EXCEPT !.pc = pc].pc = pc
  BY <1>2 DEF Idle, Act
<1>9. ASSUME NEW freq \in Requests, WriteStart(freq) PROVE SpinsKept
  <2> DEFINE act == [Idle("get") EXCEPT !.clock_rate = RateOf(freq), !.freq = freq]
  <2>1. act.pc = "get"
    <3> HIDE DEF RateOf
    <3> QED BY DEF Idle
  <2>2. SelectReg("A", act) /\ TopAct.pc = "user" /\ UNCHANGED int_flag
    BY <1>9 DEF WriteStart, Running
  <2> HIDE DEF act
  <2> QED BY <1>4, <2>1, <2>2
<1>10. CASE WriteGet \/ OpenGet \/ WritePut \/ OpenPut \/ ReadEnd
  <2>1. \E act : Become(act) /\ act.pc # "spin"
    <3>1. CASE WriteGet
      <4> DEFINE act == [TopAct EXCEPT !.pc = "resel", !.previous = HighHalf(InByte)]
      <4>1. Become(act)
        BY <3>1 DEF WriteGet
      <4>2. act.pc = "resel"
        <5> HIDE DEF TopAct, HighHalf
        <5> QED BY <1>2 DEF Act
      <4> HIDE DEF act
      <4> QED BY <4>1, <4>2
    <3>2. CASE OpenGet
      <4> DEFINE act == [TopAct EXCEPT !.pc = "open_resel", !.previous = InByte]
      <4>1. Become(act)
        BY <3>2 DEF OpenGet
      <4>2. act.pc = "open_resel"
        <5> HIDE DEF TopAct, InByte
        <5> QED BY <1>2 DEF Act
      <4> HIDE DEF act
      <4> QED BY <4>1, <4>2
    <3>3. CASE WritePut \/ OpenPut \/ ReadEnd
      BY <3>3, <1>8 DEF WritePut, OpenPut, ReadEnd, ProgramPcs
    <3> QED BY <1>10, <3>1, <3>2, <3>3
  <2>2. (TopAct.pc # "spin" \/ ReadEnd) /\ UNCHANGED int_flag
    BY <1>10 DEF WriteGet, OpenGet, WritePut, OpenPut, ReadEnd, Running
  <2> QED BY <1>3, <2>1, <2>2
<1>11. CASE WriteSelectAgain \/ OpenStart \/ OpenSelectAgain \/ RtcSelect
  <2>1. \E r, act : SelectReg(r, act) /\ act.pc # "spin"
    BY <1>8, <1>11
       DEF WriteSelectAgain, OpenStart, OpenSelectAgain, RtcSelect, ProgramPcs, ClockPcs
  <2>2. TopAct.pc # "spin" /\ UNCHANGED int_flag
    BY <1>11 DEF WriteSelectAgain, OpenStart, OpenSelectAgain, RtcSelect, Running
  <2> QED BY <1>4, <2>1, <2>2
<1>12. CASE RtcTake \/ StartShell
  BY <1>5, <1>8, <1>12 DEF RtcTake, StartShell, ProgramPcs, ClockPcs
<1>13. CASE RtcRead \/ EndShell
  BY <1>6, <1>13 DEF RtcRead, EndShell, Running
<1>14. CASE Tick \/ ReadSpin \/ UNCHANGED rvars
  BY <1>7, <1>14 DEF Tick, ReadSpin, rvars
<1> QED BY <1>9, <1>10, <1>11, <1>12, <1>13, <1>14 DEF Next, Program, RtcInterrupt

(* An rtc_read returns only after an interrupt that came after its call,   *)
(* wherever interrupts come and whatever runs on top of it.                *)
THEOREM ReadsAreFresh == RtcSpec => ReadFresh
<1>1. Init => FlagInv
  BY DEF Init, FlagInv, Idle
<1>2. RtcInv /\ FlagInv /\ [Next]_rvars => FlagInv'
  <2> SUFFICES ASSUME RtcInv, FlagInv, [Next]_rvars PROVE FlagInv'
    OBVIOUS
  <2>1. CASE ReadStart
    BY <2>1 DEF ReadStart, FlagInv
  <2>2. CASE RtcEnd
    <3>1. stack \in Seq(Act) /\ Len(stack) \in Nat \ {0}
      BY DEF RtcInv, RtcTypes, Based
    <3>2. stack' = [i \in 1 .. Len(stack) |->
             IF i = Len(stack) THEN Idle("selC")
             ELSE IF stack[i].pc = "spin" THEN [stack[i] EXCEPT !.ticked = TRUE]
             ELSE stack[i]]
      BY <2>2 DEF RtcEnd
    <3>3. Len(stack') = Len(stack)
      BY <3>1, <3>2
    <3>4. ASSUME NEW i \in 1 .. Len(stack), stack'[i].pc = "spin" PROVE stack'[i].ticked
      <4>1. stack[i] \in Act /\ Idle("selC").pc = "selC"
        BY <3>1 DEF Idle
      <4> HIDE DEF Idle
      <4> QED BY <3>2, <3>4, <4>1 DEF Act
    <3> QED BY <3>3, <3>4 DEF FlagInv
  <2>3. CASE ~ReadStart /\ ~RtcEnd
    BY <2>3, StepKeepsSpins DEF SpinsKept, FlagInv
  <2> QED BY <2>1, <2>2, <2>3
<1>3. RtcInv /\ FlagInv /\ [Next]_rvars =>
        [\A i \in 1 .. Len(stack) :
           stack[i].pc = "spin" /\ stack'[i].pc # "spin" => stack[i].ticked]_rvars
  <2> SUFFICES ASSUME RtcInv, FlagInv, [Next]_rvars, NEW i \in 1 .. Len(stack),
                      stack[i].pc = "spin", stack'[i].pc # "spin"
               PROVE  stack[i].ticked
    OBVIOUS
  <2>1. stack \in Seq(Act) /\ Len(stack) \in Nat \ {0}
    BY DEF RtcInv, RtcTypes, Based
  <2>2. ~ReadStart
    <3> SUFFICES ASSUME ReadStart PROVE FALSE
      OBVIOUS
    <3>1. TopAct.pc = "user" /\ Become([TopAct EXCEPT !.pc = "spin"])
      BY DEF ReadStart, Running, Advance
    <3>2. i # Len(stack)
      BY <3>1 DEF TopAct
    <3>3. stack'[i] = stack[i]
      <4> HIDE DEF Act, TopAct
      <4> QED BY <2>1, <3>1, <3>2 DEF Become
    <3> QED BY <3>3
  <2>3. ~RtcEnd
    <3> SUFFICES ASSUME RtcEnd PROVE FALSE
      OBVIOUS
    <3>1. i # Len(stack) /\ stack[i] \in Act
      BY <2>1 DEF RtcEnd, Running, TopAct
    <3>2. stack'[i] = [stack[i] EXCEPT !.ticked = TRUE]
      BY <3>1 DEF RtcEnd
    <3> QED BY <3>1, <3>2 DEF Act
  <2>4. ReadEnd
    BY <2>2, <2>3, StepKeepsSpins DEF SpinsKept
  <2> QED BY <2>4 DEF ReadEnd, FlagInv
<1>4. RtcInv /\ [Next]_rvars => RtcInv'
  BY RtcInvStep
<1> QED BY <1>1, <1>2, <1>3, <1>4, RtcInvInit, PTL DEF RtcSpec, ReadFresh

-----------------------------------------------------------------------------
(* Interrupts *)

BootCalls == {"set_idt", "i8259_init", "keyboard_init", "rtc_init", "sti",
              "sys_init", "terminal_init", "shell"}
HandlerPcs == {"keyboard_handler", "kbd_read", "rtc_handler", "rtc_select",
               "rtc_read", "shell", "iret"}

(* What the boot has done by the time it gets to a call.                   *)
BootOK ==
  /\ boot \in BootCalls
  /\ boot # "set_idt" =>
       /\ {33, 40} \subseteq DOMAIN idt
       /\ idt[33] = "keyboard_handler" /\ idt[40] = "rtc_handler"
  /\ boot \notin {"set_idt", "i8259_init"} => remapped /\ SLAVE_IRQ \notin master_mask
  /\ boot \notin {"set_idt", "i8259_init", "keyboard_init"} =>
       KEYBOARD_IRQ \notin master_mask
  /\ boot \notin {"set_idt", "i8259_init", "keyboard_init", "rtc_init"} =>
       0 \notin slave_mask
  /\ IF_flag \/ frames # <<>> => boot \in {"sys_init", "terminal_init", "shell"}

(* A handler that has not sent its end of interrupt is the only one of its *)
(* kind: the controllers keep the next one out.                            *)
ServiceOK ==
  /\ frames \in Seq(HandlerPcs)
  /\ isr = UNION {InService(frames[i]) : i \in 1 .. Len(frames)}
  /\ \A h \in {"keyboard_handler", "rtc_handler"} :
       \A i, j \in 1 .. Len(frames) : frames[i] = h /\ frames[j] = h => i = j

IInv == BootOK /\ ServiceOK

(* The bytes that enable_irq gets by its loop, for the lines it is used on.*)
LEMMA ShiftedValues == Shifted[0] = 254 /\ Shifted[1] = 253 /\ Shifted[2] = 251
<1> DEFINE G(f) == [n \in 0 .. 8 |-> IF n = 0 THEN 254 ELSE (2 * f[n - 1] + 1) % 256]
           T == [n \in 0 .. 8 |->
                   IF n = 0 THEN 254 ELSE IF n = 1 THEN 253 ELSE IF n = 2 THEN 251
                   ELSE IF n = 3 THEN 247 ELSE IF n = 4 THEN 239
                   ELSE IF n = 5 THEN 223 ELSE IF n = 6 THEN 191
                   ELSE IF n = 7 THEN 127 ELSE 255]
<1>1. T = G(T)
  OBVIOUS
<1>2. Shifted = CHOOSE f : f = G(f)
  BY DEF Shifted
<1> HIDE DEF G, T
<1>3. Shifted = G(Shifted)
  BY <1>1, <1>2, Zenon
<1>4. \A n \in 0 .. 8 :
         Shifted[n] = IF n = 0 THEN 254 ELSE (2 * Shifted[n - 1] + 1) % 256
  BY <1>3 DEF G
<1>5. Shifted[0] = 254
  BY <1>4
<1>6. Shifted[1] = (2 * Shifted[1 - 1] + 1) % 256
  BY <1>4
<1>7. Shifted[2] = (2 * Shifted[2 - 1] + 1) % 256
  BY <1>4
<1> QED BY <1>5, <1>6, <1>7

(* enable_irq clears the bit of the line, and sets none.                   *)
LEMMA EnableIrqClears ==
  /\ EnableIrq(SLAVE_IRQ) =>
       /\ master_mask' \subseteq master_mask \ {SLAVE_IRQ}
       /\ slave_mask' = slave_mask
  /\ EnableIrq(KEYBOARD_IRQ) =>
       /\ master_mask' \subseteq master_mask \ {KEYBOARD_IRQ}
       /\ slave_mask' = slave_mask
  /\ EnableIrq(RTC_IRQ) =>
       /\ slave_mask' \subseteq slave_mask \ {0}
       /\ master_mask' = master_mask
<1>1. 0 \notin Bits(254) /\ 1 \notin Bits(253) /\ 2 \notin Bits(251)
  BY DEF Bits
<1> QED BY <1>1, ShiftedValues DEF EnableIrq, SLAVE_IRQ, KEYBOARD_IRQ, RTC_IRQ

(* The handler that an interrupt enters, once interrupts are enabled.      *)
LEMMA TakenHandler ==
  ASSUME BootOK, IF_flag
  PROVE  /\ Vector(KEYBOARD_IRQ) = 33 /\ Vector(RTC_IRQ) = 40
         /\ {33, 40} \subseteq DOMAIN idt
         /\ idt[33] = "keyboard_handler" /\ idt[40] = "rtc_handler"
  BY DEF BootOK, Vector, KEYBOARD_IRQ, RTC_IRQ

LEMMA ServiceSets ==
  /\ InService("keyboard_handler") = {KEYBOARD_IRQ}
  /\ InService("rtc_handler") = {SLAVE_IRQ, RTC_IRQ}
  /\ \A f \in HandlerPcs \ {"keyboard_handler", "rtc_handler"} : InService(f) = {}
  BY DEF InService, HandlerPcs

(* A new handler on top.                                                   *)
LEMMA ServiceAppend ==
  ASSUME ServiceOK, NEW f \in {"keyboard_handler", "rtc_handler"},
         InService(f) \cap isr = {},
         frames' = Append(frames, f), isr' = isr \cup InService(f)
  PROVE  ServiceOK'
<1>1. /\ frames' \in Seq(HandlerPcs) /\ Len(frames') = Len(frames) + 1
      /\ Len(frames) \in Nat /\ frames'[Len(frames')] = f
      /\ \A i \in 1 .. Len(frames) : frames'[i] = frames[i]
  BY DEF ServiceOK, HandlerPcs
<1>2. \A i \in 1 .. Len(frames) : frames[i] # f
  BY ServiceSets DEF ServiceOK
<1>3. 1 .. Len(frames') = 1 .. Len(frames) \cup {Len(frames')}
  BY <1>1
<1>4. isr' = UNION {InService(frames'[i]) : i \in 1 .. Len(frames')}
  BY <1>1, <1>3 DEF ServiceOK
<1>5. \A h \in {"keyboard_handler", "rtc_handler"} :
        \A i, j \in 1 .. Len(frames') : frames'[i] = h /\ frames'[j] = h => i = j
  BY <1>1, <1>2, <1>3 DEF ServiceOK
<1> QED BY <1>1, <1>4, <1>5 DEF ServiceOK

(* The top handler goes on to a place where it is not in service, and what *)
(* it had in service is ended.                                             *)
LEMMA ServiceGoto ==
  ASSUME ServiceOK, frames # <<>>,
         NEW f \in HandlerPcs \ {"keyboard_handler", "rtc_handler"}, Goto(f),
         isr' = isr \ InService(frames[Len(frames)])
  PROVE  ServiceOK'
<1>1. /\ frames' \in Seq(HandlerPcs) /\ Len(frames') = Len(frames)
      /\ Len(frames) \in Nat \ {0} /\ frames'[Len(frames)] = f
      /\ \A i \in 1 .. Len(frames) : i # Len(frames) => frames'[i] = frames[i]
      /\ \A i \in 1 .. Len(frames) : frames[i] \in HandlerPcs
  BY DEF ServiceOK, Goto
<1>2. \A i \in 1 .. Len(frames) : i # Len(frames) =>
        InService(frames[i]) \cap InService(frames[Len(frames)]) = {}
  <2> SUFFICES ASSUME NEW i \in 1 .. Len(frames), i # Len(frames)
               PROVE  InService(frames[i]) \cap InService(frames[Len(frames)]) = {}
    OBVIOUS
  <2>1. frames[i] \in HandlerPcs /\ frames[Len(frames)] \in HandlerPcs
    BY <1>1
  <2>2. frames[i] # frames[Len(frames)] \/ InService(frames[i]) = {}
    <3>1. Len(frames) \in 1 .. Len(frames)
      BY <1>1
    <3> QED BY <2>1, <3>1, ServiceSets DEF ServiceOK
  <2>3. {KEYBOARD_IRQ} \cap {SLAVE_IRQ, RTC_IRQ} = {}
    BY DEF KEYBOARD_IRQ, SLAVE_IRQ, RTC_IRQ
  <2> QED BY <2>1, <2>2, <2>3, ServiceSets
<1>3. InService(f) = {}
  BY ServiceSets
<1>4. isr' = UNION {InService(frames'[i]) : i \in 1 .. Len(frames')}
  <2>1. ASSUME NEW x \in isr' PROVE \E i \in 1 .. Len(frames') : x \in InService(frames'[i])
    BY <1>1, <2>1 DEF ServiceOK
  <2>2. ASSUME NEW i \in 1 .. Len(frames'), NEW x \in InService(frames'[i]) PROVE x \in isr'
    BY <1>1, <1>2, <1>3, <2>2 DEF ServiceOK
  <2> QED BY <2>1, <2>2
<1>5. \A h \in {"keyboard_handler", "rtc_handler"} :
        \A i, j \in 1 .. Len(frames') : frames'[i] = h /\ frames'[j] = h => i = j
  BY <1>1, <1>3 DEF ServiceOK
<1> QED BY <1>1, <1>4, <1>5 DEF ServiceOK

(* iret of a handler that has sent its end of interrupt.                   *)
LEMMA ServiceReturn ==
  ASSUME ServiceOK, Iret
  PROVE  ServiceOK'
<1>1. /\ frames # <<>> /\ frames[Len(frames)] = "iret" /\ isr' = isr
      /\ frames' = SubSeq(frames, 1, Len(frames) - 1)
  BY DEF Iret, At
<1>2. /\ frames' \in Seq(HandlerPcs) /\ Len(frames') = Len(frames) - 1
      /\ Len(frames) \in Nat \ {0}
      /\ \A i \in 1 .. Len(frames) - 1 : frames'[i] = frames[i]
  <2>1. Len(frames) \in Nat \ {0} /\ \A i \in 1 .. Len(frames) : frames[i] \in HandlerPcs
    BY <1>1 DEF ServiceOK
  <2>2. 1 .. Len(frames) - 1 \subseteq 1 .. Len(frames)
    BY <2>1
  <2> HIDE DEF HandlerPcs
  <2> DEFINE n == Len(frames) - 1
  <2>3. n \in Int /\ \A i \in 1 .. n : frames[i] \in HandlerPcs
    BY <2>1, <2>2
  <2>4. /\ SubSeq(frames, 1, n) \in Seq(HandlerPcs)
        /\ Len(SubSeq(frames, 1, n)) = IF 1 <= n THEN n - 1 + 1 ELSE 0
        /\ \A i \in 1 .. n - 1 + 1 : SubSeq(frames, 1, n)[i] = frames[1 + i - 1]
    <3> HIDE DEF n
    <3> QED BY <2>3, SubSeqProperties
  <2>5. n - 1 + 1 = n /\ n \in Nat /\ \A i \in 1 .. n : 1 + i - 1 = i
    BY <2>1
  <2> HIDE DEF n
  <2>6. /\ frames' \in Seq(HandlerPcs) /\ Len(frames') = n
        /\ \A i \in 1 .. n : frames'[i] = frames[i]
    BY <1>1, <2>4, <2>5 DEF n
  <2> QED BY <2>1, <2>6 DEF n
<1>3. InService(frames[Len(frames)]) = {}
  BY <1>1, ServiceSets DEF HandlerPcs
<1>4. isr' = UNION {InService(frames'[i]) : i \in 1 .. Len(frames')}
  <2>1. ASSUME NEW x \in isr' PROVE \E i \in 1 .. Len(frames') : x \in InService(frames'[i])
    BY <1>1, <1>2, <1>3, <2>1 DEF ServiceOK
  <2>2. ASSUME NEW i \in 1 .. Len(frames'), NEW x \in InService(frames'[i]) PROVE x \in isr'
    BY <1>1, <1>2, <2>2 DEF ServiceOK
  <2> QED BY <2>1, <2>2
<1>5. \A h \in {"keyboard_handler", "rtc_handler"} :
        \A i, j \in 1 .. Len(frames') : frames'[i] = h /\ frames'[j] = h => i = j
  BY <1>2 DEF ServiceOK
<1> QED BY <1>2, <1>4, <1>5 DEF ServiceOK

LEMMA TakeInv ==
  ASSUME IInv, NEW irq \in Irqs, Take(irq)
  PROVE  IInv'
<1>1. BootOK'
  BY DEF Take, IInv, BootOK, Pic
<1>2. \E f \in {"keyboard_handler", "rtc_handler"} :
         /\ InService(f) \cap isr = {}
         /\ frames' = Append(frames, f) /\ isr' = isr \cup InService(f)
  BY TakenHandler, ServiceSets
     DEF Take, IInv, Irqs, Passed, Blocks, KEYBOARD_IRQ, RTC_IRQ, SLAVE_IRQ
<1> QED BY <1>1, <1>2, ServiceAppend DEF IInv

LEMMA StartupInv ==
  ASSUME IInv, Startup
  PROVE  IInv'
<1>1. ServiceOK'
  BY DEF IInv, ServiceOK, Startup, SetIdt, I8259Init, KeyboardInit, RtcInit, BootSti,
         SysInit, TerminalInit, Boot
<1>2. CASE SetIdt
  <2>1. /\ {33, 40} \subseteq DOMAIN idt'
        /\ idt'[33] = "keyboard_handler" /\ idt'[40] = "rtc_handler"
    BY <1>2 DEF SetIdt
  <2> QED BY <1>1, <1>2, <2>1 DEF SetIdt, Boot, IInv, BootOK, BootCalls
<1>3. CASE I8259Init
  BY <1>1, <1>3, EnableIrqClears DEF I8259Init, Boot, IInv, BootOK, BootCalls
<1>4. CASE KeyboardInit
  BY <1>1, <1>4, EnableIrqClears DEF KeyboardInit, Boot, IInv, BootOK, BootCalls
<1>5. CASE RtcInit
  BY <1>1, <1>5, EnableIrqClears DEF RtcInit, Boot, IInv, BootOK, BootCalls
<1>6. CASE BootSti \/ SysInit \/ TerminalInit
  BY <1>1, <1>6 DEF BootSti, SysInit, TerminalInit, Boot, IInv, BootOK, BootCalls, Pic
<1> QED BY <1>2, <1>3, <1>4, <1>5, <1>6 DEF Startup

LEMMA HandlerInv ==
  ASSUME IInv, Handler
  PROVE  IInv'
<1>1. BootOK'
  BY DEF Handler, KbdEoi, KbdRead, RtcEoi, RtcSelectC, RtcReadC, Iret, SendEoi,
         At, IInv, BootOK, Pic
<1>2. CASE KbdEoi
  BY <1>1, <1>2, ServiceGoto, ServiceSets
     DEF KbdEoi, At, SendEoi, IInv, HandlerPcs, KEYBOARD_IRQ
<1>3. CASE RtcEoi
  BY <1>1, <1>3, ServiceGoto, ServiceSets
     DEF RtcEoi, At, SendEoi, IInv, HandlerPcs, SLAVE_IRQ, RTC_IRQ
<1>4. CASE KbdRead \/ RtcSelectC \/ RtcReadC
  <2>1. \E f \in HandlerPcs \ {"keyboard_handler", "rtc_handler"} : Goto(f)
    BY <1>4 DEF KbdRead, RtcSelectC, RtcReadC, HandlerPcs
  <2>2. frames # <<>> /\ InService(frames[Len(frames)]) = {} /\ isr' = isr
    BY <1>4, ServiceSets DEF KbdRead, RtcSelectC, RtcReadC, At, HandlerPcs
  <2> QED BY <1>1, <2>1, <2>2, ServiceGoto DEF IInv
<1> QED BY <1>1, <1>2, <1>3, <1>4, ServiceReturn DEF Handler, IInv

LEMMA HaltShellInv ==
  ASSUME IInv, HaltShell
  PROVE  IInv'
<1>1. frames # <<>> /\ frames[Len(frames)] = "shell" /\ Goto("iret") /\ isr' = isr
  BY DEF HaltShell, ProgramRuns
<1>2. ServiceOK'
  <2>1. InService("shell") = {}
    BY DEF InService
  <2>2. "iret" \in HandlerPcs \ {"keyboard_handler", "rtc_handler"}
    BY DEF HandlerPcs
  <2> QED BY <1>1, <2>1, <2>2, ServiceGoto DEF IInv
<1>3. BootOK'
  BY <1>1 DEF HaltShell, IInv, BootOK, Pic
<1> QED BY <1>2, <1>3 DEF IInv

(* Steps that leave the handlers and the controllers' masks alone.         *)
LEMMA OtherInv ==
  ASSUME IInv, \/ \E b \in Bytes : KeyByte(b)
               \/ ClockTick \/ Cli \/ Sti \/ RtcWriteSelect \/ Exception \/ Loop
               \/ UNCHANGED ivars
  PROVE  IInv'
<1>1. UNCHANGED <<boot, idt, remapped, master_mask, slave_mask, isr, frames>>
  BY DEF KeyByte, ClockTick, Cli, Sti, RtcWriteSelect, Exception, Loop, ivars, Pic
<1>2. IF_flag' => IF_flag \/ boot = "shell" \/ frames # <<>>
  BY DEF KeyByte, ClockTick, Cli, Sti, RtcWriteSelect, Exception, Loop, ivars,
         ProgramRuns
<1> QED BY <1>1, <1>2 DEF IInv, BootOK, ServiceOK

(* Every interrupt that can be taken finds its handler, at any point of    *)
(* the boot, and the controllers have in service exactly what the active   *)
(* handlers have not ended, for any depth of interrupted handlers.         *)
THEOREM InterruptsServed == ISpec => []Served
<1>1. IInit => IInv
  BY DEF IInit, IInv, BootOK, BootCalls, ServiceOK
<1>2. IInv /\ [INext]_ivars => IInv'
  BY TakeInv, StartupInv, HandlerInv, HaltShellInv, OtherInv DEF INext
<1>3. IInv => Served
  <2> SUFFICES ASSUME IInv PROVE Served
    OBVIOUS
  <2>1. \A irq \in Irqs : IF_flag /\ Unmasked(irq) =>
          /\ Vector(irq) \in DOMAIN idt
          /\ idt[Vector(irq)] = IF irq < 8 THEN "keyboard_handler" ELSE "rtc_handler"
    BY TakenHandler DEF IInv, Irqs, KEYBOARD_IRQ, RTC_IRQ
  <2>2. boot = "shell" => \A irq \in Irqs : Unmasked(irq)
    BY DEF IInv, BootOK, Irqs, Unmasked, KEYBOARD_IRQ, RTC_IRQ, SLAVE_IRQ
  <2> QED BY <2>1, <2>2 DEF Served, IInv, ServiceOK
<1> QED BY <1>1, <1>2, <1>3, PTL DEF ISpec

=============================================================================
