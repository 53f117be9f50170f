------------------------ MODULE ProcessControlProofs ------------------------
(***************************************************************************)
(* Proofs about ProcessControl for any number of slots and any size of a   *)
(* program, with interrupts at any point.  What depends on the stacks only *)
(* holds until a shell is started at the iret of sys_execute or at the end *)
(* of sys_halt (Unbroken), what depends on the page until one is started   *)
(* after the map of the page (Unharmed).                                   *)
(*                                                                         *)
(* The inductive invariant says how the kernel stacks hang together: they  *)
(* belong to an increasing chain of slots that ends in cur, each link is   *)
(* the waiting frame on top of a stack and the esp in the PCB of the       *)
(* process it waits for, and the sys_execute calls that an interrupt       *)
(* suspended keep a claim to slots beyond the ones below them, and the PCB *)
(* they have written.                                                      *)
(***************************************************************************)
EXTENDS ProcessControl, TLAPS

LateExecPcs == {"map", "load", "pcb", "tss", "iret"}

(* The frames s of the stack of slot p, when taken is processes[].  The    *)
(* oldest was entered from the slot's own process, the others are          *)
(* interrupts of the kernel; all but the newest were interrupted at one of *)
(* the given points; what a frame starts or has started is in a larger     *)
(* slot.                                                                   *)
FramesOf(p, s, points) ==
  \A i \in 1 .. Len(s) :
    /\ s[i].user = IF i = 1 THEN p ELSE NoProc
    /\ i < Len(s) => s[i].pc \in points
    /\ s[i].pc \in ExecPcs \cup {"wait"} => p < s[i].slot
    /\ i > 1 => s[i].pc \in ExecPcs \cup {"wait"}
    /\ s[i].pc \in {"found", "map"} => s[i].k = 0

(* What a suspended sys_execute has seen or set in processes[] still holds *)
(* when it goes on.                                                        *)
ClaimsOf(s, taken) ==
  \A i \in 1 .. Len(s) :
    /\ s[i].pc = "found" => \A t \in Slots : t < s[i].slot => taken[t]
    /\ s[i].pc \in LateExecPcs => \A t \in Slots : t <= s[i].slot => taken[t]

(* The frames above a suspended sys_execute work on later slots, except    *)
(* that one that has not marked its slot lends it to them.                 *)
OrderOf(s) ==
  \A i, j \in 1 .. Len(s) : i < j =>
    /\ s[i].pc = "found" => s[i].slot <= s[j].slot
    /\ s[i].pc \in LateExecPcs => s[i].slot < s[j].slot

StackOK(p, s, taken, points) ==
  FramesOf(p, s, points) /\ ClaimsOf(s, taken) /\ OrderOf(s)

Stacks ==
  \A p \in Slots : StackOK(p, kstack[p], processes, SafePcs \cup struck)

(* A stack that is not in use ends in a frame that waits for a process.    *)
Waiting ==
  \A p \in Slots : p # cur /\ kstack[p] # <<>> =>
    LET f == kstack[p][Len(kstack[p])] IN
    /\ f.pc = "wait"
    /\ f.slot \in Live
    /\ pcb[f.slot].esp.page = p

(* The living processes form a chain that ends in cur.                     *)
Chain ==
  /\ \A s \in Live : s <= cur /\ pcb[s].proc_num = s
  /\ \A c \in Live \ {0} :
       LET p == pcb[c].esp.page IN
       /\ p < c
       /\ pcb[c].parent_proc_num = p
       /\ kstack[p] # <<>>
       /\ pcb[c].esp.depth = Len(kstack[p])
       /\ kstack[p][Len(kstack[p])].pc = "wait"
       /\ kstack[p][Len(kstack[p])].slot = c
       /\ \A t \in Live : t < c => t <= p

(* The slots up to cur are taken; only the one that halts is not.          *)
Taken ==
  /\ \A t \in Slots : t < cur => processes[t]
  /\ ~At("halt") => processes[cur]

(* A sys_execute of the stack s of slot p, past the point where it stores  *)
(* esp, finds in the PCB b of its child what it has stored there.          *)
SavedOf(p, s, b) ==
  \A i \in 1 .. Len(s) : s[i].pc \in {"tss", "iret"} =>
    /\ b[s[i].slot].proc_num = s[i].slot
    /\ b[s[i].slot].parent_proc_num = p
    /\ b[s[i].slot].esp = [page |-> p, depth |-> i]

Saved == \A p \in Slots : SavedOf(p, kstack[p], pcb)

(* The stack in use and tss.esp0, for each program point.                  *)
Machine ==
  /\ mode # "crashed"
  /\ mode = "user" => kstack[cur] = <<>> /\ tss_esp0 = cur
  /\ mode = "kernel" =>
       /\ Top.pc # "wait"
       /\ Top.pc \in SoundPcs => tss_esp0 = cur
       /\ Top.pc = "iret" => tss_esp0 = Top.slot
       /\ Top.pc = "halt" =>
            /\ cur # 0
            /\ Len(kstack[cur]) = 1
            /\ Top.ret = pcb[cur].esp
            /\ tss_esp0 = pcb[cur].parent_proc_num

(* The page at 128MB and the copy of the program, for each program point.  *)
Mapped ==
  /\ mode = "user" => page_dir32 = cur
  /\ mode = "kernel" =>
       /\ Top.pc \in SafePcs => page_dir32 = cur
       /\ Top.pc \in {"load", "pcb", "tss", "iret"} => page_dir32 = Top.slot
       /\ Top.pc = "load" =>
            \A i \in 1 .. Top.k : image[Top.slot][i] = Top.slot
       /\ Top.pc \in {"pcb", "tss", "iret"} => Loaded(Top.slot)
       /\ Top.pc = "halt" => page_dir32 = pcb[cur].parent_proc_num

Pages == Mapped /\ \A s \in Live : Loaded(s)

-----------------------------------------------------------------------------
(* Stacks *)

(* A prefix of a sequence.                                                 *)
LEMMA Prefix ==
  ASSUME NEW S, NEW s \in Seq(S), NEW n \in 0 .. Len(s)
  PROVE  /\ SubSeq(s, 1, n) \in Seq(S)
         /\ Len(SubSeq(s, 1, n)) = n
         /\ \A i \in 1 .. n : SubSeq(s, 1, n)[i] = s[i]
OBVIOUS

(* SetTop replaces the newest frame of the stack in use.                   *)
LEMMA SetTopFrames ==
  ASSUME TypeOK, mode = "kernel", NEW g \in Frame, SetTop(g)
  PROVE  /\ kstack' \in [Slots -> Seq(Frame)]
         /\ \A p \in Slots : Len(kstack'[p]) = Len(kstack[p])
         /\ \A p \in Slots : p # cur => kstack'[p] = kstack[p]
         /\ kstack'[cur] # <<>>
         /\ kstack'[cur][Len(kstack[cur])] = g
         /\ \A i \in 1 .. Len(kstack[cur]) :
              i # Len(kstack[cur]) => kstack'[cur][i] = kstack[cur][i]
BY DEF TypeOK, SetTop

(* Pushing and popping on the stack of slot q.                             *)
LEMMA SetStack ==
  ASSUME TypeOK, NEW q \in Slots, NEW s \in Seq(Frame),
         kstack' = [kstack EXCEPT ![q] = s]
  PROVE  /\ kstack' \in [Slots -> Seq(Frame)]
         /\ kstack'[q] = s
         /\ \A p \in Slots : p # q => kstack'[p] = kstack[p]
BY DEF TypeOK

-----------------------------------------------------------------------------
(* Type correctness.  TypeOK is inductive together with one fact: the      *)
(* frame of an interrupt of the kernel is never the oldest of its stack.   *)

FrameType(s) ==
  \A i \in 1 .. Len(s) : s[i].user = NoProc => i > 1

StackType ==
  /\ kstack \in [Slots -> Seq(Frame)]
  /\ mode \in {"user", "kernel", "crashed"}
  /\ cur \in Slots
  /\ mode = "kernel" => kstack[cur] # <<>>
  /\ \A p \in Slots : FrameType(kstack[p])

TypeInv == TypeOK /\ StackType

LEMMA FrameTypePrefix ==
  ASSUME NEW s \in Seq(Frame), FrameType(s), NEW n \in 0 .. Len(s)
  PROVE  FrameType(SubSeq(s, 1, n))
<1> DEFINE u == SubSeq(s, 1, n)
<1>1. Len(u) = n /\ \A i \in 1 .. n : u[i] = s[i] /\ i \in 1 .. Len(s)
  BY Prefix
<1> HIDE DEF u
<1>2. FrameType(u)
  BY <1>1 DEF FrameType
<1> QED BY <1>2 DEF u

LEMMA FrameTypeAppend ==
  ASSUME NEW s \in Seq(Frame), FrameType(s), NEW f \in Frame,
         f.user = NoProc => s # <<>>
  PROVE  /\ Append(s, f) \in Seq(Frame)
         /\ Append(s, f) # <<>>
         /\ FrameType(Append(s, f))
<1>1. /\ Append(s, f) \in Seq(Frame) /\ Len(Append(s, f)) = Len(s) + 1 /\ Len(s) \in Nat
      /\ \A i \in 1 .. Len(s) : Append(s, f)[i] = s[i]
      /\ Append(s, f)[Len(s) + 1] = f
  OBVIOUS
<1>2. f.user = NoProc => Len(s) > 0
  OBVIOUS
<1>3. \A i \in 1 .. Len(s) + 1 : i = Len(s) + 1 \/ i \in 1 .. Len(s)
  BY <1>1
<1>4. Append(s, f) # <<>>
  BY <1>1
<1>5. FrameType(Append(s, f))
  BY <1>1, <1>2, <1>3 DEF FrameType
<1> QED BY <1>1, <1>4, <1>5

LEMMA EnterType ==
  ASSUME TypeInv, NEW pc \in Pcs, NEW slot \in Slots,
         NEW elf \in BOOLEAN, mode # "crashed", Enter(pc, slot, elf)
  PROVE  StackType'
<1> DEFINE frame == [pc |-> pc, slot |-> slot, k |-> 0, elf |-> elf,
                     user |-> EntryUser, ret |-> ZeroEsp]
           s == Append(EntryStack, frame)
<1>1. frame \in Frame /\ frame.user = EntryUser
  BY ConstantsAssumption
  DEF Frame, EntryUser, ZeroEsp, Esp, Slots, TypeInv, TypeOK, NoProc
<1>2. EntryPage \in Slots /\ EntryStack \in Seq(Frame) /\ FrameType(EntryStack)
  BY DEF EntryPage, EntryStack, TypeInv, TypeOK, StackType, FrameType
<1>3. EntryUser = NoProc => EntryStack # <<>>
  BY DEF EntryUser, EntryStack, NoProc, Slots, TypeInv, TypeOK
<1>4. kstack' = [kstack EXCEPT ![EntryPage] = s] /\ mode' = "kernel" /\ cur' = EntryPage
  BY DEF Enter
<1> HIDE DEF frame
<1>5. s \in Seq(Frame) /\ s # <<>> /\ FrameType(s)
  BY <1>1, <1>2, <1>3, FrameTypeAppend
<1> HIDE DEF s
<1>6. /\ kstack' \in [Slots -> Seq(Frame)]
      /\ kstack'[EntryPage] = s
      /\ \A p \in Slots : p # EntryPage => kstack'[p] = kstack[p]
  BY <1>2, <1>4, <1>5, SetStack DEF TypeInv
<1> QED BY <1>2, <1>4, <1>5, <1>6 DEF StackType, TypeInv

LEMMA EnterAndLeaveType ==
  ASSUME TypeInv, mode # "crashed", EnterAndLeave
  PROVE  StackType'
<1>1. /\ EntryPage \in Slots /\ EntryStack \in Seq(Frame) /\ FrameType(EntryStack)
      /\ mode = "kernel" => EntryPage = cur /\ EntryStack # <<>>
  BY DEF EntryPage, EntryStack, TypeInv, TypeOK, StackType, FrameType
<1>2. /\ kstack' \in [Slots -> Seq(Frame)]
      /\ kstack'[EntryPage] = EntryStack
      /\ \A p \in Slots : p # EntryPage => kstack'[p] = kstack[p]
      /\ mode' = mode /\ cur' = cur
  BY <1>1, SetStack DEF EnterAndLeave, TypeInv
<1> QED BY <1>1, <1>2 DEF StackType, TypeInv

LEMMA LeaveType ==
  ASSUME TypeInv, mode = "kernel", Leave
  PROVE  StackType'
<1> DEFINE s == kstack[cur]
<1>1. /\ s \in Seq(Frame) /\ s # <<>> /\ Len(s) \in Nat \ {0} /\ cur \in Slots
      /\ Top \in Frame /\ FrameType(s)
  BY DEF TypeInv, TypeOK, Top, StackType
<1>2. /\ Pop(s) \in Seq(Frame)
      /\ Len(Pop(s)) = Len(s) - 1
      /\ FrameType(Pop(s))
  BY <1>1, Prefix, FrameTypePrefix DEF Pop
<1>3. /\ kstack' \in [Slots -> Seq(Frame)]
      /\ kstack'[cur] = Pop(s)
      /\ \A p \in Slots : p # cur => kstack'[p] = kstack[p]
  <2>1. kstack' = [kstack EXCEPT ![cur] = Pop(s)]
    BY DEF Leave
  <2> QED BY <1>1, <1>2, <2>1, SetStack DEF TypeInv
<1>4. CASE Top.user = NoProc
  <2>1. Len(s) > 1 /\ mode' = mode /\ cur' = cur
    BY <1>1, <1>4 DEF Leave, Top, FrameType
  <2>2. kstack'[cur'] # <<>>
    BY <1>1, <1>2, <1>3, <2>1
  <2> QED BY <1>1, <1>2, <1>3, <2>1, <2>2 DEF StackType, TypeInv
<1>5. CASE Top.user # NoProc
  <2>1. mode' = "user" /\ cur' \in Slots
    BY <1>1, <1>5 DEF Leave, Frame
  <2> QED BY <1>1, <1>2, <1>3, <2>1 DEF StackType, TypeInv
<1> QED BY <1>4, <1>5

LEMMA SetTopType ==
  ASSUME TypeInv, mode = "kernel", NEW g \in Frame, SetTop(g),
         g.user = Top.user,
         mode' \in {"user", "kernel"}, cur' \in Slots,
         mode' = "kernel" => cur' = cur
  PROVE  StackType'
<1>1. FrameType(kstack[cur])
  BY DEF TypeInv, TypeOK, StackType
<1>2. /\ cur \in Slots /\ Len(kstack'[cur]) = Len(kstack[cur])
      /\ kstack'[cur][Len(kstack[cur])] = g
      /\ \A i \in 1 .. Len(kstack[cur]) :
           i # Len(kstack[cur]) => kstack'[cur][i] = kstack[cur][i]
  BY SetTopFrames DEF TypeInv, TypeOK
<1>3. FrameType(kstack'[cur])
  BY <1>1, <1>2 DEF FrameType, Top
<1> QED BY <1>3, SetTopFrames DEF StackType, TypeInv

LEMMA HaltJumpType ==
  ASSUME TypeInv, HaltJump
  PROVE  StackType'
<1> DEFINE r == Top.ret
           f == kstack[r.page][r.depth]
<1>1. mode = "kernel" /\ cur \in Slots /\ r.page \in Slots /\ r.depth \in Nat
  <2>1. mode = "kernel" /\ cur \in Slots /\ Top \in Frame
    <3>1. mode = "kernel" /\ kstack[cur] # <<>>
      BY Zenon DEF HaltJump, At
    <3>2. cur \in Slots /\ kstack \in [Slots -> Seq(Frame)]
      BY Zenon DEF TypeInv, TypeOK
    <3>3. kstack[cur] \in Seq(Frame)
      BY <3>2
    <3> QED BY <3>1, <3>2, <3>3 DEF Top
  <2>2. r \in Esp
    BY <2>1 DEF Frame
  <2> QED BY <2>1, <2>2 DEF Esp
<1>2. CASE ~WaitsAt(r)
  BY <1>1, <1>2 DEF HaltJump, StackType, TypeInv
<1>3. CASE WaitsAt(r)
  <2> DEFINE s == SubSeq(kstack[r.page], 1, r.depth - 1)
  <2>1. /\ kstack[r.page] \in Seq(Frame) /\ FrameType(kstack[r.page])
        /\ r.depth \in 1 .. Len(kstack[r.page]) /\ f \in Frame
    BY <1>1, <1>3 DEF WaitsAt, TypeInv, TypeOK, StackType
  <2>2. s \in Seq(Frame) /\ Len(s) = r.depth - 1 /\ FrameType(s)
    BY <2>1, Prefix, FrameTypePrefix
  <2>3. /\ kstack' = [p \in Slots |-> IF p = r.page THEN s
                                      ELSE IF p = cur THEN <<>> ELSE kstack[p]]
        /\ mode' = IF f.user = NoProc THEN "kernel" ELSE "user"
        /\ cur' = IF f.user = NoProc THEN r.page ELSE f.user
    BY <1>3 DEF HaltJump
  <2>4. cur' \in Slots
    BY <1>1, <2>1, <2>3 DEF Frame
  <2>5. f.user = NoProc => s # <<>>
    <3>1. f.user = NoProc => r.depth > 1
      BY <2>1 DEF FrameType
    <3> HIDE DEF s, f, r
    <3> QED BY <1>1, <3>1, <2>2
  <2>6. FrameType(<<>>)
    BY DEF FrameType
  <2> HIDE DEF s, f, r
  <2> QED BY <1>1, <2>2, <2>3, <2>4, <2>5, <2>6 DEF StackType, TypeInv, TypeOK
<1> QED BY <1>2, <1>3

LEMMA ExecuteType ==
  ASSUME TypeInv, NEW elf \in BOOLEAN, mode # "crashed", Execute(elf)
  PROVE  StackType'
BY EnterType, EnterAndLeaveType DEF Execute, Pcs

(* Every step keeps the types, wherever interrupts come.                   *)
LEMMA TypeStep ==
  ASSUME TypeInv, [Next]_vars
  PROVE  TypeInv'
<1> USE DEF TypeInv
<1>c. MaxProcs \in Nat \ {0} /\ NChunks \in Nat \ {0} /\ 0 \in Slots
  BY ConstantsAssumption DEF Slots
<1>t. mode = "kernel" => Top \in Frame /\ cur \in Slots
  BY DEF TypeOK, Top
<1>s. StackType' => (kstack \in [Slots -> Seq(Frame)])' /\ (cur \in Slots)'
        /\ (mode \in {"user", "kernel", "crashed"})'
        /\ (mode = "kernel" => kstack[cur] # <<>>)'
  BY DEF StackType
<1>1. CASE SysWait
  <2>1. StackType'
    BY <1>1, EnterType DEF SysWait, Pcs, TypeOK
  <2> QED BY <1>1, <1>s, <2>1 DEF SysWait, TypeOK
<1>2. CASE SysWaitDone
  <2>1. StackType'
    BY <1>2, LeaveType DEF SysWaitDone, At
  <2> QED BY <1>2, <1>s, <2>1 DEF SysWaitDone, TypeOK
<1>3. ASSUME NEW elf \in BOOLEAN, SysExecute(elf) PROVE TypeInv'
  <2>1. StackType'
    BY <1>3, ExecuteType DEF SysExecute
  <2> QED BY <1>3, <1>s, <2>1 DEF SysExecute, TypeOK
<1>4. CASE ExecMark
  <2>1. mode = "kernel" /\ Top.pc = "found"
    BY <1>4 DEF ExecMark, At
  <2>2. CASE Top.elf
    <3> DEFINE g == [Top EXCEPT !.pc = "map"]
    <3>1. g \in Frame /\ g.user = Top.user /\ g.pc = "map"
      BY <1>t, <2>1 DEF Frame, Pcs
    <3>2. SetTop(g) /\ mode' = mode /\ cur' = cur
      BY <1>4, <2>2 DEF ExecMark
    <3> HIDE DEF g
    <3>3. StackType'
      BY <1>t, <2>1, <3>1, <3>2, SetTopType
    <3> QED BY <1>4, <1>s, <3>3 DEF ExecMark, TypeOK
  <2>3. CASE ~Top.elf
    <3>1. StackType'
      BY <1>4, <2>1, <2>3, LeaveType DEF ExecMark
    <3> QED BY <1>4, <1>s, <3>1 DEF ExecMark, TypeOK
  <2> QED BY <2>2, <2>3
<1>5. CASE ExecMap
  <2> DEFINE g == [Top EXCEPT !.pc = "load"]
  <2>1. mode = "kernel" /\ SetTop(g) /\ mode' = mode /\ cur' = cur
    BY <1>5 DEF ExecMap, At
  <2>2. g \in Frame /\ g.user = Top.user /\ Top.slot \in Slots
    BY <1>t, <2>1 DEF Frame, Pcs
  <2> HIDE DEF g
  <2>3. StackType'
    BY <1>t, <2>1, <2>2, SetTopType
  <2> QED BY <1>5, <1>s, <2>2, <2>3 DEF ExecMap, TypeOK
<1>6. CASE ExecLoad
  <2> DEFINE g == IF Top.k + 1 = NChunks THEN [Top EXCEPT !.pc = "pcb"]
                                         ELSE [Top EXCEPT !.k = Top.k + 1]
  <2>1. mode = "kernel" /\ SetTop(g) /\ mode' = mode /\ cur' = cur
    BY <1>6 DEF ExecLoad, At
  <2>2. Top.k \in 0 .. NChunks - 1 /\ Top.slot \in Slots
    BY <1>t, <2>1 DEF Frame
  <2>3. g \in Frame /\ g.user = Top.user
    <3>1. CASE Top.k + 1 = NChunks
      BY <1>t, <2>1, <3>1 DEF Frame, Pcs
    <3>2. CASE Top.k + 1 # NChunks
      <4>1. Top.k + 1 \in 0 .. NChunks - 1
        BY <1>c, <2>2, <3>2
      <4> QED BY <1>t, <2>1, <3>2, <4>1 DEF Frame
    <3> QED BY <3>1, <3>2
  <2> HIDE DEF g
  <2>4. StackType'
    BY <1>t, <2>1, <2>3, SetTopType
  <2>5. (image \in [Slots -> [1 .. NChunks -> Slots \cup {NoProc}]])'
    <3>1. image' = [image EXCEPT ![page_dir32][Top.k + 1] = Top.slot]
      BY <1>6 DEF ExecLoad
    <3> QED BY <1>c, <2>2, <3>1 DEF TypeOK
  <2> QED BY <1>6, <1>s, <2>4, <2>5 DEF ExecLoad, TypeOK
<1>7. CASE ExecPcb
  <2> DEFINE g == [Top EXCEPT !.pc = "tss"]
  <2>1. mode = "kernel" /\ SetTop(g) /\ mode' = mode /\ cur' = cur
    BY <1>7 DEF ExecPcb, At
  <2>2. g \in Frame /\ g.user = Top.user /\ g.pc = "tss" /\ Top.slot \in Slots
    BY <1>t, <2>1 DEF Frame, Pcs
  <2> HIDE DEF g
  <2>3. StackType'
    BY <1>t, <2>1, <2>2, SetTopType
  <2>4. NewPcb(Top.slot, cur, Len(kstack[cur])) \in Pcb
    <3>1. Len(kstack[cur]) \in Nat /\ pcb[cur] \in Pcb /\ pcb[Top.slot] \in Pcb
      BY <1>t, <2>1, <2>2 DEF TypeOK
    <3> QED BY <1>t, <2>1, <2>2, <3>1 DEF NewPcb, Pcb, Esp, TypeOK
  <2>5. (pcb \in [Slots -> Pcb])'
    BY <1>7, <2>4 DEF ExecPcb, TypeOK
  <2> QED BY <1>7, <1>s, <2>3, <2>5 DEF ExecPcb, TypeOK
<1>8. CASE ExecTss
  <2> DEFINE g == [Top EXCEPT !.pc = "iret"]
  <2>1. mode = "kernel" /\ SetTop(g) /\ mode' = mode /\ cur' = cur
    BY <1>8 DEF ExecTss, At
  <2>2. g \in Frame /\ g.user = Top.user /\ g.pc = "iret" /\ Top.slot \in Slots
    BY <1>t, <2>1 DEF Frame, Pcs
  <2> HIDE DEF g
  <2>3. StackType'
    BY <1>t, <2>1, <2>2, SetTopType
  <2> QED BY <1>8, <1>s, <2>2, <2>3 DEF ExecTss, TypeOK
<1>9. CASE ExecIret
  <2> DEFINE g == [Top EXCEPT !.pc = "wait"]
  <2>1. mode = "kernel" /\ SetTop(g) /\ mode' = "user" /\ cur' = Top.slot
    BY <1>9 DEF ExecIret, At
  <2>2. g \in Frame /\ g.user = Top.user /\ g.pc = "wait" /\ Top.slot \in Slots
    BY <1>t, <2>1 DEF Frame, Pcs
  <2> HIDE DEF g
  <2>3. StackType'
    BY <1>t, <2>1, <2>2, SetTopType
  <2> QED BY <1>9, <1>s, <2>3 DEF ExecIret, TypeOK
<1>10. CASE HaltJump
  <2>1. StackType'
    BY <1>10, HaltJumpType
  <2> QED BY <1>10, <1>s, <2>1 DEF HaltJump, TypeOK
<1>11. CASE SysHalt
  <2> DEFINE q == tss_esp0
             f == [pc |-> "halt", slot |-> q, k |-> 0, elf |-> FALSE, user |-> cur,
                   ret |-> pcb[q].esp]
  <2>1. q \in Slots /\ cur \in Slots /\ pcb[q] \in Pcb
    BY DEF TypeOK
  <2>2. /\ pcb[q].proc_num \in Slots /\ pcb[q].parent_proc_num \in Slots
        /\ pcb[q].esp \in Esp
    BY <2>1 DEF Pcb
  <2>3. f \in Frame /\ f.user # NoProc /\ f.pc = "halt"
    BY <1>c, <2>1, <2>2 DEF Frame, Pcs, Slots, NoProc
  <2>4. /\ kstack' = [kstack EXCEPT ![q] = <<f>>]
        /\ mode' = "kernel" /\ cur' = q
    BY <1>11 DEF SysHalt
  <2> HIDE DEF f, q
  <2>5. <<f>> \in Seq(Frame) /\ <<f>> # <<>> /\ FrameType(<<f>>)
    BY <2>3 DEF FrameType
  <2>6. StackType'
    BY <2>1, <2>4, <2>5, SetStack DEF StackType
  <2> USE DEF q
  <2> QED BY <1>11, <1>s, <2>1, <2>2, <2>6
      DEF SysHalt, ReleaseSlot, RestoreParent, TypeOK
<1>12. CASE SysHaltBase
  <2> DEFINE q == tss_esp0
  <2>1. q \in Slots /\ pcb[q] \in Pcb /\ pcb[0] \in Pcb
    BY <1>c DEF TypeOK
  <2>2. NewPcb(0, q, 2) \in Pcb
    BY <1>c, <2>1 DEF NewPcb, Pcb, Esp, TypeOK
  <2>3. StackType'
    <3>1. <<>> \in Seq(Frame) /\ FrameType(<<>>)
      BY DEF FrameType
    <3>2. kstack' = [kstack EXCEPT ![q] = <<>>] /\ mode' = "user" /\ cur' = 0
      BY <1>12 DEF SysHaltBase
    <3> QED BY <1>c, <2>1, <3>1, <3>2, SetStack DEF StackType
  <2>4. (pcb \in [Slots -> Pcb])' /\ (processes \in [Slots -> BOOLEAN])'
    BY <1>c, <1>12, <2>2 DEF SysHaltBase, TypeOK
  <2>5. (image \in [Slots -> [1 .. NChunks -> Slots \cup {NoProc}]])'
    BY <1>c, <1>12 DEF SysHaltBase, TypeOK
  <2> QED BY <1>c, <1>12, <1>s, <2>3, <2>4, <2>5 DEF SysHaltBase, TypeOK
<1>13. ASSUME NEW t \in Terminals, Kbd(t) PROVE TypeInv'
  <2>1. mode # "crashed"
    BY <1>13 DEF Kbd, KbdPoint, At
  <2>2. StackType'
    BY <1>13, <2>1, ExecuteType, EnterAndLeaveType DEF Kbd
  <2>3. (struck \subseteq Pcs \ SafePcs)'
    <3>1. struck' = struck \/ (mode # "user" /\ struck' = struck \cup ({Top.pc} \ SafePcs))
      BY <1>13, Zenon DEF Kbd
    <3>2. mode # "user" => Top.pc \in Pcs
      BY <1>t, <2>1 DEF Frame, TypeOK
    <3> QED BY <3>1, <3>2 DEF TypeOK
  <2> QED BY <1>13, <1>s, <2>2, <2>3 DEF Kbd, TypeOK
<1>14. CASE UNCHANGED vars
  BY <1>14 DEF vars, TypeOK, StackType, FrameType
<1> QED BY <1>1, <1>2, <1>3, <1>4, <1>5, <1>6, <1>7, <1>8, <1>9, <1>10, <1>11,
           <1>12, <1>13, <1>14 DEF Next, KernelStep

LEMMA TypeInit == Init => TypeInv
<1> SUFFICES ASSUME Init PROVE TypeInv
  OBVIOUS
<1>1. MaxProcs \in Nat \ {0} /\ NChunks \in Nat \ {0} /\ 0 \in Slots
  BY ConstantsAssumption DEF Slots
<1>2. ZeroPcb \in Pcb /\ [ZeroPcb EXCEPT !.terminal_num = 1] \in Pcb
  BY <1>1 DEF ZeroPcb, Pcb, ZeroEsp, Esp, Terminals
<1>3. pcb \in [Slots -> Pcb]
  BY <1>2 DEF Init
<1>4. StackType
  BY <1>1 DEF Init, StackType, FrameType
<1>5. image \in [Slots -> [1 .. NChunks -> Slots \cup {NoProc}]]
  BY <1>1 DEF Init
<1>6. /\ processes \in [Slots -> BOOLEAN] /\ page_dir32 \in Slots /\ tss_esp0 \in Slots
      /\ current_terminal \in Terminals /\ terminal_used \in [Terminals -> BOOLEAN]
      /\ struck \subseteq Pcs \ SafePcs
  BY <1>1 DEF Init, Terminals
<1> QED BY <1>3, <1>4, <1>5, <1>6 DEF TypeOK, TypeInv, StackType

(* The kernel keeps the type invariant of process control whenever the     *)
(* keyboard interrupts it: slots, stack pages and chunks stay in range.    *)
THEOREM TypeCorrect == Spec => []TypeOK
<1>1. TypeInv /\ [Next]_vars => TypeInv'
  BY TypeStep
<1>2. TypeInv => TypeOK
  BY DEF TypeInv
<1> QED BY <1>1, <1>2, TypeInit, PTL DEF Spec

-----------------------------------------------------------------------------
(* The inductive invariant and what it gives one stack. *)

Inv ==
  /\ TypeInv
  /\ Unbroken
  /\ Stacks
  /\ Waiting
  /\ Chain
  /\ Taken
  /\ Saved
  /\ Machine
  /\ Unharmed => Pages

(* Where the frames below the newest one of a stack were interrupted.      *)
LEMMA Interrupted ==
  ASSUME Unbroken
  PROVE  /\ SafePcs \cup struck \subseteq SoundPcs
         /\ Unharmed => SafePcs \cup struck = SafePcs
BY DEF Unbroken, Unharmed, SoundPcs

LEMMA StackOKEmpty ==
  ASSUME NEW p \in Slots, NEW taken, NEW w
  PROVE  StackOK(p, <<>>, taken, w)
BY DEF StackOK, FramesOf, ClaimsOf, OrderOf

LEMMA StackOKPrefix ==
  ASSUME NEW p \in Slots, NEW taken, NEW w, NEW s \in Seq(Frame),
         StackOK(p, s, taken, w), NEW n \in 0 .. Len(s)
  PROVE  StackOK(p, SubSeq(s, 1, n), taken, w)
<1> DEFINE u == SubSeq(s, 1, n)
<1>1. Len(u) = n /\ Len(s) \in Nat /\ n <= Len(s) /\ \A i \in 1 .. n : u[i] = s[i]
  BY Prefix
<1> HIDE DEF u
<1>2. FramesOf(p, u, w)
  BY <1>1 DEF StackOK, FramesOf
<1>3. ClaimsOf(u, taken)
  BY <1>1 DEF StackOK, ClaimsOf
<1>4. OrderOf(u)
  BY <1>1 DEF StackOK, OrderOf
<1> QED BY <1>2, <1>3, <1>4 DEF StackOK, u

(* processes[] and the points of interrupts only grow.                     *)
LEMMA StackOKGrow ==
  ASSUME NEW p \in Slots, NEW a, NEW b, NEW v, NEW w, NEW s \in Seq(Frame),
         StackOK(p, s, a, v), \A t \in Slots : a[t] => b[t], v \subseteq w
  PROVE  StackOK(p, s, b, w)
<1>1. ClaimsOf(s, b)
  BY DEF StackOK, ClaimsOf
<1>2. FramesOf(p, s, w)
  BY DEF StackOK, FramesOf
<1> QED BY <1>1, <1>2 DEF StackOK

(* A sys_execute on top goes on, in its slot.                              *)
LEMMA StackOKTop ==
  ASSUME NEW p \in Slots, NEW a, NEW b, NEW w, NEW s \in Seq(Frame), s # <<>>,
         StackOK(p, s, a, w), \A t \in Slots : a[t] => b[t],
         NEW g \in Frame, NEW u \in Seq(Frame), Len(u) = Len(s),
         u[Len(s)] = g,
         \A i \in 1 .. Len(s) : i # Len(s) => u[i] = s[i],
         s[Len(s)].pc \in ExecPcs,
         g.user = s[Len(s)].user, g.slot = s[Len(s)].slot,
         g.pc \in LateExecPcs \cup {"wait"}, g.pc = "map" => g.k = 0,
         \A t \in Slots : t <= g.slot => b[t]
  PROVE  StackOK(p, u, b, w)
<1>1. Len(s) \in Nat \ {0}
  OBVIOUS
<1>2. FramesOf(p, u, w)
  BY <1>1 DEF StackOK, FramesOf, ExecPcs, LateExecPcs
<1>3. ClaimsOf(u, b)
  BY <1>1 DEF StackOK, ClaimsOf, LateExecPcs
<1>4. OrderOf(u)
  BY <1>1 DEF StackOK, OrderOf
<1> QED BY <1>2, <1>3, <1>4 DEF StackOK

(* A sys_execute starts, from user mode or at one of the points.           *)
LEMMA StackOKPush ==
  ASSUME NEW p \in Slots, NEW a, NEW w, NEW s \in Seq(Frame), StackOK(p, s, a, w),
         s # <<>> => s[Len(s)].pc \in w,
         NEW f \in Frame, f.pc = "found", f.k = 0,
         f.user = IF s = <<>> THEN p ELSE NoProc,
         p < f.slot, ~a[f.slot], \A t \in Slots : t < f.slot => a[t]
  PROVE  StackOK(p, Append(s, f), a, w)
<1> DEFINE u == Append(s, f)
<1>1. /\ Len(s) \in Nat /\ Len(u) = Len(s) + 1
      /\ \A i \in 1 .. Len(s) : u[i] = s[i]
      /\ u[Len(s) + 1] = f
      /\ s = <<>> <=> Len(s) = 0
  OBVIOUS
<1>2. \A i \in 1 .. Len(s) + 1 : i = Len(s) + 1 \/ i \in 1 .. Len(s)
  BY <1>1
<1> HIDE DEF u
<1>3. FramesOf(p, u, w)
  <2> SUFFICES ASSUME NEW i \in 1 .. Len(u)
               PROVE  /\ u[i].user = IF i = 1 THEN p ELSE NoProc
                      /\ i < Len(u) => u[i].pc \in w
                      /\ u[i].pc \in ExecPcs \cup {"wait"} => p < u[i].slot
                      /\ i > 1 => u[i].pc \in ExecPcs \cup {"wait"}
                      /\ u[i].pc \in {"found", "map"} => u[i].k = 0
    BY DEF FramesOf
  <2>1. CASE i = Len(s) + 1
    BY <1>1, <2>1 DEF ExecPcs
  <2>2. CASE i \in 1 .. Len(s)
    <3>1. u[i] = s[i] /\ s # <<>>
      BY <1>1, <2>2
    <3>2. i < Len(s) \/ i = Len(s)
      BY <1>1, <2>2
    <3> QED BY <2>2, <3>1, <3>2 DEF StackOK, FramesOf
  <2> QED BY <1>1, <1>2, <2>1, <2>2
<1>4. ClaimsOf(u, a)
  BY <1>1, <1>2 DEF StackOK, ClaimsOf, LateExecPcs
<1>5. OrderOf(u)
  <2> SUFFICES ASSUME NEW i \in 1 .. Len(u), NEW j \in 1 .. Len(u), i < j
               PROVE  /\ u[i].pc = "found" => u[i].slot <= u[j].slot
                      /\ u[i].pc \in LateExecPcs => u[i].slot < u[j].slot
    BY DEF OrderOf
  <2>1. i \in 1 .. Len(s) /\ u[i] = s[i] /\ s[i] \in Frame
    BY <1>1
  <2>2. s[i].slot \in Slots /\ f.slot \in Slots /\ Slots \subseteq Int
    <3>1. s[i].slot \in Slots /\ f.slot \in Slots
      BY <2>1 DEF Frame
    <3> QED BY <3>1, ConstantsAssumption DEF Slots
  <2>3. CASE j = Len(s) + 1
    <3>1. s[i].pc = "found" => ~(f.slot < s[i].slot)
      BY <2>1, <2>2 DEF StackOK, ClaimsOf
    <3>2. s[i].pc \in LateExecPcs => ~(f.slot <= s[i].slot)
      BY <2>1, <2>2 DEF StackOK, ClaimsOf
    <3>3. u[j] = f /\ u[i] = s[i] /\ s[i].slot \in Int /\ f.slot \in Int
      BY <1>1, <2>1, <2>2, <2>3
    <3> QED BY <3>1, <3>2, <3>3
  <2>4. CASE j \in 1 .. Len(s)
    BY <1>1, <2>1, <2>4 DEF StackOK, OrderOf
  <2> QED BY <1>1, <1>2, <2>3, <2>4
<1> QED BY <1>3, <1>4, <1>5 DEF StackOK, u

(* A process in a slot that is not below the one a stack waits for frees   *)
(* its slot.                                                               *)
LEMMA StackOKRelease ==
  ASSUME NEW p \in Slots, NEW a \in [Slots -> BOOLEAN], NEW c \in Slots, NEW w,
         NEW s \in Seq(Frame), StackOK(p, s, a, w),
         s # <<>> => s[Len(s)].pc = "wait" /\ s[Len(s)].slot <= c
  PROVE  StackOK(p, s, [a EXCEPT ![c] = FALSE], w)
<1> DEFINE b == [a EXCEPT ![c] = FALSE]
<1>1. \A t \in Slots : t # c /\ a[t] => b[t]
  OBVIOUS
<1> HIDE DEF b
<1>2. ClaimsOf(s, b)
  <2> SUFFICES ASSUME NEW i \in 1 .. Len(s)
               PROVE  /\ s[i].pc = "found" => \A t \in Slots : t < s[i].slot => b[t]
                      /\ s[i].pc \in LateExecPcs =>
                           \A t \in Slots : t <= s[i].slot => b[t]
    BY DEF ClaimsOf
  <2>1. Len(s) \in Nat \ {0} /\ s # <<>> /\ s[i] \in Frame /\ s[Len(s)] \in Frame
    OBVIOUS
  <2>2. s[i].slot \in Int /\ s[Len(s)].slot \in Int /\ c \in Int
        /\ \A t \in Slots : t \in Int
    BY <2>1 DEF Frame, Slots
  <2>3. CASE i = Len(s)
    BY <2>1, <2>3 DEF LateExecPcs
  <2>4. CASE i < Len(s)
    <3>1. s[i].pc = "found" => s[i].slot <= c
      BY <2>1, <2>2, <2>4 DEF StackOK, OrderOf
    <3>2. s[i].pc \in LateExecPcs => s[i].slot < c
      BY <2>1, <2>2, <2>4 DEF StackOK, OrderOf
    <3>3. s[i].pc = "found" => \A t \in Slots : t < s[i].slot => b[t]
      BY <1>1, <2>2, <3>1 DEF StackOK, ClaimsOf
    <3>4. s[i].pc \in LateExecPcs => \A t \in Slots : t <= s[i].slot => b[t]
      BY <1>1, <2>2, <3>2 DEF StackOK, ClaimsOf
    <3> QED BY <3>3, <3>4
  <2> QED BY <2>1, <2>3, <2>4
<1> QED BY <1>2 DEF StackOK, b

(* What the suspended frames have saved is not lost when the stack shrinks *)
(* or its newest frame goes on.                                            *)
LEMMA SavedPrefix ==
  ASSUME NEW p, NEW b, NEW s \in Seq(Frame), SavedOf(p, s, b), NEW n \in 0 .. Len(s)
  PROVE  SavedOf(p, SubSeq(s, 1, n), b)
<1> DEFINE u == SubSeq(s, 1, n)
<1>1. Len(u) = n /\ Len(s) \in Nat /\ n <= Len(s) /\ \A i \in 1 .. n : u[i] = s[i]
  BY Prefix
<1> HIDE DEF u
<1>2. SavedOf(p, u, b)
  BY <1>1 DEF SavedOf
<1> QED BY <1>2 DEF u

LEMMA SavedTop ==
  ASSUME NEW p, NEW b, NEW s \in Seq(Frame), NEW u \in Seq(Frame), SavedOf(p, s, b),
         s # <<>>, Len(u) = Len(s), u[Len(s)].slot = s[Len(s)].slot,
         u[Len(s)].pc \in {"tss", "iret"} => s[Len(s)].pc \in {"tss", "iret"},
         \A i \in 1 .. Len(s) : i # Len(s) => u[i] = s[i]
  PROVE  SavedOf(p, u, b)
<1>1. Len(s) \in Nat \ {0}
  OBVIOUS
<1> QED BY <1>1 DEF SavedOf

LEMMA SavedPush ==
  ASSUME NEW p, NEW b, NEW s \in Seq(Frame), SavedOf(p, s, b), NEW f \in Frame,
         f.pc \notin {"tss", "iret"}
  PROVE  SavedOf(p, Append(s, f), b)
<1> DEFINE u == Append(s, f)
<1>1. /\ Len(s) \in Nat /\ Len(u) = Len(s) + 1
      /\ \A i \in 1 .. Len(s) : u[i] = s[i]
      /\ u[Len(s) + 1] = f
  OBVIOUS
<1>2. \A i \in 1 .. Len(s) + 1 : i = Len(s) + 1 \/ i \in 1 .. Len(s)
  BY <1>1
<1> HIDE DEF u
<1>3. SavedOf(p, u, b)
  BY <1>1, <1>2 DEF SavedOf
<1> QED BY <1>3 DEF u

-----------------------------------------------------------------------------
(* Steps *)

LEMMA SlotsInt == \A t \in Slots : t \in Int
BY ConstantsAssumption DEF Slots

(* The facts about cur and the frame on top that most steps need.          *)
LEMMA Basics ==
  ASSUME Inv
  PROVE  /\ TypeOK /\ StackType /\ cur \in Slots /\ cur \in Live
         /\ Live \subseteq Slots /\ Slots \subseteq Int /\ 0 \in Slots
         /\ \A p \in Slots : kstack[p] \in Seq(Frame)
         /\ mode \in {"user", "kernel"}
         /\ mode = "user" => EntryPage = cur /\ EntryStack = <<>>
                             /\ kstack[cur] = <<>> /\ EntryUser = cur
         /\ mode = "kernel" => /\ kstack[cur] # <<>> /\ Top \in Frame
                               /\ Len(kstack[cur]) \in Nat \ {0}
                               /\ EntryPage = cur /\ EntryStack = kstack[cur]
                               /\ EntryUser = NoProc
<1>1. TypeOK /\ StackType /\ Machine /\ cur \in Slots /\ Slots \subseteq Int /\ 0 \in Slots
  BY ConstantsAssumption DEF Inv, TypeInv, TypeOK, Slots
<1>2. cur \in Live /\ Live \subseteq Slots
  BY <1>1 DEF Live
<1>3. mode \in {"user", "kernel"}
  BY <1>1 DEF Machine, TypeOK
<1>4. mode = "user" => EntryPage = cur /\ EntryStack = <<>> /\ kstack[cur] = <<>>
                       /\ EntryUser = cur
  BY <1>1 DEF Machine, EntryPage, EntryStack, EntryUser
<1>5. mode = "kernel" => /\ kstack[cur] # <<>> /\ Top \in Frame
                         /\ Len(kstack[cur]) \in Nat \ {0}
                         /\ EntryPage = cur /\ EntryStack = kstack[cur]
                         /\ EntryUser = NoProc
  BY <1>1 DEF TypeOK, Top, EntryPage, EntryStack, EntryUser
<1> QED BY <1>1, <1>2, <1>3, <1>4, <1>5 DEF TypeOK

(* Every frame on top is constrained by its stack.                         *)
LEMMA TopOK ==
  ASSUME Inv, mode = "kernel"
  PROVE  /\ Top.user = IF Len(kstack[cur]) = 1 THEN cur ELSE NoProc
         /\ Top.pc \in ExecPcs => /\ cur < Top.slot
                                  /\ Top.slot \in Slots \ Live
                                  /\ kstack[Top.slot] = <<>>
         /\ Top.pc \in {"found", "map"} => Top.k = 0
         /\ Top.pc = "found" => \A t \in Slots : t < Top.slot => processes[t]
         /\ Top.pc \in LateExecPcs => \A t \in Slots : t <= Top.slot => processes[t]
<1>1. Len(kstack[cur]) \in Nat \ {0} /\ cur \in Slots /\ Top \in Frame /\ Slots \subseteq Int
  BY Basics
<1>2. StackOK(cur, kstack[cur], processes, SafePcs \cup struck)
  BY <1>1 DEF Inv, Stacks
<1>3. Len(kstack[cur]) \in 1 .. Len(kstack[cur])
  BY <1>1
<1>4. Top.user = IF Len(kstack[cur]) = 1 THEN cur ELSE NoProc
  BY <1>2, <1>3 DEF StackOK, FramesOf, Top
<1>5. /\ Top.pc \in ExecPcs => cur < Top.slot
      /\ Top.pc \in {"found", "map"} => Top.k = 0
  BY <1>2, <1>3 DEF StackOK, FramesOf, Top
<1>6. Top.slot \in Slots
  BY <1>1 DEF Frame
<1>7. Top.pc \in ExecPcs => Top.slot \notin Live
  <2>1. \A s \in Live : s <= cur
    BY DEF Inv, Chain
  <2>2. cur \in Int /\ Top.slot \in Int
    BY <1>1, <1>6
  <2> QED BY <1>5, <2>1, <2>2
<1>8. /\ Top.pc = "found" => \A t \in Slots : t < Top.slot => processes[t]
      /\ Top.pc \in LateExecPcs => \A t \in Slots : t <= Top.slot => processes[t]
  BY <1>2, <1>3 DEF StackOK, ClaimsOf, Top
<1> QED BY <1>4, <1>5, <1>6, <1>7, <1>8 DEF Live

(* A step that leaves cur, the other stacks and the PCBs of the living     *)
(* alone does not touch the chain.                                         *)
LEMMA Calm ==
  ASSUME Inv, cur' = cur, kstack' \in [Slots -> Seq(Frame)],
         \A p \in Slots : p # cur => kstack'[p] = kstack[p],
         \A s \in Live : pcb'[s] = pcb[s]
  PROVE  Live' = Live /\ Waiting' /\ Chain'
<1>1. cur \in Slots /\ Live \subseteq Slots /\ cur \in Live /\ Slots \subseteq Int
  BY Basics
<1>2. Live' = Live
  BY <1>1 DEF Live
<1>3. Waiting'
  <2> SUFFICES ASSUME NEW p \in Slots, p # cur, kstack[p] # <<>>
               PROVE  LET f == kstack[p][Len(kstack[p])] IN
                      f.pc = "wait" /\ f.slot \in Live /\ pcb'[f.slot].esp.page = p
    BY <1>1, <1>2 DEF Waiting
  <2> QED BY DEF Inv, Waiting
<1>4. Chain'
  <2>1. \A s \in Live : s <= cur /\ pcb[s].proc_num = s
    BY DEF Inv, Chain
  <2>2. ASSUME NEW c \in Live \ {0}
        PROVE  LET p == pcb[c].esp.page IN p \in Slots /\ p # cur /\ kstack'[p] = kstack[p]
    <3>1. pcb[c] \in Pcb
      BY <1>1 DEF Inv, TypeInv, TypeOK
    <3>2. pcb[c].esp \in Esp
      BY <3>1 DEF Pcb
    <3>3. pcb[c].esp.page \in Slots
      BY <3>2 DEF Esp
    <3>4. pcb[c].esp.page < c /\ c <= cur
      BY <2>1 DEF Inv, Chain
    <3>5. pcb[c].esp.page \in Int /\ c \in Int /\ cur \in Int
      BY <1>1, <3>3
    <3>6. pcb[c].esp.page # cur
      BY <3>4, <3>5
    <3> QED BY <3>3, <3>6
  <2>3. \A s \in Live : s <= cur /\ pcb'[s].proc_num = s
    BY <2>1
  <2>4. ASSUME NEW c \in Live \ {0}
        PROVE  LET p == pcb'[c].esp.page IN
               /\ p < c
               /\ pcb'[c].parent_proc_num = p
               /\ kstack'[p] # <<>>
               /\ pcb'[c].esp.depth = Len(kstack'[p])
               /\ kstack'[p][Len(kstack'[p])].pc = "wait"
               /\ kstack'[p][Len(kstack'[p])].slot = c
               /\ \A t \in Live : t < c => t <= p
    <3>1. Chain
      BY DEF Inv
    <3>2. pcb'[c] = pcb[c] /\ kstack'[pcb[c].esp.page] = kstack[pcb[c].esp.page]
      BY <2>2
    <3>3. LET p == pcb[c].esp.page IN
          /\ p < c
          /\ pcb[c].parent_proc_num = p
          /\ kstack[p] # <<>>
          /\ pcb[c].esp.depth = Len(kstack[p])
          /\ kstack[p][Len(kstack[p])].pc = "wait"
          /\ kstack[p][Len(kstack[p])].slot = c
          /\ \A t \in Live : t < c => t <= p
      BY <3>1, Zenon DEF Chain
    <3> QED BY <3>2, <3>3
  <2> QED BY <1>2, <2>3, <2>4 DEF Chain
<1> QED BY <1>2, <1>3, <1>4

LEMMA SetTopStep ==
  ASSUME Inv, mode = "kernel", Top.pc \in ExecPcs, NEW g \in Frame, SetTop(g),
         g.user = Top.user, g.slot = Top.slot, g.pc \in LateExecPcs \cup {"wait"},
         g.pc = "map" => g.k = 0,
         \A t \in Slots : processes[t] => processes'[t],
         \A t \in Slots : t <= Top.slot => processes'[t], struck' = struck
  PROVE  /\ Stacks'
         /\ pcb' = pcb /\ (g.pc \in {"tss", "iret"} => Top.pc \in {"tss", "iret"})
              => Saved'
         /\ kstack' \in [Slots -> Seq(Frame)]
         /\ \A p \in Slots : p # cur => kstack'[p] = kstack[p]
         /\ kstack'[cur] # <<>>
         /\ Len(kstack'[cur]) = Len(kstack[cur])
         /\ kstack'[cur][Len(kstack'[cur])] = g
<1>1. cur \in Slots /\ TypeOK /\ kstack[cur] # <<>> /\ \A p \in Slots : kstack[p] \in Seq(Frame)
  BY Basics
<1>2. /\ kstack' \in [Slots -> Seq(Frame)]
      /\ \A p \in Slots : p # cur => kstack'[p] = kstack[p]
      /\ kstack'[cur] # <<>>
      /\ Len(kstack'[cur]) = Len(kstack[cur])
      /\ kstack'[cur][Len(kstack[cur])] = g
      /\ \A i \in 1 .. Len(kstack[cur]) :
           i # Len(kstack[cur]) => kstack'[cur][i] = kstack[cur][i]
  BY <1>1, SetTopFrames
<1>3. kstack'[cur] \in Seq(Frame)
  BY <1>1, <1>2
<1>4. StackOK(cur, kstack'[cur], processes', SafePcs \cup struck)
  <2>1. StackOK(cur, kstack[cur], processes, SafePcs \cup struck)
    BY <1>1 DEF Inv, Stacks
  <2>2. kstack[cur][Len(kstack[cur])] = Top
    BY DEF Top
  <2>3. /\ kstack[cur] \in Seq(Frame) /\ kstack[cur][Len(kstack[cur])].pc \in ExecPcs
        /\ g.user = kstack[cur][Len(kstack[cur])].user
        /\ g.slot = kstack[cur][Len(kstack[cur])].slot
        /\ \A t \in Slots : t <= g.slot => processes'[t]
    BY <1>1, <2>2
  <2> QED BY <1>1, <1>2, <1>3, <2>1, <2>3, StackOKTop
<1>5. \A p \in Slots : p # cur => StackOK(p, kstack'[p], processes', SafePcs \cup struck)
  BY <1>1, <1>2, StackOKGrow DEF Inv, Stacks
<1>6. ASSUME pcb' = pcb, g.pc \in {"tss", "iret"} => Top.pc \in {"tss", "iret"}
      PROVE  Saved'
  <2>1. SavedOf(cur, kstack[cur], pcb)
    BY <1>1 DEF Inv, Saved
  <2>2. SavedOf(cur, kstack'[cur], pcb)
    BY <1>1, <1>2, <1>3, <1>6, <2>1, SavedTop DEF Top
  <2> QED BY <1>2, <1>6, <2>2 DEF Inv, Saved
<1> QED BY <1>2, <1>4, <1>5, <1>6 DEF Stacks

LEMMA LeaveStep ==
  ASSUME Inv, mode = "kernel", Leave, pcb' = pcb, struck' = struck,
         \A t \in Slots : processes[t] => processes'[t]
  PROVE  /\ Stacks'
         /\ Saved'
         /\ cur' = cur
         /\ kstack' \in [Slots -> Seq(Frame)]
         /\ \A p \in Slots : p # cur => kstack'[p] = kstack[p]
         /\ \/ mode' = "user" /\ kstack'[cur] = <<>>
            \/ /\ mode' = "kernel" /\ kstack'[cur] # <<>>
               /\ kstack'[cur][Len(kstack'[cur])].pc \in SafePcs \cup struck
<1> DEFINE s == kstack[cur]
           n == Len(s)
<1>1. /\ cur \in Slots /\ TypeOK /\ \A p \in Slots : kstack[p] \in Seq(Frame)
      /\ s \in Seq(Frame) /\ n \in Nat \ {0} /\ Slots \subseteq Int
  BY Basics
<1>2. /\ Pop(s) \in Seq(Frame) /\ Len(Pop(s)) = n - 1
      /\ \A i \in 1 .. n - 1 : Pop(s)[i] = s[i]
      /\ StackOK(cur, Pop(s), processes, SafePcs \cup struck)
      /\ SavedOf(cur, Pop(s), pcb)
  <2>1. StackOK(cur, s, processes, SafePcs \cup struck) /\ SavedOf(cur, s, pcb)
    <3>1. Stacks /\ Saved
      BY DEF Inv
    <3> QED BY <1>1, <3>1, Zenon DEF Stacks, Saved
  <2>2. n - 1 \in 0 .. n
    <3> HIDE DEF n
    <3> QED BY <1>1
  <2> QED BY <1>1, <2>1, <2>2, Prefix, StackOKPrefix, SavedPrefix DEF Pop
<1>3. /\ kstack' \in [Slots -> Seq(Frame)]
      /\ kstack'[cur] = Pop(s)
      /\ \A p \in Slots : p # cur => kstack'[p] = kstack[p]
  <2>1. kstack' = [kstack EXCEPT ![cur] = Pop(s)]
    BY DEF Leave
  <2> QED BY <1>1, <1>2, <2>1, SetStack
<1>4. Stacks' /\ Saved'
  <2>1. ASSUME NEW p \in Slots
        PROVE  StackOK(p, kstack'[p], processes', SafePcs \cup struck)
    <3>1. StackOK(p, kstack'[p], processes, SafePcs \cup struck) /\ kstack'[p] \in Seq(Frame)
      BY <1>2, <1>3 DEF Inv, Stacks
    <3> QED BY <3>1, StackOKGrow
  <2>2. Saved'
    BY <1>2, <1>3 DEF Inv, Saved
  <2> QED BY <2>1, <2>2 DEF Stacks
<1>5. CASE n = 1
  <2>1. Top.user = cur /\ cur # NoProc
    BY <1>1, <1>5, TopOK DEF NoProc, Slots
  <2>2. mode' = "user" /\ cur' = cur
    BY <2>1 DEF Leave
  <2>3. Pop(s) = <<>>
    BY <1>2, <1>5
  <2> QED BY <1>3, <1>4, <2>2, <2>3
<1>6. CASE n # 1
  <2>1. mode' = mode /\ cur' = cur
    BY <1>6, TopOK DEF Leave
  <2>2. n - 1 \in 1 .. n /\ n - 1 < n
    <3> HIDE DEF n
    <3> QED BY <1>1, <1>6
  <2>3. s[n - 1].pc \in SafePcs \cup struck
    BY <1>1, <2>2 DEF Inv, Stacks, StackOK, FramesOf
  <2> HIDE DEF s, n
  <2>4. Pop(s) # <<>> /\ Pop(s)[Len(Pop(s))] = s[n - 1]
    BY <1>1, <1>2, <1>6
  <2> QED BY <1>3, <1>4, <2>1, <2>3, <2>4
<1> QED BY <1>5, <1>6

(* A step from here on changes only the top of the stack in use.           *)
LEMMA CalmStep ==
  ASSUME Inv, TypeInv', cur' = cur,
         \A p \in Slots : p # cur => kstack'[p] = kstack[p],
         \A s \in Live : pcb'[s] = pcb[s],
         Unbroken', Stacks', Taken', Saved', Machine',
         Unharmed' => /\ Unharmed /\ Mapped'
                      /\ \A s \in Live : image'[s] = image[s]
  PROVE  Inv'
<1>1. Live' = Live /\ Waiting' /\ Chain'
  BY Calm DEF TypeInv, TypeOK
<1>2. (Unharmed => Pages)'
  BY <1>1 DEF Inv, Pages, Loaded
<1> QED BY <1>1, <1>2 DEF Inv

(* Only the keyboard handler changes struck.                               *)
LEMMA NotStruck ==
  ASSUME Inv, struck' = struck
  PROVE  Unbroken' /\ (Unharmed' <=> Unharmed)
BY DEF Inv, Unbroken, Unharmed

(* Back at a point that was interrupted, with tss.esp0 and the page of the *)
(* process whose stack it is.                                              *)
LEMMA Resumed ==
  ASSUME Inv, TypeInv', struck' = struck, cur' \in Slots, tss_esp0' = cur',
         Unharmed => page_dir32' = cur',
         \/ mode' = "user" /\ kstack'[cur'] = <<>>
         \/ /\ mode' = "kernel" /\ kstack'[cur'] # <<>>
            /\ kstack'[cur'][Len(kstack'[cur'])].pc \in SafePcs \cup struck
  PROVE  Machine' /\ (Unharmed' => Mapped')
<1>1. mode' = "kernel" => Top'.pc \in SafePcs \cup struck
  BY DEF Top
<1>2. /\ mode' = "kernel" => Top'.pc \in SoundPcs
      /\ mode' = "kernel" /\ Unharmed => Top'.pc \in SafePcs
  BY <1>1, Interrupted DEF Inv
<1>3. Machine'
  BY <1>2 DEF Machine, SoundPcs, SafePcs
<1>4. Unharmed' => Mapped'
  <2>1. Unharmed' => Unharmed
    BY NotStruck
  <2> QED BY <1>2, <2>1 DEF Mapped, SafePcs
<1> QED BY <1>3, <1>4

LEMMA SysWaitDoneInv ==
  ASSUME Inv, TypeInv', SysWaitDone
  PROVE  Inv'
<1>1. /\ mode = "kernel" /\ Top.pc = "sys" /\ Leave /\ processes' = processes
      /\ page_dir32' = page_dir32 /\ tss_esp0' = tss_esp0
      /\ pcb' = pcb /\ image' = image /\ struck' = struck
  BY DEF SysWaitDone, At
<1>2. /\ Stacks' /\ Saved' /\ cur' = cur
      /\ \A p \in Slots : p # cur => kstack'[p] = kstack[p]
      /\ \/ mode' = "user" /\ kstack'[cur] = <<>>
         \/ /\ mode' = "kernel" /\ kstack'[cur] # <<>>
            /\ kstack'[cur][Len(kstack'[cur])].pc \in SafePcs \cup struck
  BY <1>1, LeaveStep
<1>3. tss_esp0 = cur /\ (Unharmed => page_dir32 = cur)
  BY <1>1 DEF Inv, Machine, Pages, Mapped, SafePcs, SoundPcs
<1>4. Machine' /\ (Unharmed' => Mapped')
  BY <1>1, <1>2, <1>3, Basics, Resumed
<1>5. Taken'
  BY <1>1, <1>2 DEF Inv, Taken, At
<1> QED BY <1>1, <1>2, <1>4, <1>5, NotStruck, CalmStep

LEMMA ExecMarkInv ==
  ASSUME Inv, TypeInv', ExecMark
  PROVE  Inv'
<1>1. /\ mode = "kernel" /\ Top.pc = "found"
      /\ processes' = [processes EXCEPT ![Top.slot] = TRUE]
      /\ page_dir32' = page_dir32 /\ tss_esp0' = tss_esp0
      /\ pcb' = pcb /\ image' = image /\ struck' = struck
  BY DEF ExecMark, At
<1>2. /\ cur < Top.slot /\ Top.slot \in Slots /\ cur \in Slots /\ Slots \subseteq Int
      /\ \A t \in Slots : t < Top.slot => processes[t]
  BY <1>1, TopOK, Basics DEF ExecPcs
<1>3. processes \in [Slots -> BOOLEAN]
  BY DEF Inv, TypeInv, TypeOK
<1>4. /\ \A t \in Slots : processes[t] => processes'[t]
      /\ \A t \in Slots : t <= Top.slot => processes'[t]
  <2>1. ASSUME NEW t \in Slots PROVE t <= Top.slot => t < Top.slot \/ t = Top.slot
    <3>1. t \in Int /\ Top.slot \in Int
      BY <1>2, SlotsInt
    <3> QED BY <3>1
  <2> QED BY <1>1, <1>2, <1>3, <2>1
<1>5. tss_esp0 = cur /\ (Unharmed => page_dir32 = cur)
  BY <1>1 DEF Inv, Machine, Pages, Mapped, SafePcs, SoundPcs
<1>6. \A t \in Slots : t <= cur => processes'[t]
  <2>1. cur \in Int /\ Top.slot \in Int /\ \A t \in Slots : t \in Int
    BY <1>2, SlotsInt
  <2>2. \A t \in Slots : t <= cur => t <= Top.slot
    BY <1>2, <2>1
  <2> QED BY <1>4, <2>2
<1>7. CASE Top.elf
  <2> DEFINE g == [Top EXCEPT !.pc = "map"]
  <2>1. g \in Frame /\ g.user = Top.user /\ g.slot = Top.slot /\ g.pc = "map" /\ g.k = 0
    <3>1. Top \in Frame /\ Top.k = 0
      BY <1>1, Basics, TopOK
    <3> QED BY <3>1 DEF Frame, Pcs
  <2>2. SetTop(g) /\ mode' = "kernel" /\ cur' = cur
    BY <1>1, <1>7 DEF ExecMark
  <2> HIDE DEF g
  <2>3. /\ Stacks' /\ Saved'
        /\ \A p \in Slots : p # cur => kstack'[p] = kstack[p]
        /\ kstack'[cur] # <<>>
        /\ kstack'[cur][Len(kstack'[cur])] = g
    BY <1>1, <1>4, <2>1, <2>2, SetTopStep DEF ExecPcs, LateExecPcs
  <2>4. Machine' /\ (Unharmed' => Mapped')
    <3>1. g.pc \in SafePcs \cup struck
      BY <2>1 DEF SafePcs
    <3> QED BY <1>1, <1>2, <1>5, <2>2, <2>3, <3>1, Resumed
  <2>5. Taken'
    BY <1>2, <1>6, <2>2 DEF Taken
  <2> QED BY <1>1, <2>2, <2>3, <2>4, <2>5, NotStruck, CalmStep
<1>8. CASE ~Top.elf
  <2>1. Leave
    BY <1>8 DEF ExecMark
  <2>2. /\ Stacks' /\ Saved' /\ cur' = cur
        /\ \A p \in Slots : p # cur => kstack'[p] = kstack[p]
        /\ \/ mode' = "user" /\ kstack'[cur] = <<>>
           \/ /\ mode' = "kernel" /\ kstack'[cur] # <<>>
              /\ kstack'[cur][Len(kstack'[cur])].pc \in SafePcs \cup struck
    BY <1>1, <1>4, <2>1, LeaveStep
  <2>3. Machine' /\ (Unharmed' => Mapped')
    BY <1>1, <1>2, <1>5, <2>2, Resumed
  <2>4. Taken'
    BY <1>2, <1>6, <2>2 DEF Taken
  <2> QED BY <1>1, <2>2, <2>3, <2>4, NotStruck, CalmStep
<1> QED BY <1>7, <1>8

(* The part of sys_execute after the ELF check, up to the iret: the frame  *)
(* moves on, processes[] and the living stay as they are.                  *)
LEMMA ExecStep ==
  ASSUME Inv, mode = "kernel", Top.pc \in LateExecPcs, NEW g \in Frame, SetTop(g),
         g.user = Top.user, g.slot = Top.slot,
         g.pc \in (LateExecPcs \ {"map"}) \cup {"wait"}, processes' = processes,
         struck' = struck
  PROVE  /\ Stacks'
         /\ pcb' = pcb /\ (g.pc \in {"tss", "iret"} => Top.pc \in {"tss", "iret"})
              => Saved'
         /\ \A p \in Slots : p # cur => kstack'[p] = kstack[p]
         /\ kstack'[cur] # <<>>
         /\ Len(kstack'[cur]) = Len(kstack[cur])
         /\ kstack'[cur][Len(kstack'[cur])] = g
         /\ cur' = cur /\ g.pc # "wait" => Taken'
         /\ Top.slot \in Slots \ Live
         /\ cur < Top.slot
<1>1. /\ Top.slot \in Slots \ Live /\ cur < Top.slot
      /\ \A t \in Slots : t <= Top.slot => processes'[t]
      /\ cur \in Slots /\ Slots \subseteq Int
  BY TopOK, Basics DEF LateExecPcs, ExecPcs
<1>2. Top.pc \in ExecPcs
  BY DEF LateExecPcs, ExecPcs
<1>3. /\ Stacks'
      /\ pcb' = pcb /\ (g.pc \in {"tss", "iret"} => Top.pc \in {"tss", "iret"})
           => Saved'
      /\ \A p \in Slots : p # cur => kstack'[p] = kstack[p]
      /\ kstack'[cur] # <<>>
      /\ Len(kstack'[cur]) = Len(kstack[cur])
      /\ kstack'[cur][Len(kstack'[cur])] = g
  BY <1>1, <1>2, SetTopStep
<1>4. \A t \in Slots : t <= cur => processes'[t]
  <2>1. cur \in Int /\ Top.slot \in Int /\ \A t \in Slots : t \in Int
    BY <1>1, SlotsInt
  <2>2. \A t \in Slots : t <= cur => t <= Top.slot
    BY <1>1, <2>1
  <2> QED BY <1>1, <2>2
<1>5. cur' = cur => Taken'
  BY <1>1, <1>4 DEF Taken
<1> QED BY <1>1, <1>3, <1>5

LEMMA ExecMapInv ==
  ASSUME Inv, TypeInv', ExecMap
  PROVE  Inv'
<1> DEFINE g == [Top EXCEPT !.pc = "load"]
<1>1. /\ mode = "kernel" /\ Top.pc = "map" /\ SetTop(g) /\ mode' = mode /\ cur' = cur
      /\ page_dir32' = Top.slot /\ tss_esp0' = tss_esp0
      /\ pcb' = pcb /\ image' = image /\ processes' = processes /\ struck' = struck
  BY DEF ExecMap, At
<1>2. Top \in Frame /\ Top.k = 0
  BY <1>1, Basics, TopOK
<1>3. g \in Frame /\ g.user = Top.user /\ g.slot = Top.slot /\ g.pc = "load" /\ g.k = 0
  BY <1>2 DEF Frame, Pcs
<1>4. tss_esp0 = cur
  BY <1>1 DEF Inv, Machine, SafePcs, SoundPcs
<1> HIDE DEF g
<1>5. /\ Stacks' /\ Taken' /\ Saved'
      /\ \A p \in Slots : p # cur => kstack'[p] = kstack[p]
      /\ kstack'[cur][Len(kstack'[cur])] = g
  BY <1>1, <1>3, ExecStep DEF LateExecPcs
<1>6. Top' = g
  BY <1>1, <1>5 DEF Top
<1>7. Machine'
  BY <1>1, <1>3, <1>4, <1>6 DEF Machine
<1>8. Mapped'
  BY <1>1, <1>3, <1>6 DEF Mapped, SafePcs
<1> QED BY <1>1, <1>5, <1>7, <1>8, NotStruck, CalmStep

LEMMA ExecLoadInv ==
  ASSUME Inv, TypeInv', ExecLoad
  PROVE  Inv'
<1> DEFINE g == IF Top.k + 1 = NChunks THEN [Top EXCEPT !.pc = "pcb"]
                                       ELSE [Top EXCEPT !.k = Top.k + 1]
<1>1. /\ mode = "kernel" /\ Top.pc = "load" /\ SetTop(g) /\ mode' = mode /\ cur' = cur
      /\ image' = [image EXCEPT ![page_dir32][Top.k + 1] = Top.slot]
      /\ page_dir32' = page_dir32 /\ tss_esp0' = tss_esp0
      /\ pcb' = pcb /\ processes' = processes /\ struck' = struck
  BY DEF ExecLoad, At
<1>2. Top \in Frame /\ Top.slot \in Slots \ Live /\ Live \subseteq Slots
  BY <1>1, Basics, TopOK DEF ExecPcs
<1>3. /\ tss_esp0 = cur
      /\ Unharmed => /\ page_dir32 = Top.slot
                     /\ \A i \in 1 .. Top.k : image[Top.slot][i] = Top.slot
  BY <1>1 DEF Inv, Machine, SoundPcs, Pages, Mapped
<1>4. Top.k \in 0 .. NChunks - 1 /\ NChunks \in Nat \ {0}
  BY <1>2, ConstantsAssumption DEF Frame
<1>5. /\ g \in Frame /\ g.user = Top.user /\ g.slot = Top.slot
      /\ Top.k + 1 = NChunks => g.pc = "pcb"
      /\ Top.k + 1 # NChunks => g.pc = "load" /\ g.k = Top.k + 1
  <2>1. CASE Top.k + 1 = NChunks
    BY <1>2, <2>1 DEF Frame, Pcs
  <2>2. CASE Top.k + 1 # NChunks
    <3>1. Top.k + 1 \in 0 .. NChunks - 1
      BY <1>4, <2>2
    <3> QED BY <1>1, <1>2, <2>2, <3>1 DEF Frame
  <2> QED BY <2>1, <2>2
<1>6. image \in [Slots -> [1 .. NChunks -> Slots \cup {NoProc}]]
  BY DEF Inv, TypeInv, TypeOK
<1>7. Unharmed => /\ \A s \in Live : image'[s] = image[s]
                  /\ \A i \in 1 .. Top.k + 1 : image'[Top.slot][i] = Top.slot
  <2>1. \A i \in 1 .. Top.k + 1 : i \in 1 .. NChunks /\ (i = Top.k + 1 \/ i \in 1 .. Top.k)
    BY <1>4
  <2> QED BY <1>1, <1>2, <1>3, <1>6, <2>1
<1> HIDE DEF g
<1>8. /\ Stacks' /\ Taken' /\ Saved'
      /\ \A p \in Slots : p # cur => kstack'[p] = kstack[p]
      /\ kstack'[cur][Len(kstack'[cur])] = g
  BY <1>1, <1>5, ExecStep DEF LateExecPcs
<1>9. Top' = g
  BY <1>1, <1>8 DEF Top
<1>10. Machine'
  BY <1>1, <1>3, <1>5, <1>9 DEF Machine
<1>11. Unharmed => Mapped'
  <2>1. CASE Top.k + 1 = NChunks
    BY <1>1, <1>3, <1>5, <1>7, <1>9, <2>1 DEF Mapped, SafePcs, Loaded
  <2>2. CASE Top.k + 1 # NChunks
    BY <1>1, <1>3, <1>5, <1>7, <1>9, <2>2 DEF Mapped, SafePcs
  <2> QED BY <2>1, <2>2
<1> QED BY <1>1, <1>7, <1>8, <1>10, <1>11, NotStruck, CalmStep

(* A suspended sys_execute that has saved its esp starts another slot than *)
(* the one that runs.                                                      *)
LEMMA SuspendedSlot ==
  ASSUME Inv, mode = "kernel", Top.pc \in ExecPcs, NEW p \in Slots,
         NEW i \in 1 .. Len(kstack[p]), p # cur \/ i # Len(kstack[cur]),
         kstack[p][i].pc \in {"tss", "iret"}
  PROVE  kstack[p][i].slot # Top.slot
<1> DEFINE s == kstack[p]
           n == Len(s)
<1>1. /\ s \in Seq(Frame) /\ n \in Nat /\ s[i] \in Frame /\ s[n] \in Frame
      /\ s # <<>> /\ cur \in Slots /\ cur < Top.slot /\ Top.slot \in Slots
  BY Basics, TopOK
<1>2. s[i].slot \in Int /\ s[n].slot \in Int /\ Top.slot \in Int /\ cur \in Int
  BY <1>1, SlotsInt DEF Frame
<1>3. OrderOf(s)
  BY DEF Inv, Stacks, StackOK
<1>4. i < n => s[i].slot < s[n].slot
  BY <1>1, <1>3 DEF OrderOf, LateExecPcs
<1>5. CASE p = cur
  <2>1. s[n] = Top /\ i < n
    BY <1>1, <1>5 DEF Top
  <2>2. s[i].slot < Top.slot
    BY <1>4, <2>1
  <2> HIDE DEF s, n
  <2>3. s[i].slot # Top.slot
    BY <1>2, <2>2
  <2> QED BY <2>3 DEF s
<1>6. CASE p # cur
  <2>1. s[n].pc = "wait" /\ s[n].slot \in Live
    BY <1>1, <1>6 DEF Inv, Waiting
  <2>2. s[n].slot <= cur
    BY <2>1 DEF Inv, Chain
  <2>3. i < n
    BY <1>1, <2>1
  <2> HIDE DEF s, n
  <2>4. s[i].slot < Top.slot
    BY <1>1, <1>2, <1>4, <2>2, <2>3
  <2> QED BY <1>2, <2>4 DEF s
<1> QED BY <1>5, <1>6

LEMMA ExecPcbInv ==
  ASSUME Inv, TypeInv', ExecPcb
  PROVE  Inv'
<1> DEFINE g == [Top EXCEPT !.pc = "tss"]
           new == NewPcb(Top.slot, cur, Len(kstack[cur]))
<1>1. /\ mode = "kernel" /\ Top.pc = "pcb" /\ SetTop(g) /\ mode' = mode /\ cur' = cur
      /\ pcb' = [pcb EXCEPT ![Top.slot] = new]
      /\ page_dir32' = page_dir32 /\ tss_esp0' = tss_esp0
      /\ image' = image /\ processes' = processes /\ struck' = struck
  BY DEF ExecPcb, At
<1>2. /\ Top \in Frame /\ Top.slot \in Slots \ Live /\ Live \subseteq Slots
      /\ cur < Top.slot /\ cur \in Slots /\ cur \in Live /\ Slots \subseteq Int
      /\ TypeOK /\ Len(kstack[cur]) \in Nat \ {0}
  BY <1>1, Basics, TopOK DEF ExecPcs
<1>3. /\ tss_esp0 = cur
      /\ Unharmed => page_dir32 = Top.slot /\ Loaded(Top.slot)
  BY <1>1 DEF Inv, Machine, SoundPcs, Pages, Mapped
<1>4. g \in Frame /\ g.user = Top.user /\ g.slot = Top.slot /\ g.pc = "tss"
  BY <1>2 DEF Frame, Pcs
<1>5. /\ new.proc_num = Top.slot
      /\ new.parent_proc_num = cur
      /\ new.esp = [page |-> cur, depth |-> Len(kstack[cur])]
  <2>1. pcb[cur].proc_num = cur
    BY <1>2 DEF Inv, Chain
  <2>2. Top.slot # 0
    BY <1>2 DEF Slots
  <2> QED BY <2>1, <2>2 DEF NewPcb
<1> HIDE DEF g, new
<1>6. /\ Stacks' /\ Taken'
      /\ \A p \in Slots : p # cur => kstack'[p] = kstack[p]
      /\ Len(kstack'[cur]) = Len(kstack[cur])
      /\ kstack'[cur][Len(kstack'[cur])] = g
  BY <1>1, <1>4, ExecStep DEF LateExecPcs
<1>7. /\ pcb'[Top.slot] = new
      /\ \A s \in Slots : s # Top.slot => pcb'[s] = pcb[s]
  BY <1>1, <1>2 DEF TypeOK
<1>8. Top' = g
  BY <1>1, <1>6 DEF Top
<1>9. Saved'
  <2> SUFFICES ASSUME NEW p \in Slots, NEW i \in 1 .. Len(kstack'[p]),
                      kstack'[p][i].pc \in {"tss", "iret"}
               PROVE  LET c == kstack'[p][i].slot IN
                      /\ pcb'[c].proc_num = c
                      /\ pcb'[c].parent_proc_num = p
                      /\ pcb'[c].esp = [page |-> p, depth |-> i]
    BY DEF Saved, SavedOf
  <2>1. CASE p = cur /\ i = Len(kstack[cur])
    <3>1. kstack'[p][i] = g
      BY <1>6, <2>1
    <3> QED BY <1>4, <1>5, <1>7, <2>1, <3>1
  <2>2. CASE p # cur \/ i # Len(kstack[cur])
    <3>1. i \in 1 .. Len(kstack[p]) /\ kstack'[p][i] = kstack[p][i]
      <4>1. \A j \in 1 .. Len(kstack[cur]) :
              j # Len(kstack[cur]) => kstack'[cur][j] = kstack[cur][j]
        BY <1>1, <1>2, <1>4, SetTopFrames
      <4> QED BY <1>6, <2>2, <4>1
    <3>2. kstack[p][i].slot # Top.slot /\ kstack[p][i].slot \in Slots
      <4>1. kstack[p][i] \in Frame
        BY <3>1, Basics
      <4> QED BY <1>1, <2>2, <3>1, <4>1, SuspendedSlot DEF ExecPcs, Frame
    <3>3. SavedOf(p, kstack[p], pcb)
      BY DEF Inv, Saved
    <3> QED BY <1>7, <3>1, <3>2, <3>3 DEF SavedOf
  <2> QED BY <2>1, <2>2
<1>10. Machine'
  BY <1>1, <1>3, <1>4, <1>8 DEF Machine
<1>11. Unharmed => Mapped'
  BY <1>1, <1>3, <1>4, <1>8 DEF Mapped, SafePcs, Loaded
<1> QED BY <1>1, <1>2, <1>6, <1>7, <1>9, <1>10, <1>11, NotStruck, CalmStep

LEMMA ExecTssInv ==
  ASSUME Inv, TypeInv', ExecTss
  PROVE  Inv'
<1> DEFINE g == [Top EXCEPT !.pc = "iret"]
<1>1. /\ mode = "kernel" /\ Top.pc = "tss" /\ SetTop(g) /\ mode' = mode /\ cur' = cur
      /\ page_dir32' = page_dir32 /\ tss_esp0' = Top.slot
      /\ pcb' = pcb /\ image' = image /\ processes' = processes /\ struck' = struck
  BY DEF ExecTss, At
<1>2. Top \in Frame
  BY <1>1, Basics
<1>3. Unharmed => page_dir32 = Top.slot /\ Loaded(Top.slot)
  BY <1>1 DEF Inv, Pages, Mapped
<1>4. g \in Frame /\ g.user = Top.user /\ g.slot = Top.slot /\ g.pc = "iret"
  BY <1>2 DEF Frame, Pcs
<1> HIDE DEF g
<1>5. /\ Stacks' /\ Taken' /\ Saved'
      /\ \A p \in Slots : p # cur => kstack'[p] = kstack[p]
      /\ kstack'[cur][Len(kstack'[cur])] = g
  BY <1>1, <1>4, ExecStep DEF LateExecPcs
<1>6. Top' = g
  BY <1>1, <1>5 DEF Top
<1>7. Machine'
  BY <1>1, <1>4, <1>6 DEF Machine, SoundPcs, SafePcs
<1>8. Unharmed => Mapped'
  BY <1>1, <1>3, <1>4, <1>6 DEF Mapped, SafePcs, Loaded
<1> QED BY <1>1, <1>5, <1>7, <1>8, NotStruck, CalmStep

(* The PCB of a living process leads to another stack of the chain.        *)
LEMMA ParentPage ==
  ASSUME Inv, NEW c \in Live \ {0}
  PROVE  LET p == pcb[c].esp.page IN
         /\ p \in Slots /\ p # cur /\ p < c /\ p \in Live
         /\ pcb[c].esp.depth = Len(kstack[p]) /\ kstack[p] # <<>>
         /\ kstack[p][Len(kstack[p])].pc = "wait"
         /\ kstack[p][Len(kstack[p])].slot = c
         /\ pcb[c].parent_proc_num = p
         /\ \A t \in Live : t < c => t <= p
<1>1. c \in Slots /\ cur \in Slots /\ TypeOK
  BY Basics
<1>2. pcb[c] \in Pcb
  BY <1>1 DEF TypeOK
<1>3. pcb[c].esp \in Esp
  BY <1>2 DEF Pcb
<1>4. pcb[c].esp.page \in Slots
  BY <1>3 DEF Esp
<1>5. pcb[c].esp.page < c /\ c <= cur
  BY DEF Inv, Chain
<1>6. pcb[c].esp.page \in Int /\ c \in Int /\ cur \in Int
  BY <1>1, <1>4, SlotsInt
<1>7. pcb[c].esp.page # cur
  BY <1>5, <1>6
<1> QED BY <1>4, <1>7 DEF Inv, Chain, Live

LEMMA ExecIretInv ==
  ASSUME Inv, TypeInv', ExecIret
  PROVE  Inv'
<1> DEFINE g == [Top EXCEPT !.pc = "wait"]
           c == Top.slot
<1>1. /\ mode = "kernel" /\ Top.pc = "iret" /\ SetTop(g) /\ mode' = "user" /\ cur' = c
      /\ page_dir32' = page_dir32 /\ tss_esp0' = tss_esp0
      /\ pcb' = pcb /\ image' = image /\ processes' = processes /\ struck' = struck
  BY DEF ExecIret, At
<1>2. /\ Top \in Frame /\ c \in Slots \ Live /\ Live \subseteq Slots /\ cur < c
      /\ cur \in Slots /\ cur \in Live /\ kstack[c] = <<>>
      /\ \A t \in Slots : t <= c => processes[t]
  BY <1>1, Basics, TopOK DEF ExecPcs, LateExecPcs
<1>3. /\ tss_esp0 = c
      /\ Unharmed => page_dir32 = c /\ Loaded(c)
      /\ pcb[c].proc_num = c
      /\ pcb[c].parent_proc_num = cur
      /\ pcb[c].esp = [page |-> cur, depth |-> Len(kstack[cur])]
  <2>1. tss_esp0 = c /\ (Unharmed => page_dir32 = c /\ Loaded(c))
    BY <1>1 DEF Inv, Machine, Pages, Mapped
  <2>2. SavedOf(cur, kstack[cur], pcb) /\ Len(kstack[cur]) \in 1 .. Len(kstack[cur])
    BY <1>1, <1>2, Basics DEF Inv, Saved
  <2> QED BY <1>1, <2>1, <2>2 DEF SavedOf, Top
<1>4. g \in Frame /\ g.user = Top.user /\ g.slot = c /\ g.pc = "wait"
  BY <1>2 DEF Frame, Pcs
<1>5. \A s \in Live : s \in Int /\ s <= cur
  BY <1>2, SlotsInt DEF Inv, Chain
<1>6. c \in Int /\ cur \in Int
  BY <1>2, SlotsInt
<1> HIDE DEF g
<1>7. /\ Stacks' /\ Saved'
      /\ \A p \in Slots : p # cur => kstack'[p] = kstack[p]
      /\ kstack'[cur] # <<>>
      /\ Len(kstack'[cur]) = Len(kstack[cur])
      /\ kstack'[cur][Len(kstack'[cur])] = g
  BY <1>1, <1>4, ExecStep DEF LateExecPcs
<1> HIDE DEF c
<1>8. Live' = Live \cup {c} /\ kstack'[c] = <<>> /\ c # cur
  BY <1>1, <1>2, <1>7 DEF Live
<1>9. Waiting'
  <2> SUFFICES ASSUME NEW p \in Slots, p # c, kstack'[p] # <<>>
               PROVE  LET f == kstack'[p][Len(kstack'[p])] IN
                      f.pc = "wait" /\ f.slot \in Live' /\ pcb[f.slot].esp.page = p
    BY <1>1 DEF Waiting
  <2>1. CASE p = cur
    BY <1>3, <1>4, <1>7, <1>8, <2>1
  <2>2. CASE p # cur
    BY <1>7, <1>8, <2>2 DEF Inv, Waiting
  <2> QED BY <2>1, <2>2
<1>10. Chain'
  <2>1. \A s \in Live' : s <= c /\ pcb[s].proc_num = s
    <3>1. ASSUME NEW s \in Live PROVE s <= c
      <4>1. s \in Int /\ s <= cur /\ cur < c
        BY <1>2, <1>5
      <4> QED BY <1>6, <4>1
    <3> QED BY <1>3, <1>6, <1>8, <3>1 DEF Inv, Chain
  <2>2. ASSUME NEW d \in Live' \ {0}
        PROVE  LET p == pcb[d].esp.page IN
               /\ p < d
               /\ pcb[d].parent_proc_num = p
               /\ kstack'[p] # <<>>
               /\ pcb[d].esp.depth = Len(kstack'[p])
               /\ kstack'[p][Len(kstack'[p])].pc = "wait"
               /\ kstack'[p][Len(kstack'[p])].slot = d
               /\ \A t \in Live' : t < d => t <= p
    <3>1. CASE d = c
      <4>1. \A t \in Live' : t < c => t <= cur
        BY <1>5, <1>6, <1>8
      <4>2. pcb[d].esp.page = cur /\ pcb[d].esp.depth = Len(kstack'[cur])
        BY <1>3, <1>7, <3>1
      <4> QED BY <1>2, <1>3, <1>4, <1>7, <3>1, <4>1, <4>2
    <3>2. CASE d \in Live \ {0}
      <4>1. d \in Int /\ d <= cur /\ \A t \in Live' : t < d => t \in Live
        <5>1. ~(c < d)
          BY <1>2, <1>5, <1>6, <3>2
        <5> QED BY <1>5, <1>8, <3>2, <5>1
      <4>2. LET p == pcb[d].esp.page IN
            /\ p \in Slots /\ p # cur /\ p < d
            /\ pcb[d].esp.depth = Len(kstack[p]) /\ kstack[p] # <<>>
            /\ kstack[p][Len(kstack[p])].pc = "wait"
            /\ kstack[p][Len(kstack[p])].slot = d
            /\ pcb[d].parent_proc_num = p
            /\ \A t \in Live : t < d => t <= p
        BY <3>2, ParentPage
      <4>3. kstack'[pcb[d].esp.page] = kstack[pcb[d].esp.page]
        BY <1>7, <4>2
      <4> QED BY <4>1, <4>2, <4>3
    <3> QED BY <1>8, <3>1, <3>2
  <2> QED BY <1>1, <2>1, <2>2 DEF Chain
<1>11. Taken'
  <2>1. ASSUME NEW t \in Slots, t < c PROVE processes[t]
    <3>1. t \in Int
      BY SlotsInt
    <3>2. t <= c
      BY <1>6, <2>1, <3>1
    <3> QED BY <1>2, <3>2
  <2>2. processes[c]
    BY <1>2, <1>6
  <2> QED BY <1>1, <2>1, <2>2 DEF Taken
<1>12. Machine'
  BY <1>1, <1>3, <1>8 DEF Machine
<1>13. (Unharmed => Pages)'
  <2>1. Unharmed => Mapped'
    BY <1>1, <1>3 DEF Mapped
  <2>2. Unharmed => (\A s \in Live : Loaded(s))'
    BY <1>1, <1>3, <1>8 DEF Inv, Pages, Loaded
  <2> QED BY <1>1, <2>1, <2>2, NotStruck DEF Pages
<1> QED BY <1>1, <1>7, <1>9, <1>10, <1>11, <1>12, <1>13, NotStruck DEF Inv

LEMMA SysHaltInv ==
  ASSUME Inv, TypeInv', SysHalt
  PROVE  Inv'
<1> DEFINE f == [pc |-> "halt", slot |-> cur, k |-> 0, elf |-> FALSE, user |-> cur,
                 ret |-> pcb[cur].esp]
<1>1. /\ mode = "user" /\ tss_esp0 = cur /\ cur \in Slots /\ cur \in Live
      /\ pcb[cur].proc_num = cur /\ processes \in [Slots -> BOOLEAN]
  BY Basics DEF SysHalt, Inv, Machine, Chain, TypeInv, TypeOK
<1>2. /\ cur # 0
      /\ processes' = [processes EXCEPT ![cur] = FALSE]
      /\ page_dir32' = pcb[cur].parent_proc_num
      /\ tss_esp0' = pcb[cur].parent_proc_num
      /\ kstack' = [kstack EXCEPT ![cur] = <<f>>]
      /\ mode' = "kernel" /\ cur' = cur
      /\ pcb' = pcb /\ image' = image /\ struck' = struck
  BY <1>1 DEF SysHalt, ReleaseSlot, RestoreParent
<1>3. /\ f.pc = "halt" /\ f.user = cur /\ f.ret = pcb[cur].esp
  OBVIOUS
<1> HIDE DEF f
<1>4. kstack'[cur] = <<f>> /\ \A p \in Slots : p # cur => kstack'[p] = kstack[p]
  BY <1>1, <1>2 DEF Inv, TypeInv, TypeOK
<1>5. Len(<<f>>) = 1 /\ <<f>>[1] = f /\ <<f>> # <<>>
  OBVIOUS
<1>6. Stacks'
  <2>1. StackOK(cur, <<f>>, processes', SafePcs \cup struck)
    <3>1. FramesOf(cur, <<f>>, SafePcs \cup struck)
      BY <1>3, <1>5 DEF FramesOf, ExecPcs
    <3>2. ClaimsOf(<<f>>, processes')
      BY <1>3, <1>5 DEF ClaimsOf, LateExecPcs
    <3>3. OrderOf(<<f>>)
      BY <1>3, <1>5 DEF OrderOf
    <3> QED BY <3>1, <3>2, <3>3 DEF StackOK
  <2>2. ASSUME NEW p \in Slots, p # cur
        PROVE  StackOK(p, kstack[p], processes', SafePcs \cup struck)
    <3>1. StackOK(p, kstack[p], processes, SafePcs \cup struck) /\ kstack[p] \in Seq(Frame)
      BY Basics DEF Inv, Stacks
    <3>2. kstack[p] # <<>> => /\ kstack[p][Len(kstack[p])].pc = "wait"
                              /\ kstack[p][Len(kstack[p])].slot <= cur
      BY <2>2 DEF Inv, Waiting, Chain
    <3> QED BY <1>1, <1>2, <3>1, <3>2, StackOKRelease
  <2> QED BY <1>2, <1>4, <2>1, <2>2 DEF Stacks
<1>7. Top' = f /\ Len(kstack'[cur']) = 1
  BY <1>2, <1>4, <1>5 DEF Top
<1>8. Machine' /\ Mapped' /\ Saved'
  <2>1. Machine'
    BY <1>2, <1>3, <1>7 DEF Machine, SoundPcs, SafePcs
  <2>2. Mapped'
    BY <1>2, <1>3, <1>7 DEF Mapped, SafePcs
  <2>3. SavedOf(cur, <<f>>, pcb)
    BY <1>3, <1>5 DEF SavedOf
  <2>4. Saved'
    BY <1>2, <1>4, <2>3 DEF Inv, Saved
  <2> QED BY <2>1, <2>2, <2>4
<1>9. Taken'
  <2>1. At("halt")'
    BY <1>2, <1>3, <1>4, <1>5, <1>7 DEF At
  <2>2. \A t \in Slots : t < cur => t # cur
    BY <1>1, SlotsInt
  <2> QED BY <1>1, <1>2, <2>1, <2>2 DEF Inv, Taken
<1> QED BY <1>2, <1>4, <1>6, <1>8, <1>9, NotStruck, CalmStep

LEMMA SysHaltBaseInv ==
  ASSUME Inv, TypeInv', SysHaltBase
  PROVE  Inv'
<1>1. /\ mode = "user" /\ tss_esp0 = cur /\ cur \in Slots /\ cur \in Live /\ 0 \in Slots
      /\ Live \subseteq Slots
      /\ pcb[cur].proc_num = cur /\ processes \in [Slots -> BOOLEAN]
      /\ \A p \in Slots : kstack[p] \in Seq(Frame)
  BY Basics DEF SysHaltBase, Inv, Machine, Chain, TypeInv, TypeOK
<1>2. /\ cur = 0
      /\ processes' = [processes EXCEPT ![0] = TRUE]
      /\ page_dir32' = 0 /\ tss_esp0' = 0
      /\ image' = [image EXCEPT ![0] = [i \in 1 .. NChunks |-> 0]]
      /\ pcb' = [pcb EXCEPT ![0] = NewPcb(0, 0, 2)]
      /\ kstack' = [kstack EXCEPT ![0] = <<>>]
      /\ mode' = "user" /\ cur' = 0 /\ struck' = struck
  BY <1>1 DEF SysHaltBase
<1>3. Live = {0}
  <2>1. \A s \in Live : s <= 0
    BY <1>2 DEF Inv, Chain
  <2>2. \A s \in Live : s \in 0 .. MaxProcs - 1
    BY <1>1 DEF Slots
  <2>3. ASSUME NEW s \in Live PROVE s = 0
    BY <2>1, <2>2, ConstantsAssumption
  <2> QED BY <1>1, <1>2, <2>3
<1>4. \A p \in Slots : kstack[p] = <<>>
  BY <1>1, <1>2, <1>3 DEF Live, Inv, Machine
<1>5. \A p \in Slots : kstack'[p] = <<>>
  BY <1>1, <1>2, <1>4 DEF Inv, TypeInv, TypeOK
<1>6. Live' = {0}
  BY <1>2, <1>5 DEF Live
<1>7. Stacks'
  BY <1>5, StackOKEmpty DEF Stacks
<1>8. Waiting'
  BY <1>5 DEF Waiting
<1>9. Chain'
  <2>1. pcb'[0].proc_num = 0
    <3>1. pcb'[0] = NewPcb(0, 0, 2)
      BY <1>1, <1>2 DEF Inv, TypeInv, TypeOK
    <3> QED BY <3>1 DEF NewPcb
  <2> QED BY <1>2, <1>6, <2>1 DEF Chain
<1>10. Taken'
  <2>1. \A t \in Slots : ~(t < 0)
    BY ConstantsAssumption DEF Slots
  <2> QED BY <1>1, <1>2, <2>1 DEF Taken
<1>11. Machine' /\ Mapped' /\ Saved'
  <2>1. Machine' /\ Mapped'
    BY <1>1, <1>2, <1>5 DEF Machine, Mapped
  <2>2. \A p \in Slots : SavedOf(p, <<>>, pcb')
    BY DEF SavedOf
  <2>3. Saved'
    BY <1>5, <2>2 DEF Saved
  <2> QED BY <2>1, <2>3
<1>12. Pages'
  <2>1. \A i \in 1 .. NChunks : image'[0][i] = 0
    BY <1>1, <1>2 DEF Inv, TypeInv, TypeOK
  <2> QED BY <1>6, <1>11, <2>1 DEF Pages, Loaded
<1> QED BY <1>2, <1>7, <1>8, <1>9, <1>10, <1>11, <1>12, NotStruck DEF Inv

(* What sys_halt returns to.                                               *)
LEMMA HaltJumpStep ==
  ASSUME Inv, HaltJump
  PROVE  LET p == pcb[cur].esp.page
             n == Len(kstack[p])
         IN  /\ cur \in Live \ {0}
             /\ cur' = p
             /\ kstack'[p] = SubSeq(kstack[p], 1, n - 1)
             /\ kstack'[cur] = <<>>
             /\ \A x \in Slots : x # p /\ x # cur => kstack'[x] = kstack[x]
             /\ mode' = IF n = 1 THEN "user" ELSE "kernel"
<1> DEFINE p == pcb[cur].esp.page
           n == Len(kstack[p])
           f == kstack[p][n]
<1>1. /\ mode = "kernel" /\ Top.pc = "halt" /\ cur \in Live /\ cur # 0
      /\ Top.ret = pcb[cur].esp /\ cur \in Slots
  BY Basics DEF HaltJump, At, Inv, Machine
<1>2. /\ p \in Slots /\ p # cur /\ kstack[p] # <<>> /\ pcb[cur].esp.depth = n
      /\ f.pc = "wait"
  BY <1>1, ParentPage
<1>3. kstack[p] \in Seq(Frame) /\ n \in Nat \ {0}
  BY <1>2, Basics
<1>4. WaitsAt(Top.ret)
  BY <1>1, <1>2, <1>3 DEF WaitsAt
<1>5. f.user = IF n = 1 THEN p ELSE NoProc
  <2>1. FramesOf(p, kstack[p], SafePcs \cup struck)
    BY <1>2 DEF Inv, Stacks, StackOK
  <2>2. n \in 1 .. Len(kstack[p])
    BY <1>3
  <2> QED BY <2>1, <2>2 DEF FramesOf
<1>6. p # NoProc
  BY <1>2, ConstantsAssumption DEF Slots, NoProc
<1>7. /\ kstack' = [x \in Slots |-> IF x = p THEN SubSeq(kstack[x], 1, n - 1)
                                    ELSE IF x = cur THEN <<>> ELSE kstack[x]]
      /\ mode' = IF f.user = NoProc THEN "kernel" ELSE "user"
      /\ cur' = IF f.user = NoProc THEN p ELSE f.user
  BY <1>1, <1>2, <1>4 DEF HaltJump
<1> HIDE DEF p, n, f
<1>8. cur' = p /\ mode' = IF n = 1 THEN "user" ELSE "kernel"
  BY <1>5, <1>6, <1>7
<1>9. /\ kstack'[p] = SubSeq(kstack[p], 1, n - 1) /\ kstack'[cur] = <<>>
      /\ \A x \in Slots : x # p /\ x # cur => kstack'[x] = kstack[x]
  BY <1>1, <1>2, <1>7
<1> QED BY <1>1, <1>8, <1>9 DEF p, n

LEMMA HaltJumpInv ==
  ASSUME Inv, TypeInv', HaltJump
  PROVE  Inv'
<1> DEFINE p == pcb[cur].esp.page
           n == Len(kstack[p])
           u == SubSeq(kstack[p], 1, n - 1)
<1>1. /\ cur \in Live \ {0} /\ cur' = p /\ kstack'[p] = u /\ kstack'[cur] = <<>>
      /\ \A x \in Slots : x # p /\ x # cur => kstack'[x] = kstack[x]
      /\ mode' = IF n = 1 THEN "user" ELSE "kernel"
  BY HaltJumpStep
<1>2. /\ pcb' = pcb /\ image' = image /\ processes' = processes
      /\ page_dir32' = page_dir32 /\ tss_esp0' = tss_esp0 /\ struck' = struck
      /\ mode = "kernel" /\ Top.pc = "halt"
  BY DEF HaltJump, At
<1>3. /\ p \in Slots /\ p # cur /\ p < cur /\ p \in Live
      /\ kstack[p][n].slot = cur
      /\ pcb[cur].parent_proc_num = p
      /\ \A t \in Live : t < cur => t <= p
  BY <1>1, ParentPage
<1>4. tss_esp0 = p /\ (Unharmed => page_dir32 = p)
  BY <1>2, <1>3 DEF Inv, Machine, Pages, Mapped
<1>5. /\ kstack[p] \in Seq(Frame) /\ n \in Nat \ {0} /\ cur \in Slots /\ Live \subseteq Slots
      /\ StackOK(p, kstack[p], processes, SafePcs \cup struck)
      /\ SavedOf(p, kstack[p], pcb)
      /\ \A x \in Slots : kstack[x] \in Seq(Frame)
  <2>1. kstack[p] # <<>>
    BY <1>1, ParentPage
  <2>2. Stacks /\ Saved
    BY DEF Inv
  <2>3. StackOK(p, kstack[p], processes, SafePcs \cup struck) /\ SavedOf(p, kstack[p], pcb)
    BY <1>3, <2>2, Zenon DEF Stacks, Saved
  <2>4. kstack[p] \in Seq(Frame) /\ cur \in Slots /\ Live \subseteq Slots
        /\ \A x \in Slots : kstack[x] \in Seq(Frame)
    BY <1>3, Basics
  <2>5. n \in Nat \ {0}
    BY <2>1, <2>4
  <2> QED BY <2>3, <2>4, <2>5
<1>6. /\ u \in Seq(Frame) /\ Len(u) = n - 1 /\ \A i \in 1 .. n - 1 : u[i] = kstack[p][i]
      /\ StackOK(p, u, processes, SafePcs \cup struck) /\ SavedOf(p, u, pcb)
  <2>1. n - 1 \in 0 .. n
    <3> HIDE DEF n
    <3> QED BY <1>5
  <2> QED BY <1>3, <1>5, <2>1, Prefix, StackOKPrefix, SavedPrefix
<1>7. n # 1 => n - 1 \in 1 .. n /\ n - 1 < n /\ kstack[p][n - 1].pc \in SafePcs \cup struck
  <2>1. n # 1 => n - 1 \in 1 .. n /\ n - 1 < n
    <3> HIDE DEF n
    <3> QED BY <1>5
  <2> QED BY <1>5, <2>1 DEF StackOK, FramesOf
<1> HIDE DEF p, n, u
<1>8. /\ n = 1 => u = <<>>
      /\ n # 1 => u # <<>> /\ u[Len(u)].pc \in SafePcs \cup struck
  BY <1>5, <1>6, <1>7
<1>9. Live' = Live \ {cur}
  <2>1. ASSUME NEW x \in Slots
        PROVE  (kstack'[x] # <<>> \/ x = p) <=> (x \in Live /\ x # cur)
    <3>1. CASE x = p \/ x = cur
      BY <1>1, <1>3, <3>1
    <3>2. CASE x # p /\ x # cur
      BY <1>1, <3>2 DEF Live
    <3> QED BY <3>1, <3>2
  <2> QED BY <1>1, <1>3, <1>5, <2>1 DEF Live
<1>10. Stacks' /\ Saved'
  <2>1. StackOK(cur, <<>>, processes, SafePcs \cup struck)
    BY <1>5, StackOKEmpty
  <2>2. Stacks'
    BY <1>1, <1>2, <1>6, <2>1 DEF Inv, Stacks
  <2>3. SavedOf(cur, <<>>, pcb)
    BY DEF SavedOf
  <2>4. Saved'
    BY <1>1, <1>2, <1>6, <2>3 DEF Inv, Saved
  <2> QED BY <2>2, <2>4
<1>11. Waiting'
  <2> SUFFICES ASSUME NEW x \in Slots, x # p, kstack'[x] # <<>>
               PROVE  LET f == kstack'[x][Len(kstack'[x])] IN
                      f.pc = "wait" /\ f.slot \in Live' /\ pcb[f.slot].esp.page = x
    BY <1>1, <1>2 DEF Waiting
  <2>1. x # cur /\ kstack'[x] = kstack[x]
    BY <1>1
  <2>2. LET f == kstack[x][Len(kstack[x])] IN
        f.pc = "wait" /\ f.slot \in Live /\ pcb[f.slot].esp.page = x
    BY <2>1 DEF Inv, Waiting
  <2> QED BY <1>9, <2>1, <2>2 DEF p
<1>12. Chain'
  <2>1. ASSUME NEW s \in Live' PROVE s <= p /\ pcb[s].proc_num = s
    <3>1. s \in Live /\ s # cur /\ s <= cur /\ pcb[s].proc_num = s
      BY <1>9 DEF Inv, Chain
    <3>2. s \in Int /\ cur \in Int
      BY <1>5, <3>1, SlotsInt
    <3>3. s < cur
      BY <3>1, <3>2
    <3> QED BY <1>3, <3>1, <3>3
  <2>2. ASSUME NEW d \in Live' \ {0}
        PROVE  LET q == pcb[d].esp.page IN
               /\ q < d
               /\ pcb[d].parent_proc_num = q
               /\ kstack'[q] # <<>>
               /\ pcb[d].esp.depth = Len(kstack'[q])
               /\ kstack'[q][Len(kstack'[q])].pc = "wait"
               /\ kstack'[q][Len(kstack'[q])].slot = d
               /\ \A t \in Live' : t < d => t <= q
    <3> DEFINE q == pcb[d].esp.page
    <3>1. d \in Live \ {0} /\ d # cur
      BY <1>9
    <3>2. /\ q \in Slots /\ q # cur /\ q < d
          /\ pcb[d].esp.depth = Len(kstack[q]) /\ kstack[q] # <<>>
          /\ kstack[q][Len(kstack[q])].pc = "wait"
          /\ kstack[q][Len(kstack[q])].slot = d
          /\ pcb[d].parent_proc_num = q
          /\ \A t \in Live : t < d => t <= q
      BY <3>1, ParentPage
    <3>3. q # p
      BY <1>3, <3>1, <3>2 DEF n
    <3>4. kstack'[q] = kstack[q]
      BY <1>1, <3>2, <3>3
    <3> HIDE DEF q
    <3>5. /\ kstack'[q] # <<>> /\ pcb[d].esp.depth = Len(kstack'[q])
          /\ kstack'[q][Len(kstack'[q])].pc = "wait"
          /\ kstack'[q][Len(kstack'[q])].slot = d
          /\ \A t \in Live' : t < d => t <= q
      BY <1>9, <3>2, <3>4
    <3> QED BY <3>2, <3>5 DEF q
  <2> QED BY <1>1, <1>2, <2>1, <2>2 DEF Chain
<1>13. Taken'
  <2>1. p \in Int /\ cur \in Int /\ \A t \in Slots : t \in Int
    BY <1>3, <1>5, SlotsInt
  <2>2. \A t \in Slots : t <= p => processes[t]
    <3>1. \A t \in Slots : t <= p => t < cur
      BY <1>3, <2>1
    <3> QED BY <3>1 DEF Inv, Taken
  <2>3. processes[p] /\ \A t \in Slots : t < p => processes[t]
    BY <1>3, <2>1, <2>2
  <2> QED BY <1>1, <1>2, <2>3 DEF Taken
<1>14. Machine' /\ (Unharmed' => Mapped')
  BY <1>1, <1>2, <1>3, <1>4, <1>8, Resumed
<1>15. Unharmed => (\A s \in Live : Loaded(s))'
  BY <1>2, <1>9 DEF Inv, Pages, Loaded
<1>16. Unbroken' /\ (Unharmed => Pages)'
  BY <1>2, <1>14, <1>15, NotStruck DEF Pages
<1> QED BY <1>10, <1>11, <1>12, <1>13, <1>14, <1>16 DEF Inv

(* A system call, or an interrupt at any point, that returns at once       *)
(* leaves no trace on the stacks.                                          *)
LEMMA EnterAndLeaveStep ==
  ASSUME Inv, EnterAndLeave
  PROVE  kstack' = kstack /\ mode' = mode /\ cur' = cur
<1>1. EntryPage = cur /\ EntryStack = kstack[cur] /\ cur \in Slots
  BY Basics
<1> QED BY <1>1 DEF EnterAndLeave, Inv, TypeInv, TypeOK

LEMMA QuietInv ==
  ASSUME Inv, TypeInv', kstack' = kstack, mode' = mode, cur' = cur,
         UNCHANGED <<processes, pcb, page_dir32, image, tss_esp0, struck>>
  PROVE  Inv'
<1>1. Stacks' /\ Taken' /\ Saved'
  BY DEF Inv, Stacks, Taken, Saved, At, Top
<1>2. Machine'
  BY DEF Inv, Machine, Top
<1>3. Unharmed => Mapped'
  BY DEF Inv, Pages, Mapped, Top, Loaded
<1> QED BY <1>1, <1>2, <1>3, NotStruck, CalmStep

LEMMA SysWaitInv ==
  ASSUME Inv, TypeInv', SysWait
  PROVE  Inv'
<1> DEFINE f == [pc |-> "sys", slot |-> cur, k |-> 0, elf |-> FALSE, user |-> cur,
                 ret |-> ZeroEsp]
<1>1. /\ mode = "user" /\ EntryPage = cur /\ EntryStack = <<>> /\ EntryUser = cur
      /\ cur \in Slots
  BY Basics DEF SysWait
<1>2. /\ mode' = "kernel" /\ cur' = cur
      /\ kstack' = [kstack EXCEPT ![cur] = Append(<<>>, f)]
      /\ UNCHANGED <<processes, pcb, page_dir32, image, tss_esp0, struck>>
  BY <1>1 DEF SysWait, Enter
<1>3. f.pc = "sys" /\ f.user = cur
  OBVIOUS
<1> HIDE DEF f
<1>4. kstack'[cur] = <<f>> /\ \A p \in Slots : p # cur => kstack'[p] = kstack[p]
  BY <1>1, <1>2 DEF Inv, TypeInv, TypeOK
<1>5. Len(<<f>>) = 1 /\ <<f>>[1] = f /\ <<f>> # <<>>
  OBVIOUS
<1>6. Stacks'
  <2>1. FramesOf(cur, <<f>>, SafePcs \cup struck)
    BY <1>3, <1>5 DEF FramesOf, ExecPcs
  <2>2. ClaimsOf(<<f>>, processes')
    BY <1>3, <1>5 DEF ClaimsOf, LateExecPcs
  <2>3. OrderOf(<<f>>)
    BY <1>3, <1>5 DEF OrderOf
  <2> QED BY <1>2, <1>4, <2>1, <2>2, <2>3 DEF Inv, Stacks, StackOK
<1>7. Saved'
  <2>1. SavedOf(cur, <<f>>, pcb)
    BY <1>3, <1>5 DEF SavedOf
  <2> QED BY <1>2, <1>4, <2>1 DEF Inv, Saved
<1>8. tss_esp0 = cur /\ (Unharmed => page_dir32 = cur)
  BY <1>1 DEF Inv, Machine, Pages, Mapped
<1>9. Machine' /\ (Unharmed' => Mapped')
  <2>1. f.pc \in SafePcs \cup struck
    BY <1>3 DEF SafePcs
  <2> QED BY <1>1, <1>2, <1>4, <1>5, <1>8, <2>1, Resumed
<1>10. Taken'
  <2>1. processes[cur]
    BY <1>1 DEF Inv, Taken, At
  <2> QED BY <1>2, <2>1 DEF Inv, Taken
<1> QED BY <1>2, <1>4, <1>6, <1>7, <1>9, <1>10, NotStruck, CalmStep

(* sys_execute finds a slot beyond all living ones, from user mode or at a *)
(* point that struck names from now on.                                    *)
LEMMA EnterInv ==
  ASSUME Inv, TypeInv', Unbroken', struck \subseteq struck',
         mode = "user" \/ Top.pc \in SafePcs \cup struck',
         NEW elf \in BOOLEAN, NEW s \in Slots, FirstFree(s), Enter("found", s, elf),
         UNCHANGED <<processes, pcb, page_dir32, image, tss_esp0>>
  PROVE  Inv'
<1> DEFINE f == [pc |-> "found", slot |-> s, k |-> 0, elf |-> elf,
                 user |-> EntryUser, ret |-> ZeroEsp]
           u == Append(kstack[cur], f)
           w == SafePcs \cup struck'
<1>1. /\ EntryPage = cur /\ EntryStack = kstack[cur] /\ cur \in Slots
      /\ EntryUser = IF kstack[cur] = <<>> THEN cur ELSE NoProc
      /\ mode \in {"user", "kernel"} /\ kstack[cur] \in Seq(Frame)
      /\ kstack[cur] # <<>> => mode = "kernel"
  BY Basics
<1>2. /\ mode' = "kernel" /\ cur' = cur
      /\ kstack' = [kstack EXCEPT ![cur] = u]
  BY <1>1 DEF Enter
<1>3. /\ f \in Frame /\ f.pc = "found" /\ f.k = 0 /\ f.slot = s
      /\ f.user = IF kstack[cur] = <<>> THEN cur ELSE NoProc
  <2>1. EntryUser \in Slots \cup {NoProc}
    BY <1>1
  <2> QED BY <1>1, <2>1, ConstantsAssumption DEF Frame, Pcs, ZeroEsp, Esp, Slots
<1>4. /\ w \subseteq SoundPcs /\ SafePcs \cup struck \subseteq w
      /\ Unharmed' => Unharmed /\ w = SafePcs
  BY DEF Unbroken, Unharmed, SoundPcs
<1>5. mode = "user" \/ Top.pc \in w
  OBVIOUS
<1> HIDE DEF w
<1>6. processes[cur] /\ \A t \in Slots : t < cur => processes[t]
  <2>1. ~At("halt")
    BY <1>4, <1>5 DEF At, SoundPcs, SafePcs
  <2> QED BY <2>1 DEF Inv, Taken
<1>7. cur < s /\ ~processes[s] /\ \A t \in Slots : t < s => processes[t]
  <2>1. ~processes[s] /\ \A t \in Slots : t < s => processes[t]
    BY DEF FirstFree
  <2>2. s \in Int /\ cur \in Int /\ s # cur /\ ~(s < cur)
    BY <1>1, <1>6, <2>1, SlotsInt
  <2>3. cur < s
    BY <2>2
  <2> QED BY <2>1, <2>3
<1> HIDE DEF f
<1>8. u # <<>> /\ u[Len(u)] = f
  <2>1. Len(u) = Len(kstack[cur]) + 1 /\ Len(kstack[cur]) \in Nat
        /\ u[Len(kstack[cur]) + 1] = f
    BY <1>1, <1>3
  <2> HIDE DEF u
  <2> QED BY <2>1
<1>9. StackOK(cur, u, processes, w) /\ SavedOf(cur, u, pcb)
  <2>1. /\ StackOK(cur, kstack[cur], processes, SafePcs \cup struck)
        /\ SavedOf(cur, kstack[cur], pcb)
    BY <1>1 DEF Inv, Stacks, Saved
  <2>2. StackOK(cur, kstack[cur], processes, w)
    BY <1>1, <1>4, <2>1, StackOKGrow
  <2>3. kstack[cur] # <<>> => kstack[cur][Len(kstack[cur])].pc \in w
    BY <1>1, <1>5, Basics DEF Top
  <2>4. StackOK(cur, u, processes, w)
    BY <1>1, <1>3, <1>7, <2>2, <2>3, StackOKPush
  <2>5. SavedOf(cur, u, pcb)
    BY <1>1, <1>3, <2>1, SavedPush
  <2> QED BY <2>4, <2>5
<1> HIDE DEF u
<1>10. kstack'[cur] = u /\ \A p \in Slots : p # cur => kstack'[p] = kstack[p]
  BY <1>1, <1>2 DEF Inv, TypeInv, TypeOK
<1>11. Stacks' /\ Saved'
  <2>1. \A p \in Slots : p # cur => StackOK(p, kstack[p], processes, w)
    BY <1>4, Basics, StackOKGrow DEF Inv, Stacks
  <2>2. Stacks'
    BY <1>9, <1>10, <2>1 DEF Stacks, w
  <2>3. Saved'
    BY <1>9, <1>10 DEF Inv, Saved
  <2> QED BY <2>2, <2>3
<1>12. Top' = f
  BY <1>2, <1>8, <1>10 DEF Top
<1>13. /\ tss_esp0 = cur
       /\ Unharmed' => page_dir32 = cur
  <2>1. mode = "user" \/ Top.pc \in SoundPcs
    BY <1>4, <1>5
  <2>2. Unharmed' => Pages /\ (mode = "user" \/ Top.pc \in SafePcs)
    BY <1>4, <1>5 DEF Inv
  <2>3. tss_esp0 = cur
    BY <1>1, <2>1 DEF Inv, Machine
  <2>4. Unharmed' => page_dir32 = cur
    BY <1>1, <2>2 DEF Pages, Mapped
  <2> QED BY <2>3, <2>4
<1>14. Machine' /\ (Unharmed' => Mapped')
  <2>1. Machine'
    BY <1>2, <1>3, <1>12, <1>13 DEF Machine
  <2>2. Unharmed' => Mapped'
    BY <1>2, <1>3, <1>12, <1>13 DEF Mapped
  <2> QED BY <2>1, <2>2
<1>15. Taken'
  BY <1>2, <1>6 DEF Taken
<1> QED BY <1>2, <1>4, <1>10, <1>11, <1>14, <1>15, CalmStep

LEMMA SysExecuteInv ==
  ASSUME Inv, TypeInv', NEW elf \in BOOLEAN, SysExecute(elf)
  PROVE  Inv'
<1>1. /\ mode = "user" /\ Execute(elf) /\ struck' = struck
      /\ UNCHANGED <<processes, pcb, page_dir32, image, tss_esp0>>
  BY DEF SysExecute
<1>2. CASE Full /\ EnterAndLeave
  BY <1>1, <1>2, EnterAndLeaveStep, QuietInv
<1>3. CASE \E s \in Slots : FirstFree(s) /\ Enter("found", s, elf)
  BY <1>1, <1>3, NotStruck, EnterInv
<1> QED BY <1>1, <1>2, <1>3 DEF Execute

(* Alt+Fn, at any point: a shell that is started where the stacks are not  *)
(* in order is what Unbroken excludes.                                     *)
LEMMA KbdInv ==
  ASSUME Inv, TypeInv', Unbroken', NEW t \in Terminals, Kbd(t)
  PROVE  Inv'
<1>1. /\ UNCHANGED <<processes, pcb, page_dir32, image, tss_esp0>>
      /\ struck' = IF mode = "user" \/ terminal_used[t] \/ Full
                     THEN struck ELSE struck \cup ({Top.pc} \ SafePcs)
  BY DEF Kbd
<1>2. CASE terminal_used[t]
  <2>1. EnterAndLeave
    BY <1>2 DEF Kbd
  <2> QED BY <1>1, <1>2, <2>1, EnterAndLeaveStep, QuietInv
<1>3. CASE ~terminal_used[t]
  <2>1. Execute(TRUE)
    BY <1>3 DEF Kbd
  <2>2. CASE Full /\ EnterAndLeave
    BY <1>1, <2>2, EnterAndLeaveStep, QuietInv
  <2>3. ASSUME NEW s \in Slots, FirstFree(s), Enter("found", s, TRUE)
        PROVE  Inv'
    <3>1. ~Full
      BY <2>3 DEF FirstFree, Full
    <3>2. struck \subseteq struck' /\ (mode = "user" \/ Top.pc \in SafePcs \cup struck')
      BY <1>1, <1>3, <3>1
    <3> QED BY <1>1, <2>3, <3>2, EnterInv
  <2> QED BY <2>1, <2>2, <2>3 DEF Execute
<1> QED BY <1>2, <1>3

LEMMA InvInit == Init => Inv
<1> SUFFICES ASSUME Init PROVE Inv
  OBVIOUS
<1>1. TypeInv /\ 0 \in Slots /\ MaxProcs \in Nat
  BY TypeInit, ConstantsAssumption DEF Slots
<1>2. Live = {0} /\ cur = 0 /\ mode = "user" /\ \A p \in Slots : kstack[p] = <<>>
  BY <1>1 DEF Init, Live
<1>3. Stacks
  BY <1>2, StackOKEmpty DEF Stacks
<1>4. Waiting
  BY <1>2 DEF Waiting
<1>5. Chain
  <2>1. pcb[0].proc_num = 0
    BY <1>1 DEF Init, ZeroPcb
  <2> QED BY <1>2, <2>1 DEF Chain
<1>6. Taken
  <2>1. processes[0]
    BY <1>1 DEF Init
  <2>2. \A t \in Slots : ~(t < 0)
    BY <1>1 DEF Slots
  <2> QED BY <1>2, <2>1, <2>2 DEF Taken
<1>7. Machine /\ Mapped
  BY <1>1 DEF Init, Machine, Mapped
<1>8. Pages
  BY <1>1, <1>2, <1>7 DEF Init, Pages, Loaded
<1>9. Saved
  BY <1>2 DEF Saved, SavedOf
<1>10. Unbroken
  BY DEF Init, Unbroken
<1> QED BY <1>1, <1>3, <1>4, <1>5, <1>6, <1>7, <1>8, <1>9, <1>10 DEF Inv

LEMMA InvStep ==
  ASSUME Inv, Unbroken', [Next]_vars
  PROVE  Inv'
<1>1. TypeInv'
  BY TypeStep DEF Inv
<1>2. CASE UNCHANGED vars
  BY <1>1, <1>2, QuietInv DEF vars
<1>3. CASE KernelStep
  BY <1>1, <1>3, ExecMarkInv, ExecMapInv, ExecLoadInv, ExecPcbInv, ExecTssInv,
     ExecIretInv, HaltJumpInv DEF KernelStep
<1> QED BY <1>1, <1>2, <1>3, SysWaitInv, SysWaitDoneInv, SysExecuteInv, SysHaltInv,
           SysHaltBaseInv, KbdInv DEF Next

(* What a shell was started at is not forgotten.                           *)
LEMMA StruckGrows ==
  ASSUME [Next]_vars
  PROVE  struck \subseteq struck'
<1>1. ASSUME NEW t \in Terminals, Kbd(t) PROVE struck \subseteq struck'
  BY <1>1 DEF Kbd
<1>2. CASE UNCHANGED struck
  BY <1>2
<1> QED BY <1>1, <1>2
    DEF Next, KernelStep, vars, SysWait, SysWaitDone, SysExecute, ExecMark, ExecMap,
        ExecLoad, ExecPcb, ExecTss, ExecIret, HaltJump, SysHalt, SysHaltBase

(* The invariant of the whole system, as long as it is unbroken.           *)
LEMMA InvAlways == Spec => [](Unbroken => Inv)
<1>1. Init => (Unbroken => Inv)
  BY InvInit
<1>2. (Unbroken => Inv) /\ [Next]_vars => (Unbroken => Inv)'
  BY InvStep, StruckGrows DEF Unbroken
<1> QED BY <1>1, <1>2, PTL DEF Spec

-----------------------------------------------------------------------------
(* What follows from the invariant *)

LEMMA InvSafe ==
  ASSUME Unbroken => Inv
  PROVE  /\ ImageComplete /\ TrapStackOwn /\ ImagesIntact /\ ReturnPath
         /\ NoOverwrite /\ HaltReturns
<1>1. Unharmed => Unbroken
  BY DEF Unharmed, Unbroken
<1>2. ImagesIntact
  BY <1>1 DEF Inv, Pages, ImagesIntact
<1>3. ImageComplete
  <2> SUFFICES ASSUME Unharmed, mode = "user" PROVE \A i \in 1 .. NChunks : image[page_dir32][i] = cur
    BY DEF ImageComplete, ProgramWhole
  <2>1. Inv /\ Pages /\ cur \in Live
    BY <1>1, Basics DEF Inv
  <2> QED BY <2>1 DEF Pages, Mapped, Loaded
<1>4. TrapStackOwn
  <2> SUFFICES ASSUME Unbroken, mode = "user"
               PROVE  tss_esp0 = cur /\ pcb[cur].proc_num = cur /\ processes[cur]
    BY DEF TrapStackOwn
  <2>1. cur \in Live /\ Inv
    BY Basics
  <2> QED BY <2>1 DEF Inv, Machine, Chain, Taken, At
<1>5. ReturnPath
  <2> SUFFICES ASSUME Unbroken, NEW c \in Live \ {0}
               PROVE  /\ WaitsAt(pcb[c].esp)
                      /\ kstack[pcb[c].esp.page][pcb[c].esp.depth].slot = c
                      /\ pcb[c].parent_proc_num = pcb[c].esp.page
    BY DEF ReturnPath
  <2> DEFINE p == pcb[c].esp.page
  <2>1. /\ p \in Slots /\ pcb[c].esp.depth = Len(kstack[p]) /\ kstack[p] # <<>>
        /\ kstack[p][Len(kstack[p])].pc = "wait"
        /\ kstack[p][Len(kstack[p])].slot = c
        /\ pcb[c].parent_proc_num = p
    BY ParentPage
  <2>2. Len(kstack[p]) \in 1 .. Len(kstack[p])
    BY <2>1, Basics
  <2> QED BY <2>1, <2>2 DEF WaitsAt
<1>6. NoOverwrite
  BY TopOK DEF NoOverwrite, At
<1>7. HaltReturns
  BY DEF Inv, Machine, HaltReturns, HaltsToParent
<1> QED BY <1>2, <1>3, <1>4, <1>5, <1>6, <1>7

(* The process that runs in user mode has its whole program, whatever the  *)
(* keyboard handler executed in between, as long as it started no shell    *)
(* between a sys_execute's map of the page and its iret, nor at the end of *)
(* sys_halt.                                                               *)
THEOREM ProgramsComplete == Spec => []ImageComplete
<1>1. (Unbroken => Inv) => ImageComplete
  BY InvSafe
<1> QED BY <1>1, InvAlways, PTL

(* A trap enters the kernel stack of the process that runs (tss.esp0), for *)
(* any number of slots, with shells started anywhere but at the iret of    *)
(* sys_execute and at the end of sys_halt.                                 *)
THEOREM TrapsOnOwnStack == Spec => []TrapStackOwn
<1>1. (Unbroken => Inv) => TrapStackOwn
  BY InvSafe
<1> QED BY <1>1, InvAlways, PTL

(* No execution, complete or failed, works on the slot of a living         *)
(* process, and none overwrites its program, unless a shell was started as *)
(* TrapsOnOwnStack and ProgramsComplete exclude.                           *)
THEOREM ImagesNeverOverwritten == Spec => [](ImagesIntact /\ NoOverwrite)
<1>1. (Unbroken => Inv) => ImagesIntact /\ NoOverwrite
  BY InvSafe
<1> QED BY <1>1, InvAlways, PTL

(* The frame that sys_halt of a living process returns to stays in place,  *)
(* and belongs to the sys_execute that started it, for any nesting, with   *)
(* shells started anywhere but at the iret of sys_execute and at the end   *)
(* of sys_halt.                                                            *)
THEOREM ReturnPathKept == Spec => []ReturnPath
<1>1. (Unbroken => Inv) => ReturnPath
  BY InvSafe
<1> QED BY <1>1, InvAlways, PTL

(* sys_halt finds the frame it returns to wherever Alt+Fn comes, unless a  *)
(* shell was started at the iret of sys_execute or after the sti of        *)
(* sys_halt itself, where the run halt_interrupted shows that it does not. *)
THEOREM HaltAlwaysReturns == Spec => []HaltReturns
<1>1. (Unbroken => Inv) => HaltReturns
  BY InvSafe
<1> QED BY <1>1, InvAlways, PTL

LEMMA SlotReleaseStep ==
  ASSUME Inv, [Next]_vars, NEW s \in Slots, processes[s], ~processes'[s]
  PROVE  mode = "user" /\ cur = s
<1>1. CASE SysHalt
  <2>1. mode = "user" /\ tss_esp0 = cur /\ pcb[cur].proc_num = cur /\ cur \in Slots
    BY <1>1, Basics DEF SysHalt, Inv, Machine, Chain
  <2>2. processes' = [processes EXCEPT ![cur] = FALSE]
    BY <1>1, <2>1 DEF SysHalt, ReleaseSlot
  <2> QED BY <2>1, <2>2 DEF Inv, TypeInv, TypeOK
<1>2. CASE ExecMark
  BY <1>2 DEF ExecMark, Inv, TypeInv, TypeOK
<1>3. CASE SysHaltBase
  BY <1>3 DEF SysHaltBase, Inv, TypeInv, TypeOK
<1>4. CASE UNCHANGED processes
  BY <1>4
<1> QED BY <1>1, <1>2, <1>3, <1>4
    DEF Next, KernelStep, vars, SysWait, SysWaitDone, SysExecute, ExecMap, ExecLoad,
        ExecPcb, ExecTss, ExecIret, HaltJump, Kbd

(* An entry of processes[] is cleared only by the halt of the process that *)
(* runs in that slot, until a shell is started at the iret of sys_execute  *)
(* or at the end of sys_halt.                                              *)
THEOREM SlotReleaseTheorem == Spec => SlotRelease
<1>1. (Unbroken => Inv) /\ [Next]_vars =>
        [Unbroken => \A s \in Slots : processes[s] /\ ~processes'[s]
                                          => mode = "user" /\ cur = s]_vars
  BY SlotReleaseStep
<1> QED BY <1>1, InvAlways, PTL DEF Spec, SlotRelease

-----------------------------------------------------------------------------
(* The nesting of processes *)

LEMMA LiveSame ==
  ASSUME Inv, cur' = cur, \A p \in Slots : p # cur => kstack'[p] = kstack[p]
  PROVE  UNCHANGED <<Live, cur>>
<1>1. cur \in Slots
  BY Basics
<1> QED BY <1>1 DEF Live

LEMMA IretNests ==
  ASSUME Inv, ExecIret
  PROVE  \E s \in Slots : /\ \A t \in Live : t < s
                          /\ Live' = Live \cup {s}
                          /\ cur' = s
<1> DEFINE s == Top.slot
<1>1. mode = "kernel" /\ Top.pc = "iret" /\ SetTop([Top EXCEPT !.pc = "wait"]) /\ cur' = s
  BY DEF ExecIret, At
<1>2. /\ Top \in Frame /\ s \in Slots \ Live /\ cur < s /\ cur \in Slots
      /\ Live \subseteq Slots /\ TypeOK /\ kstack[s] = <<>> /\ kstack[cur] # <<>>
  BY <1>1, Basics, TopOK DEF ExecPcs
<1>3. [Top EXCEPT !.pc = "wait"] \in Frame
  BY <1>2 DEF Frame, Pcs
<1>4. /\ \A p \in Slots : p # cur => kstack'[p] = kstack[p]
      /\ kstack'[cur] # <<>>
  BY <1>1, <1>2, <1>3, SetTopFrames
<1>5. \A t \in Live : t < s
  <2> SUFFICES ASSUME NEW t \in Live PROVE t < s
    OBVIOUS
  <2>1. t \in Int /\ cur \in Int /\ s \in Int
    BY <1>2, SlotsInt
  <2>2. t <= cur
    BY DEF Inv, Chain
  <2> HIDE DEF s
  <2> QED BY <1>2, <2>1, <2>2
<1> HIDE DEF s
<1>6. Live' = Live \cup {s}
  BY <1>1, <1>2, <1>4 DEF Live
<1> QED BY <1>1, <1>2, <1>5, <1>6

LEMMA HaltNests ==
  ASSUME Inv, HaltJump
  PROVE  \E p \in Live : /\ p # cur
                         /\ \A t \in Live \ {cur} : t <= p
                         /\ Live' = Live \ {cur}
                         /\ cur' = p
<1> DEFINE p == pcb[cur].esp.page
<1>1. /\ cur \in Live \ {0} /\ cur' = p /\ kstack'[cur] = <<>>
      /\ \A x \in Slots : x # p /\ x # cur => kstack'[x] = kstack[x]
  BY HaltJumpStep
<1>2. /\ p \in Slots /\ p # cur /\ p \in Live
      /\ \A t \in Live : t < cur => t <= p
  BY <1>1, ParentPage
<1>3. Live \subseteq Slots
  BY Basics
<1>4. ASSUME NEW t \in Live \ {cur} PROVE t <= p
  <2>1. t \in Int /\ cur \in Int /\ t <= cur
    BY <1>1, <1>3, SlotsInt DEF Inv, Chain
  <2>2. t < cur
    BY <2>1
  <2> QED BY <1>2, <2>2
<1> HIDE DEF p
<1>5. Live' = Live \ {cur}
  <2>1. ASSUME NEW x \in Slots
        PROVE  (kstack'[x] # <<>> \/ x = p) <=> (x \in Live /\ x # cur)
    <3>1. CASE x = p \/ x = cur
      BY <1>1, <1>2, <3>1
    <3>2. CASE x # p /\ x # cur
      BY <1>1, <3>2 DEF Live
    <3> QED BY <3>1, <3>2
  <2> QED BY <1>1, <1>2, <1>3, <2>1 DEF Live
<1> QED BY <1>1, <1>2, <1>4, <1>5

LEMMA NestingStep ==
  ASSUME Inv, [Next]_vars
  PROVE  [Nesting!NNext]_<<Live, cur>>
<1>1. cur \in Slots /\ TypeOK /\ EntryPage = cur /\ kstack \in [Slots -> Seq(Frame)]
  BY Basics DEF TypeOK
<1>2. CASE ExecIret
  BY <1>2, IretNests DEF Nesting!NNext, Nesting!NExecute, Nesting!NSlots, Slots
<1>3. CASE HaltJump
  BY <1>3, HaltNests DEF Nesting!NNext, Nesting!NHalt
<1>4. CASE SysWaitDone \/ ExecMark
  <2>1. CASE Leave
    <3>1. mode = "kernel"
      BY <1>4 DEF SysWaitDone, ExecMark, At
    <3>2. cur' = cur
      <4>1. Top.user = cur \/ Top.user = NoProc
        BY <3>1, TopOK
      <4> QED BY <2>1, <4>1 DEF Leave
    <3> QED BY <1>1, <2>1, <3>2, LiveSame DEF Leave
  <2>2. CASE \E g : SetTop(g) /\ cur' = cur
    BY <1>1, <2>2, LiveSame DEF SetTop
  <2> QED BY <1>4, <2>1, <2>2 DEF SysWaitDone, ExecMark
<1>5. CASE ExecMap \/ ExecLoad \/ ExecPcb \/ ExecTss
  <2>1. \E g : SetTop(g) /\ cur' = cur
    BY <1>5 DEF ExecMap, ExecLoad, ExecPcb, ExecTss
  <2> QED BY <1>1, <2>1, LiveSame DEF SetTop
<1>6. ASSUME NEW elf \in BOOLEAN, Execute(elf) PROVE UNCHANGED <<Live, cur>>
  BY <1>1, <1>6, LiveSame DEF Execute, Enter, EnterAndLeave
<1>7. ASSUME EnterAndLeave PROVE UNCHANGED <<Live, cur>>
  BY <1>1, <1>7, LiveSame DEF EnterAndLeave
<1>8. CASE SysWait
  BY <1>1, <1>8, LiveSame DEF SysWait, Enter
<1>9. CASE SysHalt
  <2>1. tss_esp0 = cur
    BY <1>9 DEF SysHalt, Inv, Machine
  <2> QED BY <1>1, <1>9, <2>1, LiveSame DEF SysHalt
<1>10. CASE SysHaltBase
  <2>1. tss_esp0 = cur /\ cur = 0
    <3>1. mode = "user" /\ pcb[tss_esp0].proc_num = 0
      BY <1>10, Zenon DEF SysHaltBase
    <3>2. tss_esp0 = cur
      BY <3>1 DEF Inv, Machine
    <3>3. pcb[cur].proc_num = cur
      BY Basics, Zenon DEF Inv, Chain
    <3> QED BY <3>1, <3>2, <3>3
  <2> QED BY <1>1, <1>10, <2>1, LiveSame DEF SysHaltBase
<1>11. ASSUME NEW t \in Terminals, Kbd(t) PROVE UNCHANGED <<Live, cur>>
  BY <1>6, <1>7, <1>11 DEF Kbd
<1>12. CASE UNCHANGED vars
  BY <1>12, LiveSame DEF vars
<1> QED BY <1>2, <1>3, <1>4, <1>5, <1>6, <1>8, <1>9, <1>10, <1>11, <1>12
    DEF Next, KernelStep, SysExecute

(* sys_execute and sys_halt, with their stacks, pages and interrupts, are  *)
(* steps of the nesting of processes until a shell is started at the iret  *)
(* of sys_execute or at the end of sys_halt.                               *)
THEOREM NestingRefinement == Spec => NestingSpec
<1>1. Init => Nesting!NInit
  <2> SUFFICES ASSUME Init PROVE Live = {0} /\ cur = 0
    BY DEF Nesting!NInit
  <2> QED BY ConstantsAssumption DEF Init, Live, Slots
<1>2. (Unbroken => Inv) /\ [Next]_vars => [Unbroken => Nesting!NNext]_(Nesting!nvars)
  BY NestingStep DEF Nesting!nvars
<1> QED BY <1>1, <1>2, InvAlways, PTL DEF Spec, NestingSpec

=============================================================================
