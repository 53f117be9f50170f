--------------------------- MODULE ProcessControl ---------------------------
(***************************************************************************)
(* Control of processes in the House AM kernel: sys_execute, sys_halt and  *)
(* the keyboard interrupt that starts the shells of terminals 2 and 3.     *)
(*                                                                         *)
(* There is one CPU and no scheduler.  A process runs until it executes a  *)
(* child (which runs on its own kernel stack until it halts) or until a    *)
(* keyboard interrupt executes a shell on top of it.  Every gate of the    *)
(* IDT is a trap gate, so interrupts stay enabled in the kernel: the model *)
(* splits sys_execute and the tail of sys_halt into the steps between      *)
(* which an interrupt changes the outcome.                                 *)
(*                                                                         *)
(* A kernel stack is the sequence of frames of the kernel functions active *)
(* on it.  Entering the kernel from user mode starts at tss.esp0, the top  *)
(* of a stack, and overwrites whatever that stack still held.              *)
(*                                                                         *)
(* The open files and the arguments in the PCB are in FileDescriptors, the *)
(* keyboard and its lines in LineDiscipline and Screen.                    *)
(***************************************************************************)
EXTENDS Integers, Sequences

CONSTANTS
  MaxProcs,  \* length of processes[] (6 in the code)
  NChunks,   \* read_data calls that copy one program image to memory
  IrqPcs     \* kernel program points at which Alt+Fn is pressed

Slots == 0 .. MaxProcs - 1
Terminals == 1 .. 3
NoProc == -1

(***************************************************************************)
(* Program points of a kernel frame.                                       *)
(*   sys    a system call that waits (terminal_read, rtc_read)             *)
(*   found  sys_execute saw processes[slot] = 0, has not set it yet        *)
(*   map    the slot is marked, the program found and checked to be ELF    *)
(*   load   page_dir[32] maps the child's page, k chunks are copied        *)
(*   pcb    the image is copied;     tss   esp and ebp are saved           *)
(*   iret   tss.esp0 is set;         wait  the child runs                  *)
(*   halt   sys_halt executed sti, esp is not yet the parent's             *)
(***************************************************************************)
Pcs == {"sys", "found", "map", "load", "pcb", "tss", "iret", "wait", "halt"}

(* The points at which a nested sys_execute leaves nothing to repair, and  *)
(* those at which it leaves at least the stacks and the PCBs in order.     *)
SafePcs == {"sys", "found", "map"}
SoundPcs == SafePcs \cup {"load", "pcb", "tss"}

ASSUME ConstantsAssumption ==
  /\ MaxProcs \in Nat \ {0}
  /\ NChunks \in Nat \ {0}
  /\ IrqPcs \subseteq Pcs

VARIABLES
  processes,        \* slot -> is it marked as taken
  pcb,              \* slot -> proc_num, parent_proc_num, esp, terminal_num
  page_dir32,       \* the slot whose 4MB page is mapped at 128MB
  image,            \* slot -> chunk -> for which slot the chunk was loaded
  tss_esp0,         \* the slot whose kernel stack the next trap enters
  kstack,           \* slot -> frames on its kernel stack, the oldest first
  mode,             \* "user", "kernel" or "crashed"
  cur,              \* user: the process; kernel: the slot get_pcb() returns
  current_terminal,
  terminal_used,
  struck            \* history: the points outside SafePcs at which an
                    \* interrupt has started a shell

vars == <<processes, pcb, page_dir32, image, tss_esp0, kstack, mode, cur,
          current_terminal, terminal_used, struck>>

Esp == [page : Slots, depth : Nat]
Pcb == [proc_num : Slots, parent_proc_num : Slots, esp : Esp,
        terminal_num : Terminals \cup {0}]
Frame == [pc : Pcs, slot : Slots, k : 0 .. NChunks - 1, elf : BOOLEAN,
          user : Slots \cup {NoProc}, ret : Esp]

ZeroEsp == [page |-> 0, depth |-> 0]
ZeroPcb == [proc_num |-> 0, parent_proc_num |-> 0, esp |-> ZeroEsp,
            terminal_num |-> 0]

Top == kstack[cur][Len(kstack[cur])]
Pop(s) == SubSeq(s, 1, Len(s) - 1)
At(pc) == mode = "kernel" /\ kstack[cur] # <<>> /\ Top.pc = pc
SetTop(frame) == kstack' = [kstack EXCEPT ![cur][Len(kstack[cur])] = frame]

(* The shell of terminal 1, started by terminal_init, is in user mode.     *)
Init ==
  /\ processes = [s \in Slots |-> s = 0]
  /\ pcb = [s \in Slots |->
              IF s = 0 THEN [ZeroPcb EXCEPT !.terminal_num = 1] ELSE ZeroPcb]
  /\ page_dir32 = 0
  /\ image = [s \in Slots |->
                [i \in 1 .. NChunks |-> IF s = 0 THEN 0 ELSE NoProc]]
  /\ tss_esp0 = 0
  /\ kstack = [s \in Slots |-> <<>>]
  /\ mode = "user"
  /\ cur = 0
  /\ current_terminal = 1
  /\ terminal_used = [t \in Terminals |-> t = 1]
  /\ struck = {}

-----------------------------------------------------------------------------
(* Entering the kernel: a trap from user mode starts on the stack of       *)
(* tss.esp0, an interrupt of the kernel stays on the stack in use.         *)

EntryPage == IF mode = "user" THEN tss_esp0 ELSE cur
EntryStack == IF mode = "user" THEN <<>> ELSE kstack[cur]
EntryUser == IF mode = "user" THEN cur ELSE NoProc

Enter(pc, slot, elf) ==
  LET frame == [pc |-> pc, slot |-> slot, k |-> 0, elf |-> elf,
                user |-> EntryUser, ret |-> ZeroEsp]
  IN  /\ kstack' = [kstack EXCEPT ![EntryPage] = Append(EntryStack, frame)]
      /\ mode' = "kernel"
      /\ cur' = EntryPage

(* A kernel function that returns at once leaves only the overwritten      *)
(* stack behind.                                                           *)
EnterAndLeave ==
  /\ kstack' = [kstack EXCEPT ![EntryPage] = EntryStack]
  /\ UNCHANGED <<mode, cur>>

(* The frame on top returns: by iret to the user process it was entered    *)
(* from, or to the kernel function it interrupted.                         *)
Leave ==
  /\ kstack' = [kstack EXCEPT ![cur] = Pop(@)]
  /\ IF Top.user = NoProc
       THEN UNCHANGED <<mode, cur>>
       ELSE mode' = "user" /\ cur' = Top.user

(* A system call that waits in the kernel with interrupts enabled.         *)
SysWait ==
  /\ mode = "user"
  /\ Enter("sys", cur, FALSE)
  /\ UNCHANGED <<processes, pcb, page_dir32, image, tss_esp0,
                 current_terminal, terminal_used, struck>>

SysWaitDone ==
  /\ At("sys")
  /\ Leave
  /\ UNCHANGED <<processes, pcb, page_dir32, image, tss_esp0,
                 current_terminal, terminal_used, struck>>

-----------------------------------------------------------------------------
(* sys_execute *)

(* mutant: the search starts at the last entry       *)
FirstFreeFromEnd(s) ==
  ~processes[s] /\ \A t \in Slots : t > s => processes[t]

FirstFree(s) == ~processes[s] /\ \A t \in Slots : t < s => processes[t]
Full == \A s \in Slots : processes[s]

(* The loop over processes[] found an entry that is 0, or the call returns *)
(* -1.  elf says whether the command names an ELF file of the file system. *)
Execute(elf) ==
  \/ Full /\ EnterAndLeave
  \/ \E s \in Slots : FirstFree(s) /\ Enter("found", s, elf)

SysExecute(elf) ==
  /\ mode = "user"
  /\ Execute(elf)
  /\ UNCHANGED <<processes, pcb, page_dir32, image, tss_esp0,
                 current_terminal, terminal_used, struck>>

(* The entry is set; a file that is missing or no ELF makes sys_execute    *)
(* return -1 with the entry still set.                                     *)
ExecMark ==
  /\ At("found")
  /\ processes' = [processes EXCEPT ![Top.slot] = TRUE]
  /\ IF Top.elf
       THEN SetTop([Top EXCEPT !.pc = "map"]) /\ UNCHANGED <<mode, cur>>
       ELSE Leave
  /\ UNCHANGED <<pcb, page_dir32, image, tss_esp0, current_terminal,
                 terminal_used, struck>>

(* mutant: page_dir[32] is not set                   *)
ExecMapUnmapped ==
  /\ At("map")
  /\ SetTop([Top EXCEPT !.pc = "load"])
  /\ UNCHANGED <<processes, pcb, page_dir32, image, tss_esp0, mode, cur,
                 current_terminal, terminal_used, struck>>

ExecMap ==
  /\ At("map")
  /\ page_dir32' = Top.slot
  /\ SetTop([Top EXCEPT !.pc = "load"])
  /\ UNCHANGED <<processes, pcb, image, tss_esp0, mode, cur,
                 current_terminal, terminal_used, struck>>

(* mutant: done_flag is tested one read too late     *)
ExecLoadTooLong ==
  /\ At("load")
  /\ image' = [image EXCEPT ![page_dir32][Top.k + 1] = Top.slot]
  /\ SetTop(IF Top.k = NChunks THEN [Top EXCEPT !.pc = "pcb"]
                                ELSE [Top EXCEPT !.k = Top.k + 1])
  /\ UNCHANGED <<processes, pcb, page_dir32, tss_esp0, mode, cur,
                 current_terminal, terminal_used, struck>>
(* mutant: l is not advanced                         *)
ExecLoadForever ==
  /\ At("load")
  /\ image' = [image EXCEPT ![page_dir32][Top.k + 1] = Top.slot]
  /\ UNCHANGED <<processes, pcb, page_dir32, tss_esp0, kstack, mode, cur,
                 current_terminal, terminal_used, struck>>

(* One read_data call writes a chunk of the program to the virtual address *)
(* 128MB, that is to the page that page_dir[32] maps now.                  *)
ExecLoad ==
  /\ At("load")
  /\ image' = [image EXCEPT ![page_dir32][Top.k + 1] = Top.slot]
  /\ SetTop(IF Top.k + 1 = NChunks THEN [Top EXCEPT !.pc = "pcb"]
                                    ELSE [Top EXCEPT !.k = Top.k + 1])
  /\ UNCHANGED <<processes, pcb, page_dir32, tss_esp0, mode, cur,
                 current_terminal, terminal_used, struck>>

(* mutant: the parent's parent is stored             *)
NewPcbGrandparent(s, q, depth) ==
  [proc_num |-> s,
   parent_proc_num |-> IF s = 0 THEN pcb[s].parent_proc_num
                                ELSE pcb[q].parent_proc_num,
   esp |-> [page |-> q, depth |-> depth],
   terminal_num |-> current_terminal]

(* mutant: esp is that of the caller of sys_execute  *)
NewPcbCallerEsp(s, q, depth) ==
  [proc_num |-> s,
   parent_proc_num |-> IF s = 0 THEN pcb[s].parent_proc_num
                                ELSE pcb[q].proc_num,
   esp |-> [page |-> q, depth |-> depth - 1],
   terminal_num |-> current_terminal]

(* What sys_execute stores in the PCB of slot s when it runs on the kernel *)
(* stack of slot q at the given depth.                                     *)
NewPcb(s, q, depth) ==
  [proc_num |-> s,
   parent_proc_num |-> IF s = 0 THEN pcb[s].parent_proc_num
                                ELSE pcb[q].proc_num,
   esp |-> [page |-> q, depth |-> depth],
   terminal_num |-> current_terminal]

ExecPcb ==
  /\ At("pcb")
  /\ pcb' = [pcb EXCEPT ![Top.slot] = NewPcb(Top.slot, cur, Len(kstack[cur]))]
  /\ SetTop([Top EXCEPT !.pc = "tss"])
  /\ UNCHANGED <<processes, page_dir32, image, tss_esp0, mode, cur,
                 current_terminal, terminal_used, struck>>

ExecTss ==
  /\ At("tss")
  /\ tss_esp0' = Top.slot
  /\ SetTop([Top EXCEPT !.pc = "iret"])
  /\ UNCHANGED <<processes, pcb, page_dir32, image, mode, cur,
                 current_terminal, terminal_used, struck>>

(* context_switch: the child runs in user mode, its parent's frame waits.  *)
ExecIret ==
  /\ At("iret")
  /\ SetTop([Top EXCEPT !.pc = "wait"])
  /\ mode' = "user"
  /\ cur' = Top.slot
  /\ UNCHANGED <<processes, pcb, page_dir32, image, tss_esp0,
                 current_terminal, terminal_used, struck>>

-----------------------------------------------------------------------------
(* sys_halt *)

(* mutant: the parent's entry is cleared             *)
ReleaseSlotParent(q) ==
  processes' = [processes EXCEPT ![pcb[q].parent_proc_num] = FALSE]
ReleaseSlot(q) ==
  processes' = [processes EXCEPT ![pcb[q].proc_num] = FALSE]

(* mutant: the page stays the child's                *)
RestoreParentNoPage(q) ==
  tss_esp0' = pcb[q].parent_proc_num /\ UNCHANGED page_dir32
(* mutant: tss.esp0 stays the child's                *)
RestoreParentNoTss(q) ==
  page_dir32' = pcb[q].parent_proc_num /\ UNCHANGED tss_esp0
RestoreParent(q) ==
  /\ page_dir32' = pcb[q].parent_proc_num
  /\ tss_esp0' = pcb[q].parent_proc_num

(* From cli to sti nothing interleaves: the slot is free again, the page   *)
(* and tss.esp0 are the parent's, esp of the PCB is in a local variable.   *)
SysHalt ==
  LET q == tss_esp0 IN
  /\ mode = "user"
  /\ pcb[q].proc_num # 0
  /\ ReleaseSlot(q)
  /\ RestoreParent(q)
  /\ kstack' = [kstack EXCEPT ![q] =
       <<[pc |-> "halt", slot |-> q, k |-> 0, elf |-> FALSE, user |-> cur,
          ret |-> pcb[q].esp]>>]
  /\ mode' = "kernel"
  /\ cur' = q
  /\ UNCHANGED <<pcb, image, current_terminal, terminal_used, struck>>

(* The base shell executes a new shell in its own slot, the first free     *)
(* one, with interrupts off until the iret.                                *)
SysHaltBase ==
  LET q == tss_esp0 IN
  /\ mode = "user"
  /\ pcb[q].proc_num = 0
  /\ processes' = [processes EXCEPT ![0] = TRUE]
  /\ page_dir32' = 0
  /\ image' = [image EXCEPT ![0] = [i \in 1 .. NChunks |-> 0]]
  /\ pcb' = [pcb EXCEPT ![0] = NewPcb(0, q, 2)]
  /\ tss_esp0' = 0
  /\ kstack' = [kstack EXCEPT ![q] = <<>>]
  /\ cur' = 0
  /\ UNCHANGED <<mode, current_terminal, terminal_used, struck>>

(* The saved esp still points to the frame of a sys_execute that waits.    *)
WaitsAt(esp) ==
  /\ esp.depth \in 1 .. Len(kstack[esp.page])
  /\ kstack[esp.page][esp.depth].pc = "wait"

(* esp and ebp are loaded and return_pt returns from the parent's          *)
(* sys_execute; what the stack holds otherwise is not a return address.    *)
HaltJump ==
  /\ At("halt")
  /\ LET r == Top.ret
         f == kstack[r.page][r.depth]
     IN  IF WaitsAt(r)
           THEN /\ kstack' = [s \in Slots |->
                     IF s = r.page THEN SubSeq(kstack[s], 1, r.depth - 1)
                     ELSE IF s = cur THEN <<>> ELSE kstack[s]]
                /\ mode' = IF f.user = NoProc THEN "kernel" ELSE "user"
                /\ cur' = IF f.user = NoProc THEN r.page ELSE f.user
           ELSE mode' = "crashed" /\ UNCHANGED <<kstack, cur>>
  /\ UNCHANGED <<processes, pcb, page_dir32, image, tss_esp0,
                 current_terminal, terminal_used, struck>>

-----------------------------------------------------------------------------
(* keyboard_interrupt, Alt+F1 .. Alt+F3: the terminal is switched, and the *)
(* first time that terminal 2 or 3 is chosen a shell is executed by the    *)
(* handler, on the kernel stack it interrupted.                            *)

KbdPoint == mode = "user" \/ \E pc \in IrqPcs : At(pc)

Kbd(t) ==
  /\ KbdPoint
  /\ current_terminal' = t
  /\ terminal_used' = [terminal_used EXCEPT ![t] = TRUE]
  /\ IF terminal_used[t] THEN EnterAndLeave ELSE Execute(TRUE)
  /\ struck' = IF mode = "user" \/ terminal_used[t] \/ Full
                 THEN struck ELSE struck \cup ({Top.pc} \ SafePcs)
  /\ UNCHANGED <<processes, pcb, page_dir32, image, tss_esp0>>

-----------------------------------------------------------------------------
KernelStep == \/ ExecMark \/ ExecMap \/ ExecLoad \/ ExecPcb
              \/ ExecTss \/ ExecIret \/ HaltJump

Next == \/ SysWait \/ SysWaitDone
        \/ \E elf \in BOOLEAN : SysExecute(elf)
        \/ KernelStep
        \/ SysHalt \/ SysHaltBase
        \/ \E t \in Terminals : Kbd(t)

Spec == Init /\ [][Next]_vars

(* The CPU does not stop between two instructions of the kernel.  Nothing  *)
(* forces a process to make a system call, or anyone to press a key.       *)
FairSpec == Spec /\ WF_vars(KernelStep)

-----------------------------------------------------------------------------
(* Properties *)

Live == {s \in Slots : kstack[s] # <<>>} \cup {cur}
ExecPcs == {"found", "map", "load", "pcb", "tss", "iret"}
Loaded(s) == \A i \in 1 .. NChunks : image[s][i] = s

(* No shell was started where that breaks something, or only where it      *)
(* breaks programs and no stack: from the iret of sys_execute on tss.esp0  *)
(* is the child's already, and after the sti of sys_halt the stack in use  *)
(* is that of a slot that is free.                                         *)
Unharmed == struck = {}
Unbroken == struck \subseteq SoundPcs

(* Every variable keeps its type, wherever interrupts come.                *)
TypeOK ==
  /\ processes \in [Slots -> BOOLEAN]
  /\ pcb \in [Slots -> Pcb]
  /\ page_dir32 \in Slots
  /\ image \in [Slots -> [1 .. NChunks -> Slots \cup {NoProc}]]
  /\ tss_esp0 \in Slots
  /\ kstack \in [Slots -> Seq(Frame)]
  /\ mode \in {"user", "kernel", "crashed"}
  /\ cur \in Slots
  /\ mode = "kernel" => kstack[cur] # <<>>
  /\ current_terminal \in Terminals
  /\ terminal_used \in [Terminals -> BOOLEAN]
  /\ struck \subseteq Pcs \ SafePcs

(* A process that runs in user mode finds its own program, all of it, in   *)
(* the page mapped at 128MB, whatever ran since it was suspended.          *)
ProgramWhole ==
  mode = "user" => \A i \in 1 .. NChunks : image[page_dir32][i] = cur

(* So it does, unless Alt+Fn has started a shell in a sys_execute between  *)
(* its map of the page and its iret, or in the last instructions of        *)
(* sys_halt.                                                               *)
ImageComplete == Unharmed => ProgramWhole

(* The next trap of a running process enters its own kernel stack, and     *)
(* get_pcb() then finds its own PCB, in a slot marked as taken, unless a   *)
(* shell was started at the iret of sys_execute or at the end of sys_halt. *)
TrapStackOwn ==
  Unbroken /\ mode = "user" => /\ tss_esp0 = cur
                               /\ pcb[cur].proc_num = cur
                               /\ processes[cur]

(* No program is loaded, wholly or in part, over that of a process that is *)
(* suspended or running, unless a shell was started as in ImageComplete.   *)
ImagesIntact == Unharmed => \A s \in Live : Loaded(s)

(* For every process but the base shell, the esp in its PCB points to the  *)
(* frame of the sys_execute that started it, on the parent's stack: what   *)
(* sys_halt will jump to is there as long as the process lives, with       *)
(* shells started anywhere but at the two points of Unbroken.              *)
ReturnPath ==
  Unbroken => \A c \in Live \ {0} :
    /\ WaitsAt(pcb[c].esp)
    /\ kstack[pcb[c].esp.page][pcb[c].esp.depth].slot = c
    /\ pcb[c].parent_proc_num = pcb[c].esp.page

(* The sys_execute that runs works on a slot that no living process has,   *)
(* even when an interrupt came between its test of processes[] and its     *)
(* assignment, or when a call that failed left entries set.                *)
NoOverwrite == Unbroken => \A pc \in ExecPcs : At(pc) => Top.slot \notin Live

(* A slot is released by the halt of the process that runs in it only.     *)
SlotRelease ==
  [][Unbroken => \A s \in Slots : processes[s] /\ ~processes'[s]
                                     => mode = "user" /\ cur = s]_vars

(* A kernel that is neither in user mode nor in a call that waits for a    *)
(* device gets to one of them: sys_execute and sys_halt come to an end,    *)
(* unless a shell is started at the two points of Unbroken.                *)
ExecuteCompletes ==
  (mode = "kernel" /\ ~At("sys")) ~> (mode = "user" \/ At("sys") \/ ~Unbroken)

(* Process control implements the nesting of processes, as long as no      *)
(* shell is started at the two points of Unbroken.                         *)
Nesting == INSTANCE ProcessNesting WITH live <- Live, running <- cur
NestingSpec == Nesting!NInit /\ [][Unbroken => Nesting!NNext]_(Nesting!nvars)

(* sys_halt jumps to the frame of the sys_execute that waits for it.       *)
HaltsToParent == mode # "crashed"

(* So it does wherever Alt+Fn comes, unless a shell was started at the two *)
(* points of Unbroken.                                                     *)
HaltReturns == Unbroken => HaltsToParent

(* Every entry of processes[] that is set belongs to a process or to a     *)
(* sys_execute under way: a call that fails gives its slot back.           *)
SlotsAccounted ==
  \A s \in Slots : processes[s] =>
     \/ s \in Live
     \/ \E p \in Slots : \E i \in 1 .. Len(kstack[p]) :
          kstack[p][i].slot = s /\ kstack[p][i].pc \in ExecPcs

=============================================================================
