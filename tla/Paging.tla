------------------------------- MODULE Paging -------------------------------
(***************************************************************************)
(* The page directory and the translation buffer (TLB) of the CPU.         *)
(*                                                                         *)
(* The CPU caches translations when it likes and drops them when it likes; *)
(* a change of the tables reaches it for certain only by flush_tlb.        *)
(* sys_execute and sys_halt change page_dir[32] and flush.  sys_vidmap     *)
(* points page_dir[32], the page of its caller, to a table with video      *)
(* memory in its first entry only, does not flush, and returns an address  *)
(* that page_dir[33] would have to map.                                    *)
(***************************************************************************)
EXTENDS ProcessNesting

CONSTANT Pointers   \* arguments of sys_vidmap

(* Pages of the address space that matter, with their page_dir entries:    *)
(* page 0, video memory as the kernel sees it, the kernel, the first 4 KB  *)
(* of a program's page, its program and stack, and what lies behind it.    *)
DirIndex == [null |-> 0, video |-> 0, kernel |-> 1, first |-> 32,
             program |-> 32, behind |-> 33]
Pages == DOMAIN DirIndex

ASSUME PagingAssumption ==
  MaxProcs \in Nat \ {0} /\ Pointers \subseteq Pages

VARIABLES
  page_dir,   \* entry -> what it holds
  tlb,        \* cached translations: page -> frame, or Fault for none
  vmem,       \* processes that have an address from sys_vidmap
  called,     \* history: the running process called sys_vidmap since it was
              \* executed or resumed
  pfrozen     \* the page fault handler loops
pvars == <<live, running, page_dir, tlb, vmem, called, pfrozen>>

Video == <<"4KB", 184>>
UserFrame(s) == <<"4MB", 2 + s>>
Fault == <<"none", 0>>

(* An entry of the directory: the frame that the walk through it finds for *)
(* a page, and whether user mode may use it.  A large page, a table in     *)
(* which one page is present, and nothing.                                 *)
Large(f, u) == [walk |-> [p \in Pages |-> f], user |-> u]
Table(q, f, u) == [walk |-> [p \in Pages |-> IF p = q THEN f ELSE Fault], user |-> u]
Absent == [walk |-> [p \in Pages |-> Fault], user |-> FALSE]

page_table == Table("video", Video, FALSE)
video_table == Table("first", Video, TRUE)
EmptyTlb == [p \in Pages |-> Fault]

(* What page_fill sets up, and the first shell.                            *)
PInit ==
  /\ NInit
  /\ page_dir = [i \in {0, 1, 32, 33} |->
       CASE i = 0 -> page_table [] i = 1 -> Large(<<"4MB", 1>>, FALSE)
         [] i = 32 -> Large(UserFrame(0), TRUE) [] i = 33 -> Absent]
  /\ tlb = EmptyTlb
  /\ vmem = {}
  /\ called = FALSE
  /\ pfrozen = FALSE

-----------------------------------------------------------------------------
Walk(p) == page_dir[DirIndex[p]].walk[p]

(* What an access finds: what is cached, or else a walk of the tables.     *)
Reaches(p) == IF tlb[p] # Fault THEN tlb[p] ELSE Walk(p)

Fill(p) ==
  /\ tlb' = [tlb EXCEPT ![p] = Reaches(p)]
  /\ UNCHANGED <<live, running, page_dir, vmem, called, pfrozen>>

Evict(p) ==
  /\ tlb' = [tlb EXCEPT ![p] = Fault]
  /\ UNCHANGED <<live, running, page_dir, vmem, called, pfrozen>>

-----------------------------------------------------------------------------
(* mutant: the TLB is not flushed                   *)
MapProgramNoFlush(s) ==
  /\ page_dir' = [page_dir EXCEPT ![32] = Large(UserFrame(s), TRUE)]
  /\ UNCHANGED tlb

(* mutant: the page of the process that ends stays  *)
MapProgramStays(s) ==
  /\ page_dir' = [page_dir EXCEPT ![32] = Large(UserFrame(running), TRUE)]
  /\ tlb' = EmptyTlb

(* page_dir[32] and flush_tlb.                                             *)
MapProgram(s) ==
  /\ page_dir' = [page_dir EXCEPT ![32] = Large(UserFrame(s), TRUE)]
  /\ tlb' = EmptyTlb

(* Called by the running program or by the keyboard handler.               *)
PExecute(s) ==
  /\ ~pfrozen
  /\ NExecute(s)
  /\ MapProgram(s)
  /\ vmem' = vmem \ {s}
  /\ called' = FALSE
  /\ UNCHANGED pfrozen

(* The parent gets its page back, as it was before it called sys_vidmap.   *)
PHalt ==
  /\ ~pfrozen
  /\ Reaches("program") = UserFrame(running)
  /\ \E p \in live : NHalt(p)
  /\ MapProgram(running')
  /\ vmem' = vmem \ {running}
  /\ called' = FALSE
  /\ UNCHANGED pfrozen

(* sys_halt of the base shell executes it again.                           *)
PHaltBase ==
  /\ ~pfrozen
  /\ Reaches("program") = UserFrame(running)
  /\ running = 0
  /\ MapProgram(0)
  /\ vmem' = {}
  /\ called' = FALSE
  /\ UNCHANGED <<live, running, pfrozen>>

(* The pointer may be the address right behind the program's page.         *)
VidmapResult(p) == IF p \in {"first", "program", "behind"} THEN 0 ELSE -1

(* Fills video_table, points page_dir[32] to it, and stores the address at *)
(* the pointer, through what the TLB or the new tables say.  Where that    *)
(* store faults, the call does not return: the caller gets no address.     *)
SysVidmap(p) ==
  /\ ~pfrozen
  /\ Reaches("program") = UserFrame(running)
  /\ VidmapResult(p) = 0
  /\ page_dir' = [page_dir EXCEPT ![32] = video_table]
  /\ UNCHANGED <<live, running, tlb>>
  /\ pfrozen' = (Reaches(p)' = Fault)
  /\ vmem' = IF pfrozen' THEN vmem ELSE vmem \cup {running}
  /\ called' = TRUE

(* The program goes on: its next instruction is fetched.                   *)
Fetch ==
  /\ ~pfrozen
  /\ pfrozen' = (Reaches("program") = Fault)
  /\ UNCHANGED <<live, running, page_dir, tlb, vmem, called>>

(* mp1_poke of fish: a write to the address that sys_vidmap returned.      *)
PokeScreen ==
  /\ ~pfrozen
  /\ running \in vmem
  /\ pfrozen' = (Reaches("behind") = Fault)
  /\ UNCHANGED <<live, running, page_dir, tlb, vmem, called>>

PNext == \/ \E s \in NSlots : PExecute(s)
         \/ PHalt \/ PHaltBase
         \/ \E p \in Pointers : SysVidmap(p)
         \/ Fetch \/ PokeScreen
         \/ \E p \in Pages : Fill(p) \/ Evict(p)

PSpec == PInit /\ [][PNext]_pvars

-----------------------------------------------------------------------------
(* What the running program can reach, cached or through the tables, is    *)
(* its own page and video memory: no page of another process, whichever    *)
(* were executed, halted or used sys_vidmap before.                        *)
UserConfined ==
  \A p \in Pages : page_dir[DirIndex[p]].user =>
    Reaches(p) \in {UserFrame(running), Video, Fault}

(* A program reaches its own code as long as it has not called sys_vidmap  *)
(* since it was executed or resumed: what a child or another terminal's    *)
(* shell did with the shared entry is undone.  The call itself takes the   *)
(* program away as soon as the TLB drops it; the kernel freezes only after *)
(* that call, in its own store to the pointer or with the next instruction *)
(* of the program, or where a program writes to the address it got.        *)
ProgramMapped ==
  /\ ~called => Reaches("program") = UserFrame(running)
  /\ pfrozen => called \/ running \in vmem

(* The address that sys_vidmap returned leads to video memory.             *)
VideoReachable == running \in vmem /\ ~pfrozen => Reaches("behind") = Video

=============================================================================
