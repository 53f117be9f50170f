-------------------------- MODULE FileDescriptors --------------------------
(***************************************************************************)
(* The part of a PCB that system calls use: the file descriptor array and  *)
(* the argument string, for processes that nest as in ProcessNesting.      *)
(*                                                                         *)
(* A PCB is memory of a slot, not of a process: it is not cleared when a   *)
(* process starts, only when one halts, and not all of it.  A call through *)
(* a NULL operations table reads address 0, which is not mapped; the page  *)
(* fault handler prints a message and loops for ever.                      *)
(***************************************************************************)
EXTENDS FileSystem, ProcessNesting

CONSTANTS
  PcbLength,   \* PCB_LENGTH, entries of fd_arr (8 in the code)
  Disk,        \* the image of the file system
  Args,        \* argument strings on a command line
  MaxDirPos    \* bound on the position of an open directory

NoArg == "none"   \* argument[0] is NULL: no argument string

ASSUME DescriptorAssumption ==
  /\ MaxProcs \in Nat \ {0}
  /\ PcbLength \in Nat /\ PcbLength > 2
  /\ Wellformed(Disk)
  /\ NoArg \notin Args
  /\ MaxDirPos \in Nat

VARIABLES
  failed,    \* slots that a failed sys_execute left marked
  fd_arr,    \* slot -> descriptor -> entry
  argument,  \* slot -> argument string in the PCB
  given,     \* history: slot -> argument the process there was started with
  frozen     \* the page fault handler loops

fvars == <<live, running, failed, fd_arr, argument, given, frozen>>

Fds == 0 .. PcbLength - 1
Ops == {"NULL", "std", "dir", "file", "rtc"}
Names == {Disk.direntries[i].filename : i \in 1 .. Len(Disk.direntries)}
             \cup {"missing"}

ZeroEntry == [flags |-> 0, inode |-> 0, file_position |-> 0,
              file_operations |-> "NULL"]

(* Opened by sys_execute: standard input and output.                       *)
StdStreams(table) ==
  [fd \in Fds |->
     IF fd < 2 THEN [table[fd] EXCEPT !.file_operations = "std"]
               ELSE table[fd]]

Init ==
  /\ NInit
  /\ failed = {}
  /\ fd_arr = [s \in NSlots |->
       IF s = 0 THEN StdStreams([fd \in Fds |-> ZeroEntry])
                ELSE [fd \in Fds |-> ZeroEntry]]
  /\ argument = [s \in NSlots |-> NoArg]
  /\ given = [s \in NSlots |-> NoArg]
  /\ frozen = FALSE

(* get_pcb()->fd_arr *)
Table == fd_arr[running]

-----------------------------------------------------------------------------
FreeSlot(s) == /\ s \notin live \cup failed
               /\ \A t \in NSlots : t < s => t \in live \cup failed

(* The command line of a program without a space leaves the argument that  *)
(* the slot had.  "cmd " has a space and an empty argument string.         *)
CommandLines == {"no space"} \cup {NoArg} \cup Args

(* mutant: stored in the PCB of the caller           *)
WriteArgumentCaller(s, line) ==
  argument' = IF line = "no space" THEN argument
                                   ELSE [argument EXCEPT ![running] = line]

WriteArgument(s, line) ==
  argument' = IF line = "no space" THEN argument
                                   ELSE [argument EXCEPT ![s] = line]

SysExecute(line) ==
  \E s \in NSlots :
    /\ ~frozen
    /\ FreeSlot(s)
    /\ WriteArgument(s, line)
    /\ NExecute(s)
    /\ fd_arr' = [fd_arr EXCEPT ![s] = StdStreams(@)]
    /\ given' = [given EXCEPT ![s] = IF line = "no space" THEN NoArg ELSE line]
    /\ UNCHANGED <<failed, frozen>>

(* No such program: the slot stays marked, with the argument in its PCB.   *)
SysExecuteFails(line) ==
  \E s \in NSlots :
    /\ ~frozen
    /\ FreeSlot(s)
    /\ WriteArgument(s, line)
    /\ failed' = failed \cup {s}
    /\ UNCHANGED <<live, running, fd_arr, given, frozen>>

(* mutant: the first entries are not cleared         *)
ClearedFromTwo(table) ==
  [fd \in Fds |-> IF fd < 2 THEN table[fd] ELSE
     [flags |-> 0, inode |-> -1, file_position |-> 0,
      file_operations |-> "NULL"]]

Cleared(table) ==
  [fd \in Fds |-> [flags |-> 0, inode |-> -1, file_position |-> 0,
                   file_operations |-> "NULL"]]

(* mutant: the parent's PCB is cleared               *)
SysHaltClearsParent ==
  /\ ~frozen
  /\ \E p \in live : NHalt(p)
  /\ fd_arr' = [fd_arr EXCEPT ![running'] = Cleared(@)]
  /\ UNCHANGED <<failed, argument, given, frozen>>

SysHalt ==
  /\ ~frozen
  /\ \E p \in live : NHalt(p)
  /\ fd_arr' = [fd_arr EXCEPT ![running] = Cleared(@)]
  /\ UNCHANGED <<failed, argument, given, frozen>>

(* The base shell starts again in its slot.                                *)
SysHaltBase ==
  /\ ~frozen
  /\ running = 0
  /\ fd_arr' = [fd_arr EXCEPT ![0] = StdStreams(Cleared(@))]
  /\ given' = [given EXCEPT ![0] = NoArg]
  /\ UNCHANGED <<live, running, failed, argument, frozen>>

-----------------------------------------------------------------------------
OpsOf(filetype) == CASE filetype = RtcType -> "rtc"
                     [] filetype = DirType -> "dir"
                     [] filetype = RegularType -> "file"

(* The first descriptor of a table that is not in use.                     *)
FreeFd(table, fd) == /\ fd \in 2 .. PcbLength - 1
                     /\ table[fd].flags = 0
                     /\ \A e \in 2 .. fd - 1 : table[e].flags = 1

(* mutant: the inode is not stored                   *)
OpenEntryNoInode(e, d) ==
  [flags |-> 1, inode |-> e.inode, file_position |-> 0,
   file_operations |-> OpsOf(d.filetype)]

(* Entry e of the table, opened on the file of the directory entry d.      *)
OpenEntry(e, d) ==
  [flags |-> 1, inode |-> d.inode_num, file_position |-> 0,
   file_operations |-> OpsOf(d.filetype)]

(* Otherwise the call returns -1.                                          *)
SysOpen(fname) ==
  \E fd \in Fds :
    /\ ~frozen
    /\ FreeFd(Table, fd)
    /\ DentryByName(Disk, fname) # 0
    /\ fd_arr' = [fd_arr EXCEPT ![running][fd] =
         OpenEntry(@, Disk.direntries[DentryByName(Disk, fname)])]
    /\ UNCHANGED <<live, running, failed, argument, given, frozen>>

(* mutant: the operations stay those of the file     *)
ClosedEntryKeepsOps(e) == [e EXCEPT !.flags = 0]

(* The operations become those of a directory before the test of flags,    *)
(* so also for a descriptor that is not open, where the call returns -1.   *)
ClosedEntry(e) == [e EXCEPT !.file_operations = "dir", !.flags = 0]

SysClose(fd) ==
  /\ ~frozen
  /\ fd \in 2 .. PcbLength - 1
  /\ fd_arr' = [fd_arr EXCEPT ![running][fd] = ClosedEntry(@)]
  /\ UNCHANGED <<live, running, failed, argument, given, frozen>>

ReadFds == Fds \ {1}
WriteFds == Fds \ {0}
Refused(e) == e.file_operations \in {"file", "dir"} /\ e.flags = 0

(* file_read and dir_read move the position; a terminal or the rtc has     *)
(* none.  dir_read does so at the end of the directory, too.               *)
Advance(fd, nbytes) ==
  CASE Table[fd].file_operations = "file" ->
         ReadData(Disk, Table[fd].inode, Table[fd].file_position, nbytes)
    [] Table[fd].file_operations = "dir" -> 1
    [] OTHER -> 0

SysRead(fd, nbytes) ==
  /\ ~frozen
  /\ fd \in ReadFds
  /\ Table[fd].file_operations = "dir" => Table[fd].file_position < MaxDirPos
  /\ ~Refused(Table[fd])
  /\ frozen' = (Table[fd].file_operations = "NULL")
  /\ fd_arr' = [fd_arr EXCEPT ![running][fd].file_position =
                                  @ + Advance(fd, nbytes)]
  /\ UNCHANGED <<live, running, failed, argument, given>>

(* No write function changes a PCB.                                        *)
SysWrite(fd) ==
  /\ ~frozen
  /\ fd \in WriteFds
  /\ frozen' = (Table[fd].file_operations = "NULL")
  /\ UNCHANGED <<live, running, failed, fd_arr, argument, given>>

GetArgsResult == IF argument[running] = NoArg THEN -1 ELSE 0

Next == \/ \E line \in CommandLines : SysExecute(line) \/ SysExecuteFails(line)
        \/ SysHalt \/ SysHaltBase
        \/ \E fname \in Names : SysOpen(fname)
        \/ \E fd \in Fds : SysClose(fd) \/ SysWrite(fd)
        \/ \E fd \in Fds, nbytes \in 1 .. BlockSize : SysRead(fd, nbytes)

FdSpec == Init /\ [][Next]_fvars

-----------------------------------------------------------------------------
(* Every variable keeps its type.                                          *)
TypeOK ==
  /\ live \subseteq NSlots
  /\ running \in live
  /\ failed \subseteq NSlots \ live
  /\ fd_arr \in [NSlots -> [Fds -> [flags : 0 .. 1, inode : Int,
                                    file_position : Nat,
                                    file_operations : Ops]]]
  /\ argument \in [NSlots -> Args \cup {NoArg}]
  /\ given \in [NSlots -> Args \cup {NoArg}]
  /\ frozen \in BOOLEAN

(* A slot without a process has no open file and no operations: sys_halt   *)
(* cleans up for the next process, since sys_execute does not.  One with a *)
(* process, running or suspended, has standard input and output, whatever  *)
(* was closed, and never another file in their place.                      *)
TableFresh ==
  /\ \A s \in NSlots \ live : \A fd \in Fds :
       fd_arr[s][fd].flags = 0 /\ fd_arr[s][fd].file_operations = "NULL"
  /\ \A p \in live : \A fd \in 0 .. 1 :
       fd_arr[p][fd].flags = 0 /\ fd_arr[p][fd].file_operations = "std"

(* An open descriptor goes to the operations of the file it was opened on, *)
(* at a position inside that file.                                         *)
OpenMatches ==
  \A p \in live : \A fd \in Fds :
    LET e == fd_arr[p][fd] IN
    e.flags = 1 =>
      \E i \in 1 .. Len(Disk.direntries) :
         /\ Disk.direntries[i].inode_num = e.inode
         /\ OpsOf(Disk.direntries[i].filetype) = e.file_operations
         /\ e.file_operations = "file" =>
              e.file_position <= Disk.inode[e.inode].length

(* A process changes neither the descriptors nor the arguments of those    *)
(* suspended below it.                                                     *)
SuspendedKept ==
  [][\A p \in live \ {running} : fd_arr'[p] = fd_arr[p]
                                  /\ argument'[p] = argument[p]]_fvars

(* A process that was started with an argument has it as long as it lives, *)
(* whatever processes it starts and whatever calls fail, and sys_getargs   *)
(* gives it to the one that runs.                                          *)
ArgumentsKept ==
  /\ \A p \in live : given[p] # NoArg => argument[p] = given[p]
  /\ given[running] # NoArg => GetArgsResult = 0

(* A descriptor that is not open makes a call fail, not the kernel.        *)
NeverFrozen == ~frozen

=============================================================================
