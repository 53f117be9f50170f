----------------------- MODULE FileDescriptorsProofs -----------------------
(***************************************************************************)
(* Proofs about the file descriptors and arguments of nested processes,    *)
(* for any number of slots, descriptors and arguments and any well-formed  *)
(* disk, and about what the tests of syserr find there.                    *)
(***************************************************************************)
EXTENDS Syserr, FileSystemProofs, SequenceTheorems

FdEntry == [flags : 0 .. 1, inode : Int, file_position : Nat, file_operations : Ops]

(* An entry of the table of a living process: it has the operations of a   *)
(* regular file only while it is open, and an open one matches its file.   *)
EntryOK(e) ==
  /\ e.file_operations = "file" => e.flags = 1
  /\ e.flags = 1 =>
       \E i \in 1 .. Len(Disk.direntries) :
         /\ Disk.direntries[i].inode_num = e.inode
         /\ OpsOf(Disk.direntries[i].filetype) = e.file_operations
         /\ e.file_operations = "file" =>
              e.file_position <= Disk.inode[e.inode].length

ArgsKept == \A p \in live : given[p] # NoArg => argument[p] = given[p]

FdInv == /\ TypeOK /\ TableFresh /\ ArgsKept
         /\ \A p \in live : \A fd \in Fds : EntryOK(fd_arr[p][fd])

LEMMA DiskFacts ==
  /\ Wellformed(Disk) /\ Len(Disk.direntries) \in Nat
  /\ \A i \in 1 .. Len(Disk.direntries) :
       /\ Disk.direntries[i].inode_num \in 0 .. Disk.inode_count - 1
       /\ Disk.direntries[i].inode_num \in Int
       /\ OpsOf(Disk.direntries[i].filetype) \in {"rtc", "dir", "file"}
<1>1. Wellformed(Disk)
  BY DescriptorAssumption
<1>2. \A i \in 1 .. Len(Disk.direntries) :
        /\ Disk.direntries[i].inode_num \in 0 .. Disk.inode_count - 1
        /\ Disk.direntries[i].filetype \in {RtcType, DirType, RegularType}
  BY <1>1 DEF Wellformed
<1> QED BY <1>1, <1>2 DEF Wellformed, OpsOf, RtcType, DirType, RegularType

LEMMA FdFacts == 0 \in Fds /\ 1 \in Fds /\ 0 .. 1 \subseteq Fds /\ 0 \in NSlots
  BY DescriptorAssumption DEF Fds, NSlots

LEMMA FdInitInv == Init => FdInv
<1> SUFFICES ASSUME Init PROVE FdInv
  OBVIOUS
<1> DEFINE Zero == [fd \in Fds |-> ZeroEntry]
<1>1. live = {0} /\ running = 0 /\ failed = {} /\ ~frozen /\ frozen \in BOOLEAN
  BY DEF Init, NInit
<1>2. ZeroEntry \in FdEntry /\ ZeroEntry.flags = 0 /\ ZeroEntry.file_operations = "NULL"
  BY DEF ZeroEntry, FdEntry, Ops
<1>3. Zero \in [Fds -> FdEntry]
  BY <1>2
<1>4. /\ StdStreams(Zero) \in [Fds -> FdEntry]
      /\ \A fd \in Fds : /\ StdStreams(Zero)[fd].flags = 0
                         /\ StdStreams(Zero)[fd].file_operations \in {"NULL", "std"}
                         /\ fd < 2 => StdStreams(Zero)[fd].file_operations = "std"
  BY <1>2 DEF StdStreams, FdEntry, Ops
<1>5. fd_arr = [s \in NSlots |-> IF s = 0 THEN StdStreams(Zero) ELSE Zero]
  BY DEF Init
<1> HIDE DEF Zero
<1>6. fd_arr[0] = StdStreams(Zero) /\ \A s \in NSlots \ {0} : fd_arr[s] = Zero
  BY <1>5, FdFacts
<1>7. fd_arr \in [NSlots -> [Fds -> FdEntry]]
  BY <1>3, <1>4, <1>5
<1>8. TypeOK
  BY <1>1, <1>7, FdFacts DEF Init, TypeOK, FdEntry
<1>9. TableFresh
  BY <1>1, <1>2, <1>4, <1>6, FdFacts DEF TableFresh, Zero
<1>10. \A p \in live : \A fd \in Fds : EntryOK(fd_arr[p][fd])
  BY <1>1, <1>4, <1>6 DEF EntryOK
<1>11. ArgsKept
  BY <1>1, FdFacts DEF ArgsKept, Init
<1> QED BY <1>8, <1>9, <1>10, <1>11 DEF FdInv

(* One entry of the running process changes.                               *)
LEMMA SetEntry ==
  ASSUME FdInv, NEW fd \in Fds, NEW e \in FdEntry, EntryOK(e),
         fd < 2 => e.flags = 0 /\ e.file_operations = "std",
         fd_arr' = [fd_arr EXCEPT ![running] = [fd_arr[running] EXCEPT ![fd] = e]],
         UNCHANGED <<live, running, failed, argument, given>>, frozen' \in BOOLEAN
  PROVE  FdInv'
<1>1. running \in live /\ live \subseteq NSlots /\ fd_arr \in [NSlots -> [Fds -> FdEntry]]
  BY DEF FdInv, TypeOK, FdEntry
<1>2. fd_arr' \in [NSlots -> [Fds -> FdEntry]]
  BY <1>1
<1>3. \A s \in NSlots, f \in Fds :
        fd_arr'[s][f] = IF s = running /\ f = fd THEN e ELSE fd_arr[s][f]
  BY <1>1
<1>4. TypeOK'
  BY <1>2 DEF FdInv, TypeOK, FdEntry
<1>5. TableFresh'
  BY <1>1, <1>3, FdFacts DEF FdInv, TableFresh
<1>6. \A p \in live' : \A f \in Fds : EntryOK(fd_arr'[p][f])
  BY <1>1, <1>3 DEF FdInv
<1>7. \A p \in live' : \A f \in Fds : EntryOK(fd_arr[p][f])'
  BY <1>6 DEF EntryOK
<1> QED BY <1>4, <1>5, <1>7 DEF FdInv, ArgsKept

(* The table of a slot whose process has just been started, or none.       *)
FreshTable(table, alive) ==
  /\ table \in [Fds -> FdEntry]
  /\ \A fd \in Fds :
       /\ table[fd].flags = 0
       /\ table[fd].file_operations = IF alive /\ fd < 2 THEN "std" ELSE "NULL"

(* The table of one slot is replaced.                                      *)
LEMMA SetTable ==
  ASSUME FdInv, NEW s \in NSlots, NEW table, FreshTable(table, s \in live'),
         fd_arr' = [fd_arr EXCEPT ![s] = table],
         live' \subseteq NSlots, running' \in live', failed' \subseteq NSlots \ live',
         live \ {s} = live' \ {s},
         argument' \in [NSlots -> Args \cup {NoArg}],
         given' \in [NSlots -> Args \cup {NoArg}], ArgsKept', frozen' \in BOOLEAN
  PROVE  FdInv'
<1>1. fd_arr \in [NSlots -> [Fds -> FdEntry]]
  BY DEF FdInv, TypeOK, FdEntry
<1>2. /\ fd_arr' \in [NSlots -> [Fds -> FdEntry]]
      /\ FreshTable(fd_arr'[s], s \in live')
      /\ \A t \in NSlots \ {s} : fd_arr'[t] = fd_arr[t]
  BY <1>1 DEF FreshTable
<1>3. TypeOK'
  BY <1>2 DEF TypeOK, FdEntry
<1>4. TableFresh'
  BY <1>2, FdFacts DEF FdInv, TableFresh, FreshTable
<1>5. \A p \in live' : \A f \in Fds : EntryOK(fd_arr'[p][f])
  <2> SUFFICES ASSUME NEW p \in live', NEW f \in Fds PROVE EntryOK(fd_arr'[p][f])
    OBVIOUS
  <2>1. CASE p = s
    BY <1>2, <2>1 DEF EntryOK, FreshTable
  <2>2. CASE p # s
    BY <1>2, <2>2 DEF FdInv
  <2> QED BY <2>1, <2>2
<1>6. \A p \in live' : \A f \in Fds : EntryOK(fd_arr[p][f])'
  BY <1>5 DEF EntryOK
<1> QED BY <1>3, <1>4, <1>6 DEF FdInv

LEMMA WriteArgumentType ==
  ASSUME FdInv, NEW s \in NSlots, NEW line \in CommandLines, WriteArgument(s, line)
  PROVE  /\ argument' \in [NSlots -> Args \cup {NoArg}]
         /\ \A t \in NSlots \ {s} : argument'[t] = argument[t]
         /\ line # "no space" => argument'[s] = line
  BY DEF FdInv, TypeOK, WriteArgument, CommandLines

LEMMA SysExecuteInv ==
  ASSUME FdInv, NEW line \in CommandLines, SysExecute(line)
  PROVE  FdInv'
<1>1. PICK s \in NSlots :
        /\ FreeSlot(s) /\ WriteArgument(s, line) /\ NExecute(s)
        /\ fd_arr' = [fd_arr EXCEPT ![s] = StdStreams(fd_arr[s])]
        /\ given' = [given EXCEPT ![s] = IF line = "no space" THEN NoArg ELSE line]
        /\ UNCHANGED <<failed, frozen>>
  BY DEF SysExecute
<1>2. s \notin live /\ s \notin failed /\ live' = live \cup {s} /\ running' = s
  BY <1>1 DEF FreeSlot, NExecute
<1>3. fd_arr[s] \in [Fds -> FdEntry]
  BY DEF FdInv, TypeOK, FdEntry
<1>4. \A fd \in Fds : fd_arr[s][fd].flags = 0 /\ fd_arr[s][fd].file_operations = "NULL"
  BY <1>2 DEF FdInv, TableFresh
<1>5. FreshTable(StdStreams(fd_arr[s]), TRUE)
  BY <1>3, <1>4 DEF FreshTable, StdStreams, FdEntry, Ops
<1>6. given' \in [NSlots -> Args \cup {NoArg}]
  BY <1>1 DEF FdInv, TypeOK, CommandLines
<1>7. ArgsKept'
  <2>1. /\ ArgsKept /\ live \subseteq NSlots
        /\ given \in [NSlots -> Args \cup {NoArg}]
    BY DEF FdInv, TypeOK
  <2>2. /\ \A t \in NSlots \ {s} : argument'[t] = argument[t]
        /\ line # "no space" => argument'[s] = line
    BY <1>1, WriteArgumentType
  <2>3. /\ \A t \in NSlots \ {s} : given'[t] = given[t]
        /\ given'[s] = IF line = "no space" THEN NoArg ELSE line
    BY <1>1, <2>1
  <2> QED BY <1>2, <2>1, <2>2, <2>3 DEF ArgsKept
<1>8. /\ live' \subseteq NSlots /\ running' \in live' /\ failed' \subseteq NSlots \ live'
      /\ live \ {s} = live' \ {s} /\ frozen' \in BOOLEAN
  BY <1>1, <1>2 DEF FdInv, TypeOK
<1>9. (s \in live') = TRUE
  BY <1>2
<1> QED BY <1>1, <1>5, <1>6, <1>7, <1>8, <1>9, WriteArgumentType, SetTable

LEMMA SysExecuteFailsInv ==
  ASSUME FdInv, NEW line \in CommandLines, SysExecuteFails(line)
  PROVE  FdInv'
<1>1. PICK s \in NSlots :
        /\ FreeSlot(s) /\ WriteArgument(s, line) /\ failed' = failed \cup {s}
        /\ UNCHANGED <<live, running, fd_arr, given, frozen>>
  BY DEF SysExecuteFails
<1>2. s \notin live
  BY <1>1 DEF FreeSlot
<1>3. TypeOK' /\ TableFresh'
  <2>1. TypeOK /\ TableFresh
    BY DEF FdInv
  <2>2. argument' \in [NSlots -> Args \cup {NoArg}]
    BY <1>1, WriteArgumentType
  <2>3. TypeOK'
    BY <1>1, <1>2, <2>1, <2>2 DEF TypeOK
  <2>4. TableFresh'
    BY <1>1, <2>1 DEF TableFresh
  <2> QED BY <2>3, <2>4
<1>4. ArgsKept'
  BY <1>1, <1>2, WriteArgumentType DEF FdInv, TypeOK, ArgsKept
<1>5. \A p \in live' : \A fd \in Fds : EntryOK(fd_arr[p][fd])'
  BY <1>1 DEF FdInv, EntryOK
<1> QED BY <1>3, <1>4, <1>5 DEF FdInv

LEMMA ClearedTable ==
  ASSUME NEW table
  PROVE  /\ FreshTable(Cleared(table), FALSE)
         /\ FreshTable(StdStreams(Cleared(table)), TRUE)
<1>1. /\ Cleared(table) \in [Fds -> FdEntry]
      /\ \A fd \in Fds : /\ Cleared(table)[fd].flags = 0
                         /\ Cleared(table)[fd].file_operations = "NULL"
  BY DEF Cleared, FdEntry, Ops
<1> QED BY <1>1 DEF StdStreams, FreshTable, FdEntry, Ops

LEMMA SysHaltInv ==
  ASSUME FdInv, SysHalt
  PROVE  FdInv'
<1>1. PICK p \in live : NHalt(p)
  BY DEF SysHalt
<1>2. /\ running \in NSlots /\ running' \in live' /\ live' = live \ {running}
      /\ live' \subseteq NSlots /\ failed' \subseteq NSlots \ live'
  BY <1>1 DEF SysHalt, NHalt, FdInv, TypeOK
<1>3. fd_arr' = [fd_arr EXCEPT ![running] = Cleared(fd_arr[running])]
  BY DEF SysHalt
<1>4. /\ argument' \in [NSlots -> Args \cup {NoArg}]
      /\ given' \in [NSlots -> Args \cup {NoArg}] /\ ArgsKept' /\ frozen' \in BOOLEAN
  BY <1>2 DEF SysHalt, FdInv, TypeOK, ArgsKept
<1>5. FreshTable(Cleared(fd_arr[running]), running \in live')
  <2>1. (running \in live') = FALSE
    BY <1>2
  <2> QED BY <2>1, ClearedTable
<1>6. live \ {running} = live' \ {running}
  BY <1>2
<1> QED BY <1>2, <1>3, <1>4, <1>5, <1>6, SetTable

LEMMA SysHaltBaseInv ==
  ASSUME FdInv, SysHaltBase
  PROVE  FdInv'
<1>1. /\ running = 0 /\ UNCHANGED <<live, running, failed, argument, frozen>>
      /\ fd_arr' = [fd_arr EXCEPT ![0] = StdStreams(Cleared(fd_arr[0]))]
  BY DEF SysHaltBase
<1>2. /\ running \in live /\ live' \subseteq NSlots /\ failed' \subseteq NSlots \ live'
      /\ frozen' \in BOOLEAN /\ 0 \in NSlots
  BY <1>1 DEF FdInv, TypeOK
<1>3. /\ argument' \in [NSlots -> Args \cup {NoArg}]
      /\ given' \in [NSlots -> Args \cup {NoArg}] /\ ArgsKept'
  BY <1>1 DEF SysHaltBase, FdInv, TypeOK, ArgsKept
<1>4. FreshTable(StdStreams(Cleared(fd_arr[0])), 0 \in live')
  <2>1. (0 \in live') = TRUE
    BY <1>1, <1>2
  <2> QED BY <2>1, ClearedTable
<1> QED BY <1>1, <1>2, <1>3, <1>4, SetTable

LEMMA SysOpenInv ==
  ASSUME FdInv, NEW fname \in Names, SysOpen(fname)
  PROVE  FdInv'
<1> DEFINE d == Disk.direntries[DentryByName(Disk, fname)]
<1>1. PICK fd \in Fds :
        /\ FreeFd(Table, fd) /\ DentryByName(Disk, fname) # 0
        /\ fd_arr' = [fd_arr EXCEPT ![running][fd] = OpenEntry(@, d)]
        /\ UNCHANGED <<live, running, failed, argument, given, frozen>>
  BY DEF SysOpen
<1>2. DentryByName(Disk, fname) \in 1 .. Len(Disk.direntries)
  BY <1>1, DiskFacts, DentryFound
<1> DEFINE e == OpenEntry(fd_arr[running][fd], d)
<1>3. fd_arr' = [fd_arr EXCEPT ![running] = [fd_arr[running] EXCEPT ![fd] = e]]
  BY <1>1 DEF OpenEntry, FdInv, TypeOK
<1>4. /\ d.inode_num \in 0 .. Disk.inode_count - 1 /\ d.inode_num \in Int
      /\ OpsOf(d.filetype) \in {"rtc", "dir", "file"}
  BY <1>2, DiskFacts
<1>5. Disk.inode[d.inode_num].length \in Nat
  <2>1. d.inode_num \in 0 .. Disk.inode_count - 1 /\ Wellformed(Disk)
    BY <1>4, DiskFacts
  <2> HIDE DEF d
  <2>2. Disk.inode[d.inode_num].length \in 0 .. MaxBlocks * BlockSize - 1
    BY <2>1, Zenon DEF Wellformed
  <2> QED BY <2>2
<1>6. e \in FdEntry /\ e.flags = 1 /\ e.inode = d.inode_num /\ e.file_position = 0
      /\ e.file_operations = OpsOf(d.filetype)
  BY <1>4 DEF OpenEntry, FdEntry, Ops
<1>7. fd \in 2 .. PcbLength - 1
  BY <1>1 DEF FreeFd
<1> HIDE DEF e
<1>8. EntryOK(e)
  BY <1>2, <1>5, <1>6 DEF EntryOK
<1>9. ~(fd < 2) /\ frozen' \in BOOLEAN
  BY <1>1, <1>7, DescriptorAssumption DEF FdInv, TypeOK
<1> QED BY <1>1, <1>3, <1>6, <1>8, <1>9, SetEntry

LEMMA ClosedEntryIs ==
  ASSUME NEW e \in FdEntry
  PROVE  /\ ClosedEntry(e) \in FdEntry /\ ClosedEntry(e).flags = 0
         /\ ClosedEntry(e).file_operations = "dir"
<1> DEFINE e1 == [e EXCEPT !.file_operations = "dir"]
<1>1. e1 \in FdEntry /\ e1.file_operations = "dir"
  BY DEF FdEntry, Ops
<1>2. ClosedEntry(e) = [e1 EXCEPT !.flags = 0]
  BY DEF ClosedEntry
<1> HIDE DEF e1
<1>3. 0 \in 0 .. 1
  OBVIOUS
<1> QED BY <1>1, <1>2, <1>3 DEF FdEntry

LEMMA SysCloseInv ==
  ASSUME FdInv, NEW fd \in Fds, SysClose(fd)
  PROVE  FdInv'
<1> DEFINE e == ClosedEntry(fd_arr[running][fd])
<1>1. fd_arr[running][fd] \in FdEntry
  BY DEF FdInv, TypeOK, FdEntry
<1>2. e \in FdEntry /\ e.flags = 0 /\ e.file_operations = "dir"
  BY <1>1, ClosedEntryIs
<1>3. fd_arr' = [fd_arr EXCEPT ![running] = [fd_arr[running] EXCEPT ![fd] = e]]
  BY DEF SysClose, ClosedEntry, FdInv, TypeOK
<1> HIDE DEF e
<1>4. EntryOK(e)
  BY <1>2 DEF EntryOK
<1>5. ~(fd < 2) /\ frozen' \in BOOLEAN
      /\ UNCHANGED <<live, running, failed, argument, given>>
  BY DescriptorAssumption DEF SysClose, FdInv, TypeOK
<1> QED BY <1>2, <1>3, <1>4, <1>5, SetEntry

(* A read moves the position of an open file at most to its end.           *)
LEMMA AdvanceOK ==
  ASSUME FdInv, NEW fd \in Fds, NEW nbytes \in Nat
  PROVE  /\ Advance(fd, nbytes) \in Nat
         /\ Table[fd].file_operations = "file" =>
              Table[fd].file_position + Advance(fd, nbytes)
                <= Disk.inode[Table[fd].inode].length
<1> DEFINE e == Table[fd]
<1>1. e \in FdEntry /\ EntryOK(e)
  BY DEF FdInv, TypeOK, FdEntry, Table
<1>2. CASE e.file_operations = "file"
  <2>1. /\ e.inode \in 0 .. Disk.inode_count - 1
        /\ e.file_position <= Disk.inode[e.inode].length
    BY <1>1, <1>2, DiskFacts DEF EntryOK
  <2>2. Disk.inode[e.inode].length \in Nat /\ e.file_position \in Nat
    BY <1>1, <2>1, DiskFacts, BlockAssumption DEF Wellformed, FdEntry
  <2>3. e.file_position \in 0 .. Disk.inode[e.inode].length
    BY <2>1, <2>2
  <2>4. ReadData(Disk, e.inode, e.file_position, nbytes)
          = Readable(Disk.inode[e.inode].length, e.file_position, nbytes)
    BY <2>1, <2>3, DiskFacts, ReadDataExact
  <2>5. Advance(fd, nbytes) = Readable(Disk.inode[e.inode].length, e.file_position, nbytes)
    BY <1>2, <2>4 DEF Advance
  <2> QED BY <2>1, <2>2, <2>5 DEF Readable
<1>3. CASE e.file_operations # "file"
  BY <1>3 DEF Advance
<1> QED BY <1>2, <1>3

LEMMA SysReadInv ==
  ASSUME FdInv, NEW fd \in Fds, NEW nbytes \in 1 .. BlockSize, SysRead(fd, nbytes)
  PROVE  FdInv'
<1> DEFINE e0 == fd_arr[running][fd]
           adv == Advance(fd, nbytes)
           e == [e0 EXCEPT !.file_position = @ + adv]
<1>1. e0 \in FdEntry /\ EntryOK(e0) /\ e0 = Table[fd]
  BY DEF FdInv, TypeOK, FdEntry, Table
<1>2. fd_arr' = [fd_arr EXCEPT ![running] = [fd_arr[running] EXCEPT ![fd] = e]]
  BY DEF SysRead, FdInv, TypeOK
<1>3. nbytes \in Nat
  BY BlockAssumption
<1>4. adv \in Nat /\ (e0.file_operations = "file" =>
                        e0.file_position + adv <= Disk.inode[e0.inode].length)
  BY <1>1, <1>3, AdvanceOK
<1> HIDE DEF adv
<1>5. /\ e \in FdEntry /\ e.flags = e0.flags /\ e.inode = e0.inode
      /\ e.file_operations = e0.file_operations
      /\ e.file_position = e0.file_position + adv
  BY <1>1, <1>4 DEF FdEntry
<1>6. fd < 2 => e.flags = 0 /\ e.file_operations = "std"
  <2>1. running \in live /\ (fd < 2 => fd \in 0 .. 1)
    BY DescriptorAssumption DEF FdInv, TypeOK, Fds
  <2> QED BY <1>5, <2>1 DEF FdInv, TableFresh
<1> HIDE DEF e
<1>7. EntryOK(e)
  BY <1>1, <1>4, <1>5 DEF EntryOK
<1>8. frozen' \in BOOLEAN /\ UNCHANGED <<live, running, failed, argument, given>>
  BY DEF SysRead
<1> QED BY <1>2, <1>5, <1>6, <1>7, <1>8, SetEntry

LEMMA QuietInv ==
  ASSUME FdInv, UNCHANGED <<live, running, failed, fd_arr, argument, given>>,
         frozen' \in BOOLEAN
  PROVE  FdInv'
<1>1. TypeOK' /\ TableFresh' /\ ArgsKept'
  BY DEF FdInv, TypeOK, TableFresh, ArgsKept
<1>2. \A p \in live' : \A fd \in Fds : EntryOK(fd_arr[p][fd])'
  BY DEF FdInv, EntryOK
<1> QED BY <1>1, <1>2 DEF FdInv

LEMMA FdInvStep ==
  ASSUME FdInv, [Next]_fvars
  PROVE  FdInv'
<1>1. ASSUME NEW fd \in Fds, SysWrite(fd) PROVE FdInv'
  BY <1>1, QuietInv DEF SysWrite
<1>2. CASE UNCHANGED fvars
  BY <1>2, QuietInv DEF fvars, FdInv, TypeOK
<1> QED BY <1>1, <1>2, SysExecuteInv, SysExecuteFailsInv, SysHaltInv, SysHaltBaseInv,
           SysOpenInv, SysCloseInv, SysReadInv DEF Next

LEMMA FdInvAlways == FdSpec => []FdInv
<1>1. FdInv /\ [Next]_fvars => FdInv'
  BY FdInvStep
<1> QED BY <1>1, FdInitInv, PTL DEF FdSpec

(* The table of a slot without a process is clean, and a living process    *)
(* has its standard input and output, for any number of slots and          *)
(* descriptors and whatever was opened, closed, halted or failed.          *)
THEOREM TablesFresh == FdSpec => []TableFresh
<1>1. FdInv => TableFresh
  BY DEF FdInv
<1> QED BY <1>1, FdInvAlways, PTL

(* An open descriptor always has the operations and the inode of a file of *)
(* the directory and a position within it, on every well-formed disk.      *)
THEOREM OpenDescriptorsMatch == FdSpec => []OpenMatches
<1>1. FdInv => OpenMatches
  BY DEF FdInv, OpenMatches, EntryOK
<1> QED BY <1>1, FdInvAlways, PTL

(* A living process keeps the argument it was started with.                *)
THEOREM ArgumentsStay == FdSpec => []ArgumentsKept
<1>1. FdInv => ArgumentsKept
  BY DEF FdInv, TypeOK, ArgsKept, ArgumentsKept, GetArgsResult
<1> QED BY <1>1, FdInvAlways, PTL

(* No call of the running process reaches the descriptors or arguments of  *)
(* a suspended one.                                                        *)
THEOREM SuspendedStayKept == FdSpec => SuspendedKept
<1>1. ASSUME FdInv, Next, NEW p \in live \ {running}
      PROVE  fd_arr'[p] = fd_arr[p] /\ argument'[p] = argument[p]
  <2>1. p \in NSlots /\ running \in live /\ fd_arr \in [NSlots -> [Fds -> FdEntry]]
    BY <1>1 DEF FdInv, TypeOK, FdEntry
  <2>2. ASSUME NEW line \in CommandLines, SysExecute(line) \/ SysExecuteFails(line)
        PROVE  fd_arr'[p] = fd_arr[p] /\ argument'[p] = argument[p]
    <3>1. PICK s \in NSlots :
            /\ FreeSlot(s) /\ WriteArgument(s, line)
            /\ fd_arr' = [fd_arr EXCEPT ![s] = StdStreams(@)] \/ fd_arr' = fd_arr
      BY <2>2 DEF SysExecute, SysExecuteFails
    <3>2. s # p
      BY <3>1 DEF FreeSlot
    <3> QED BY <1>1, <2>1, <3>1, <3>2, WriteArgumentType
  <2>3. CASE SysHalt \/ SysHaltBase
    BY <2>1, <2>3 DEF SysHalt, SysHaltBase
  <2>4. ASSUME NEW fname \in Names, SysOpen(fname)
        PROVE  fd_arr'[p] = fd_arr[p] /\ argument'[p] = argument[p]
    BY <2>1, <2>4 DEF SysOpen
  <2>5. ASSUME NEW fd \in Fds, SysClose(fd) \/ SysWrite(fd)
        PROVE  fd_arr'[p] = fd_arr[p] /\ argument'[p] = argument[p]
    BY <2>1, <2>5 DEF SysClose, SysWrite
  <2>6. ASSUME NEW fd \in Fds, NEW nbytes \in 1 .. BlockSize, SysRead(fd, nbytes)
        PROVE  fd_arr'[p] = fd_arr[p] /\ argument'[p] = argument[p]
    BY <2>1, <2>6 DEF SysRead
  <2> QED BY <1>1, <2>2, <2>3, <2>4, <2>5, <2>6 DEF Next
<1>2. FdInv /\ [Next]_fvars =>
        [\A p \in live \ {running} : fd_arr'[p] = fd_arr[p]
                                      /\ argument'[p] = argument[p]]_fvars
  BY <1>1
<1> QED BY <1>2, FdInvAlways, PTL DEF FdSpec, SuspendedKept

-----------------------------------------------------------------------------
(* The tests of syserr.                                                    *)

(* A run of calls, one after the other.                                    *)
Started(table) == [table |-> table, good |-> 0]

Follows(table, calls, n, f) ==
  f = [i \in 0 .. n |->
         IF i = 0 THEN [table |-> table, good |-> 0]
                  ELSE Answer(f[i - 1], calls[i])]

LEMMA FollowsExists ==
  ASSUME NEW table, NEW calls, NEW n \in Nat
  PROVE  \E f : Follows(table, calls, n, f)
<1> DEFINE T == {m \in Nat : ~ \E f : Follows(table, calls, m, f)}
<1>1. T = {}
  <2> SUFFICES ASSUME T # {} PROVE FALSE
    OBVIOUS
  <2>1. PICK m \in T : \A l \in T : m <= l
    BY LeastElement
  <2>2. m \in Nat /\ ~ \E f : Follows(table, calls, m, f)
    BY <2>1
  <2>3. m # 0
    <3> DEFINE f == [i \in 0 .. 0 |-> Started(table)]
    <3>1. Follows(table, calls, 0, f)
      BY DEF Follows, Started
    <3> QED BY <2>2, <3>1, Zenon
  <2>4. m - 1 \in Nat /\ ~ (m <= m - 1) /\ m \in 0 .. m
    BY <2>2, <2>3
  <2>5. PICK f : Follows(table, calls, m - 1, f)
    BY <2>1, <2>4
  <2> DEFINE g == [i \in 0 .. m |-> IF i <= m - 1 THEN f[i] ELSE Answer(f[m - 1], calls[m])]
             step(h, i) == IF i = 0 THEN [table |-> table, good |-> 0]
                                    ELSE Answer(h[i - 1], calls[i])
  <2>6. \A i \in 0 .. m - 1 : f[i] = step(f, i)
    BY <2>5 DEF Follows
  <2>7. g[m - 1] = f[m - 1] /\ g[m] = Answer(f[m - 1], calls[m])
    BY <2>4
  <2>8. \A i \in 0 .. m - 1 : g[i] = f[i]
    BY <2>4
  <2>9. ASSUME NEW i \in 0 .. m PROVE g[i] = step(g, i)
    <3>1. CASE i = m
      BY <2>3, <2>7, <3>1
    <3>2. CASE i # m
      <4>1. i \in 0 .. m - 1 /\ (i # 0 => i - 1 \in 0 .. m - 1)
        BY <2>4, <3>2
      <4>2. g[i] = step(f, i)
        BY <2>6, <2>8, <4>1
      <4>3. i # 0 => g[i - 1] = f[i - 1]
        BY <2>8, <4>1
      <4> HIDE DEF g
      <4> QED BY <4>2, <4>3
    <3> QED BY <3>1, <3>2
  <2>10. g = [i \in 0 .. m |-> step(g, i)]
    <3> HIDE DEF step
    <3> QED BY <2>9
  <2> HIDE DEF g
  <2>11. Follows(table, calls, m, g)
    BY <2>10 DEF Follows
  <2> QED BY <2>2, <2>11
<1> QED BY <1>1

(* What holds at the start and after each call holds at the end.           *)
LEMMA RunInduction ==
  ASSUME NEW table, NEW calls, Len(calls) \in Nat, NEW R,
         <<0, Started(table)>> \in R,
         \A i \in 1 .. Len(calls) : \A st :
           <<i - 1, st>> \in R => <<i, Answer(st, calls[i])>> \in R
  PROVE  <<Len(calls), Run(table, calls)>> \in R
<1> DEFINE n == Len(calls)
           f == CHOOSE g : Follows(table, calls, n, g)
<1>1. Run(table, calls) = f[n]
  BY Zenon DEF Run, Follows
<1>2. Follows(table, calls, n, f)
  BY FollowsExists, Zenon
<1> HIDE DEF f
<1>3. f[0] = Started(table) /\ \A i \in 1 .. n : f[i] = Answer(f[i - 1], calls[i])
  BY <1>2 DEF Follows, Started
<1> DEFINE T == {i \in Nat : i <= n /\ <<i, f[i]>> \notin R}
<1>4. T = {}
  <2> SUFFICES ASSUME T # {} PROVE FALSE
    OBVIOUS
  <2>1. PICK m \in T : \A l \in T : m <= l
    BY LeastElement
  <2>2. m \in Nat /\ m <= n /\ <<m, f[m]>> \notin R
    BY <2>1
  <2>3. m # 0
    BY <2>2, <1>3
  <2>4. m \in 1 .. n /\ m - 1 \in Nat /\ m - 1 <= n /\ ~ (m <= m - 1)
    BY <2>2, <2>3
  <2>5. <<m - 1, f[m - 1]>> \in R
    BY <2>1, <2>4
  <2>6. <<m, Answer(f[m - 1], calls[m])>> \in R
    BY <2>4, <2>5
  <2> QED BY <1>3, <2>2, <2>4, <2>6
<1>5. n \in Nat /\ n <= n
  OBVIOUS
<1> QED BY <1>1, <1>4, <1>5

-----------------------------------------------------------------------------
Tables == [Fds -> FdEntry]
States == [table : Tables, good : Nat]

LEMMA OpenEntryIs ==
  ASSUME NEW e, NEW fname, DentryByName(Disk, fname) # 0
  PROVE  LET o == OpenEntry(e, Disk.direntries[DentryByName(Disk, fname)])
         IN  o \in FdEntry /\ o.flags = 1
<1> DEFINE d == Disk.direntries[DentryByName(Disk, fname)]
<1>1. DentryByName(Disk, fname) \in 1 .. Len(Disk.direntries)
  BY DiskFacts, DentryFound
<1>2. d.inode_num \in Int /\ OpsOf(d.filetype) \in {"rtc", "dir", "file"}
  BY <1>1, DiskFacts
<1> HIDE DEF d
<1>3. OpenEntry(e, d) \in FdEntry /\ OpenEntry(e, d).flags = 1
  BY <1>2 DEF OpenEntry, FdEntry, Ops
<1> QED BY <1>3 DEF d

LEMMA AfterClose ==
  ASSUME NEW t \in Tables, NEW fd \in 2 .. PcbLength - 1
  PROVE  LET u == After(t, Call("close", fd)) IN
         /\ u \in Tables
         /\ u[fd].flags = 0 /\ u[fd].file_operations = "dir"
         /\ \A e \in Fds : e # fd => u[e] = t[e]
         /\ Succeeds(t, Call("close", fd)) <=> t[fd].flags = 1
<1>1. fd \in Fds
  BY DescriptorAssumption DEF Fds
<1>2. t[fd] \in FdEntry
  BY <1>1 DEF Tables
<1> DEFINE c == Call("close", fd)
<1>3. c.call = "close" /\ c.arg = fd
  BY DEF Call
<1> HIDE DEF c
<1>4. After(t, c) = [t EXCEPT ![fd] = ClosedEntry(t[fd])]
  BY <1>3 DEF After
<1>5. Succeeds(t, c) <=> t[fd].flags = 1
  BY <1>3 DEF Succeeds
<1>6. ClosedEntry(t[fd]) \in FdEntry /\ ClosedEntry(t[fd]).flags = 0
      /\ ClosedEntry(t[fd]).file_operations = "dir"
  BY <1>2, ClosedEntryIs
<1> DEFINE x == ClosedEntry(t[fd])
<1> HIDE DEF x
<1>7. x \in FdEntry /\ x.flags = 0 /\ x.file_operations = "dir"
  BY <1>6 DEF x
<1>8. After(t, c) = [t EXCEPT ![fd] = x]
  BY <1>4 DEF x
<1>9. After(t, c) \in Tables /\ After(t, c)[fd] = x
      /\ \A e \in Fds : e # fd => After(t, c)[e] = t[e]
  BY <1>1, <1>7, <1>8 DEF Tables
<1> QED BY <1>5, <1>7, <1>9 DEF c

(* A call that is refused whatever the table.                              *)
Hopeless(c) ==
  \/ c.call \in {"read", "write", "close"} /\ c.arg \in Int \ Fds
  \/ c.call = "close" /\ c.arg \in 0 .. 1
  \/ c.call = "read" /\ c.arg = 1
  \/ c.call = "write" /\ c.arg = 0
  \/ c.call = "open" /\ c.arg = "missing"
  \/ c.call = "vidmap" /\ c.arg \in {"NULL", "kernel"}
  \/ c.call = "number" /\ c.arg \in Int \ 1 .. 10

LEMMA HopelessFails ==
  ASSUME NEW t, NEW c, Hopeless(c)
  PROVE  ~ Succeeds(t, c) /\ After(t, c) = t
<1>1. CASE c.call \in {"read", "write", "close"} /\ c.arg \in Int \ Fds
  <2>1. c.arg \notin ReadFds /\ c.arg \notin WriteFds /\ c.arg \notin 2 .. PcbLength - 1
    BY <1>1 DEF ReadFds, WriteFds, Fds
  <2>2. CASE c.call = "read"
    BY <2>1, <2>2 DEF Succeeds, After
  <2>3. CASE c.call = "write"
    BY <2>1, <2>3 DEF Succeeds, After
  <2>4. CASE c.call = "close"
    BY <2>1, <2>4 DEF Succeeds, After
  <2> QED BY <1>1, <2>2, <2>3, <2>4
<1>2. CASE c.call = "close" /\ c.arg \in 0 .. 1
  BY <1>2 DEF Succeeds, After
<1>3. CASE c.call = "read" /\ c.arg = 1
  BY <1>3 DEF Succeeds, After, ReadFds
<1>4. CASE c.call = "write" /\ c.arg = 0
  BY <1>4 DEF Succeeds, After, WriteFds
<1>5. CASE c.call = "open" /\ c.arg = "missing"
  <2>1. OpenFds(t, c.arg) = {}
    BY <1>5, SyserrAssumption DEF OpenFds
  <2> QED BY <1>5, <2>1 DEF Succeeds, After
<1>6. CASE c.call = "vidmap" /\ c.arg \in {"NULL", "kernel"}
  BY <1>6 DEF Succeeds, After
<1>7. CASE c.call = "number" /\ c.arg \in Int \ 1 .. 10
  BY <1>7 DEF Succeeds, After
<1> QED BY <1>1, <1>2, <1>3, <1>4, <1>5, <1>6, <1>7 DEF Hopeless

LEMMA HopelessRun ==
  ASSUME NEW table, NEW calls, Len(calls) \in Nat,
         \A i \in 1 .. Len(calls) : Hopeless(calls[i])
  PROVE  Run(table, calls) = Started(table)
<1> DEFINE R == Nat \X {Started(table)}
<1>1. <<0, Started(table)>> \in R
  OBVIOUS
<1>2. ASSUME NEW i \in 1 .. Len(calls), NEW st, <<i - 1, st>> \in R
      PROVE  <<i, Answer(st, calls[i])>> \in R
  <2>1. st = Started(table) /\ i \in Nat
    BY <1>2
  <2>2. ~ Succeeds(table, calls[i]) /\ After(table, calls[i]) = table
    BY <1>2, HopelessFails
  <2>3. st.table = table /\ st.good = 0
    BY <2>1 DEF Started
  <2>4. Answer(st, calls[i]) = Started(table)
    BY <2>2, <2>3 DEF Answer, Started
  <2> QED BY <2>1, <2>4
<1> HIDE DEF R
<1>3. <<Len(calls), Run(table, calls)>> \in R
  BY <1>1, <1>2, RunInduction
<1> QED BY <1>3 DEF R

-----------------------------------------------------------------------------
(* The tests whose calls fail with every table.                            *)
LEMMA HopelessTests ==
  \A k \in {1, 2, 4, 6, 7, 8} :
    /\ Len(Tests[k]) \in Nat
    /\ \A i \in 1 .. Len(Tests[k]) : Hopeless(Tests[k][i])
<1>1. PcbLength \in Nat /\ PcbLength <= BIG /\ NEG \in Int \ Fds /\ BIG \in Int \ Fds
      /\ NEG \in Int \ 1 .. 10 /\ BIG \in Int \ 1 .. 10
  BY DescriptorAssumption, SyserrAssumption DEF Fds, NEG, BIG
<1> HIDE DEF NEG, BIG
<1>2. \A name, a : Call(name, a).call = name /\ Call(name, a).arg = a
  BY DEF Call
<1> HIDE DEF Call
<1>3. Len(err_neg_fd) = 3 /\ \A i \in 1 .. 3 : Hopeless(err_neg_fd[i])
  <2>1. /\ Hopeless(Call("read", NEG)) /\ Hopeless(Call("write", NEG))
        /\ Hopeless(Call("close", NEG))
    BY <1>1, <1>2 DEF Hopeless
  <2> QED BY <2>1 DEF err_neg_fd
<1>4. Len(err_big_fd) = 3 /\ \A i \in 1 .. 3 : Hopeless(err_big_fd[i])
  <2>1. /\ Hopeless(Call("read", BIG)) /\ Hopeless(Call("write", BIG))
        /\ Hopeless(Call("close", BIG))
    BY <1>1, <1>2 DEF Hopeless
  <2> QED BY <2>1 DEF err_big_fd
<1>5. Len(err_open) = 3 /\ \A i \in 1 .. 3 : Hopeless(err_open[i])
  <2>1. Hopeless(Call("open", "missing"))
    BY <1>2 DEF Hopeless
  <2> QED BY <2>1 DEF err_open
<1>6. Len(err_vidmap) = 2 /\ \A i \in 1 .. 2 : Hopeless(err_vidmap[i])
  <2>1. Hopeless(Call("vidmap", "NULL")) /\ Hopeless(Call("vidmap", "kernel"))
    BY <1>2 DEF Hopeless
  <2> QED BY <2>1 DEF err_vidmap
<1>7. Len(err_stdin_out) = 2 /\ \A i \in 1 .. 2 : Hopeless(err_stdin_out[i])
  <2>1. Hopeless(Call("write", 0)) /\ Hopeless(Call("read", 1))
    BY <1>2 DEF Hopeless
  <2> QED BY <2>1 DEF err_stdin_out
<1>8. Len(err_syscall_num) = 3 /\ \A i \in 1 .. 3 : Hopeless(err_syscall_num[i])
  <2>1. /\ Hopeless(Call("number", BIG)) /\ Hopeless(Call("number", NEG))
        /\ Hopeless(Call("number", 0))
    BY <1>1, <1>2 DEF Hopeless
  <2> QED BY <2>1 DEF err_syscall_num
<1>9. /\ Tests[1] = err_neg_fd /\ Tests[2] = err_big_fd /\ Tests[4] = err_open
      /\ Tests[6] = err_vidmap /\ Tests[7] = err_stdin_out /\ Tests[8] = err_syscall_num
  BY DEF Tests
<1> QED BY <1>3, <1>4, <1>5, <1>6, <1>7, <1>8, <1>9

-----------------------------------------------------------------------------
Idle(t) == t \in Tables /\ \A fd \in Fds : t[fd].flags = 0

(* n files are open.                                                       *)
Filled(t, n) ==
  t \in Tables /\ \A fd \in Fds : t[fd].flags = IF fd \in 2 .. n + 1 THEN 1 ELSE 0

LEMMA OpenOne ==
  ASSUME NEW t, NEW n \in 0 .. PcbLength - 3, Filled(t, n)
  PROVE  Succeeds(t, Call("open", ".")) /\ Filled(After(t, Call("open", ".")), n + 1)
<1> DEFINE c == Call("open", ".")
<1>1. c.call = "open" /\ c.arg = "."
  BY DEF Call
<1> HIDE DEF c
<1>2. PcbLength \in Nat /\ n \in Nat /\ n + 2 \in Fds /\ n + 2 \in 2 .. PcbLength - 1
  BY DescriptorAssumption DEF Fds
<1>3. FreeFd(t, n + 2)
  <2>1. t[n + 2].flags = 0
    BY <1>2 DEF Filled
  <2>2. ASSUME NEW e \in 2 .. (n + 2) - 1 PROVE t[e].flags = 1
    <3>1. e \in Fds /\ e \in 2 .. n + 1
      BY <1>2, <2>2 DEF Fds
    <3> QED BY <3>1 DEF Filled
  <2> QED BY <1>2, <2>1, <2>2 DEF FreeFd
<1>4. ASSUME NEW fd \in Fds, FreeFd(t, fd) PROVE fd = n + 2
  <2>1. fd \in 2 .. PcbLength - 1 /\ t[fd].flags = 0 /\ fd \in Nat
    BY <1>2, <1>4 DEF FreeFd
  <2>2. fd \notin 2 .. n + 1
    BY <1>4, <2>1 DEF Filled
  <2>3. ~ (n + 2 < fd)
    <3> SUFFICES ASSUME n + 2 < fd PROVE FALSE
      OBVIOUS
    <3>1. n + 2 \in 2 .. fd - 1
      BY <1>2, <2>1
    <3>2. t[n + 2].flags = 1
      BY <3>1, <1>4 DEF FreeFd
    <3>3. t[n + 2].flags = 0
      BY <1>2 DEF Filled
    <3> QED BY <3>2, <3>3
  <2> QED BY <1>2, <2>1, <2>2, <2>3
<1>5. OpenFds(t, ".") = {n + 2}
  BY <1>2, <1>3, <1>4, SyserrAssumption DEF OpenFds
<1>6. (CHOOSE fd \in OpenFds(t, ".") : TRUE) = n + 2
  BY <1>5
<1> DEFINE x == OpenEntry(t[n + 2], Disk.direntries[DentryByName(Disk, ".")])
<1>7. x \in FdEntry /\ x.flags = 1
  BY OpenEntryIs, SyserrAssumption
<1>8. After(t, c) = [t EXCEPT ![n + 2] = x]
  <2>1. OpenFds(t, c.arg) # {}
    BY <1>1, <1>5
  <2>2. After(t, c) = [t EXCEPT ![CHOOSE fd \in OpenFds(t, c.arg) : TRUE] =
            OpenEntry(@, Disk.direntries[DentryByName(Disk, c.arg)])]
    BY <1>1, <2>1 DEF After
  <2> QED BY <1>1, <1>6, <2>2
<1> HIDE DEF x
<1>9. Succeeds(t, c)
  BY <1>1, <1>5 DEF Succeeds
<1>10. t \in [Fds -> FdEntry]
  BY DEF Filled, Tables
<1>11. /\ After(t, c) \in [Fds -> FdEntry] /\ After(t, c)[n + 2] = x
       /\ \A fd \in Fds : fd # n + 2 => After(t, c)[fd] = t[fd]
  BY <1>2, <1>7, <1>8, <1>10
<1>12. ASSUME NEW fd \in Fds
       PROVE  After(t, c)[fd].flags = IF fd \in 2 .. (n + 1) + 1 THEN 1 ELSE 0
  <2>1. CASE fd = n + 2
    <3>1. fd \in 2 .. (n + 1) + 1
      BY <1>2, <2>1
    <3> QED BY <2>1, <3>1, <1>7, <1>11
  <2>2. CASE fd # n + 2
    <3>1. fd \in 2 .. (n + 1) + 1 <=> fd \in 2 .. n + 1
      BY <1>2, <2>2 DEF Fds
    <3>2. t[fd].flags = IF fd \in 2 .. n + 1 THEN 1 ELSE 0
      BY DEF Filled
    <3> QED BY <2>2, <3>1, <3>2, <1>11
  <2> QED BY <2>1, <2>2
<1>13. Filled(After(t, c), n + 1)
  BY <1>11, <1>12 DEF Filled, Tables
<1> QED BY <1>9, <1>13 DEF c

LEMMA OpenNoMore ==
  ASSUME NEW t, Filled(t, PcbLength - 2)
  PROVE  ~ Succeeds(t, Call("open", ".")) /\ After(t, Call("open", ".")) = t
<1> DEFINE c == Call("open", ".")
<1>1. c.call = "open" /\ c.arg = "."
  BY DEF Call
<1> HIDE DEF c
<1>2. ASSUME NEW fd \in Fds, FreeFd(t, fd) PROVE FALSE
  <2>1. fd \in 2 .. PcbLength - 1 /\ t[fd].flags = 0
    BY <1>2 DEF FreeFd
  <2>2. fd \in 2 .. (PcbLength - 2) + 1
    BY <2>1, DescriptorAssumption
  <2> QED BY <1>2, <2>1, <2>2 DEF Filled
<1>3. OpenFds(t, ".") = {}
  BY <1>2 DEF OpenFds
<1>4. ~ Succeeds(t, c) /\ After(t, c) = t
  BY <1>1, <1>3 DEF Succeeds, After
<1> QED BY <1>4 DEF c

(* Test 3.  The opens, all but the last of which succeed, and the closes.  *)
Opens(i) == IF i <= PcbLength - 2 THEN i ELSE PcbLength - 2

LEMMA OpenNext ==
  ASSUME NEW i \in 1 .. PcbLength - 1, NEW st \in States, st.good = Opens(i - 1),
         Filled(st.table, Opens(i - 1))
  PROVE  LET u == Answer(st, Call("open", ".")) IN
         u \in States /\ u.good = Opens(i) /\ Filled(u.table, Opens(i))
<1> DEFINE c == Call("open", ".")
           t == st.table
           u == Answer(st, c)
<1> HIDE DEF c
<1>1. PcbLength \in Nat /\ PcbLength > 2 /\ i \in Nat
  BY DescriptorAssumption
<1>2. u.table = After(t, c)
      /\ u = [table |-> u.table, good |-> u.good]
      /\ u.good = st.good + (IF Succeeds(t, c) THEN 1 ELSE 0)
  BY DEF Answer
<1> HIDE DEF u, t
<1>3. CASE i <= PcbLength - 2
  <2>1. Opens(i - 1) = i - 1 /\ Opens(i) = i /\ i - 1 \in 0 .. PcbLength - 3 /\ (i - 1) + 1 = i
    BY <1>1, <1>3 DEF Opens
  <2>2. Succeeds(t, c) /\ Filled(After(t, c), (i - 1) + 1)
    BY <2>1, OpenOne DEF c, t
  <2>3. u.good = i
    BY <1>2, <2>1, <2>2
  <2>4. After(t, c) \in Tables /\ i \in Nat
    BY <1>1, <2>2 DEF Filled
  <2>5. u \in States
    BY <1>2, <2>3, <2>4 DEF States
  <2> QED BY <1>2, <2>1, <2>2, <2>3, <2>5 DEF u, c
<1>4. CASE i = PcbLength - 1
  <2>1. Opens(i - 1) = PcbLength - 2 /\ Opens(i) = PcbLength - 2 /\ PcbLength - 2 \in Nat
    BY <1>1, <1>4 DEF Opens
  <2>2. ~ Succeeds(t, c) /\ After(t, c) = t /\ Filled(t, PcbLength - 2)
    BY <2>1, OpenNoMore DEF c, t
  <2>3. u.good = PcbLength - 2
    BY <1>2, <2>1, <2>2
  <2>4. After(t, c) \in Tables
    BY <2>2 DEF Filled
  <2>5. u \in States
    BY <1>2, <2>1, <2>3, <2>4 DEF States
  <2> QED BY <1>2, <2>1, <2>2, <2>3, <2>5 DEF u, c
<1> QED BY <1>1, <1>3, <1>4

CallNames == {"open", "close", "read", "write"}
Calls == [call : CallNames, arg : Int \cup {"."}]

LEMMA EachIs ==
  ASSUME NEW name \in CallNames, NEW a \in Nat, NEW b \in Nat, a <= b
  PROVE  /\ Each(name, a, b) \in Seq(Calls) /\ Len(Each(name, a, b)) = b - a + 1
         /\ \A i \in 1 .. b - a + 1 : Each(name, a, b)[i] = Call(name, a + i - 1)
<1> DEFINE n == b - a + 1
           g(i) == Call(name, a + i - 1)
<1>1. n \in Nat
  OBVIOUS
<1>2. \A i \in 1 .. n : g(i) \in Calls
  BY DEF Call, Calls
<1>3. Each(name, a, b) = [i \in 1 .. n |-> g(i)]
  BY DEF Each
<1> HIDE DEF n, g
<1>4. [i \in 1 .. n |-> g(i)] \in Seq(Calls) /\ Len([i \in 1 .. n |-> g(i)]) = n
  BY <1>1, <1>2, IsASeq
<1> QED BY <1>3, <1>4 DEF n, g

LEMMA OpenLotsIs ==
  /\ OpenLots \in Seq(Calls) /\ Len(OpenLots) = PcbLength - 1
  /\ \A i \in 1 .. PcbLength - 1 : OpenLots[i] = Call("open", ".")
<1> DEFINE n == PcbLength - 1
           x == Call("open", ".")
<1>1. n \in Nat
  BY DescriptorAssumption
<1>2. x \in Calls
  <2>1. "open" \in CallNames /\ "." \in Int \cup {"."}
    BY DEF CallNames
  <2>2. \A a \in CallNames, b \in Int \cup {"."} : Call(a, b) \in Calls
    BY DEF Call, Calls
  <2> QED BY <2>1, <2>2
<1>3. OpenLots = [i \in 1 .. n |-> x]
  BY DEF OpenLots
<1> HIDE DEF n, x
<1>4. [i \in 1 .. n |-> x] \in Seq(Calls) /\ Len([i \in 1 .. n |-> x]) = n
  BY <1>1, <1>2
<1> QED BY <1>3, <1>4 DEF n, x

LEMMA OpenLotsRun ==
  ASSUME NEW table, Idle(table)
  PROVE  Run(table, OpenLots).good = Len(OpenLots) - 1
<1> DEFINE R == {p \in Nat \X States : /\ p[2].good = Opens(p[1])
                                       /\ Filled(p[2].table, Opens(p[1]))}
<1>1. PcbLength \in Nat /\ PcbLength > 2
  BY DescriptorAssumption
<1>2. Len(OpenLots) \in Nat /\ Len(OpenLots) = PcbLength - 1
  BY <1>1, OpenLotsIs
<1>3. <<0, Started(table)>> \in R
  <2>1. Opens(0) = 0
    BY <1>1 DEF Opens
  <2>2. Started(table) \in States /\ Started(table).good = 0 /\ Started(table).table = table
    BY DEF Started, States, Idle
  <2>3. Filled(table, 0)
    BY DEF Idle, Filled
  <2> QED BY <2>1, <2>2, <2>3
<1>4. ASSUME NEW i \in 1 .. Len(OpenLots), NEW st, <<i - 1, st>> \in R
      PROVE  <<i, Answer(st, OpenLots[i])>> \in R
  <2>1. st \in States /\ st.good = Opens(i - 1) /\ Filled(st.table, Opens(i - 1))
    BY <1>4
  <2>2. i \in 1 .. PcbLength - 1 /\ i \in Nat /\ OpenLots[i] = Call("open", ".")
    BY <1>2, OpenLotsIs
  <2> DEFINE u == Answer(st, OpenLots[i])
  <2>3. u \in States /\ u.good = Opens(i) /\ Filled(u.table, Opens(i))
    BY <2>1, <2>2, OpenNext
  <2> HIDE DEF u
  <2>4. <<i, u>> \in R
    BY <2>2, <2>3
  <2> QED BY <2>4 DEF u
<1> HIDE DEF R
<1>5. <<Len(OpenLots), Run(table, OpenLots)>> \in R
  BY <1>2, <1>3, <1>4, RunInduction
<1>6. Run(table, OpenLots).good = Opens(Len(OpenLots))
  BY <1>5 DEF R
<1> QED BY <1>1, <1>2, <1>6 DEF Opens

(* The calls of a test after its opens close descriptor after descriptor.  *)
OpenedOrClosed(i, t) ==
  IF i <= PcbLength - 1
    THEN Filled(t, Opens(i))
    ELSE t \in Tables /\ \A fd \in Fds : fd < 2 \/ fd < i - PcbLength + 3 => t[fd].flags = 0

LEMMA OpenLotsCalls ==
  LET n == PcbLength - 1 IN
  /\ Len(err_open_lots) = n + (PcbLength - 2)
  /\ \A i \in 1 .. n + (PcbLength - 2) :
       err_open_lots[i] = IF i <= n THEN Call("open", ".") ELSE Call("close", i - n + 1)
<1> DEFINE n == PcbLength - 1
           E == Each("close", 2, n)
<1>1. PcbLength \in Nat /\ PcbLength > 2 /\ n \in Nat /\ 2 <= n /\ n - 2 + 1 = PcbLength - 2
  BY DescriptorAssumption
<1>2. /\ E \in Seq(Calls) /\ Len(E) = PcbLength - 2
      /\ \A i \in 1 .. PcbLength - 2 : E[i] = Call("close", 2 + i - 1)
  <2> HIDE DEF n
  <2>1. 2 \in Nat /\ "close" \in CallNames
    BY DEF CallNames
  <2>2. /\ E \in Seq(Calls) /\ Len(E) = n - 2 + 1
        /\ \A i \in 1 .. n - 2 + 1 : E[i] = Call("close", 2 + i - 1)
    BY <1>1, <2>1, EachIs
  <2> QED BY <1>1, <2>2
<1>3. OpenLots \in Seq(Calls) /\ Len(OpenLots) = n
      /\ \A i \in 1 .. n : OpenLots[i] = Call("open", ".")
  BY OpenLotsIs
<1>4. err_open_lots = OpenLots \o E
  BY DEF err_open_lots
<1> HIDE DEF E, n
<1>5. /\ Len(OpenLots \o E) = n + (PcbLength - 2)
      /\ \A i \in 1 .. n + (PcbLength - 2) : (OpenLots \o E)[i] =
            IF i <= n THEN OpenLots[i] ELSE E[i - n]
  <2>1. /\ Len(OpenLots \o E) = Len(OpenLots) + Len(E)
        /\ \A i \in 1 .. Len(OpenLots) + Len(E) : (OpenLots \o E)[i] =
              IF i <= Len(OpenLots) THEN OpenLots[i] ELSE E[i - Len(OpenLots)]
    BY <1>2, <1>3, ConcatProperties
  <2>2. Len(OpenLots) = n /\ Len(E) = PcbLength - 2
    BY <1>2, <1>3
  <2> QED BY <2>1, <2>2, Zenon
<1>6. ASSUME NEW i \in 1 .. n + (PcbLength - 2)
      PROVE  err_open_lots[i] = IF i <= n THEN Call("open", ".") ELSE Call("close", i - n + 1)
  <2>1. CASE i <= n
    <3>1. i \in 1 .. n
      BY <1>1, <2>1
    <3> QED BY <2>1, <3>1, <1>3, <1>4, <1>5
  <2>2. CASE ~ (i <= n)
    <3>1. i - n \in 1 .. PcbLength - 2 /\ 2 + (i - n) - 1 = i - n + 1
      BY <1>1, <2>2
    <3>2. err_open_lots[i] = E[i - n]
      BY <2>2, <1>4, <1>5
    <3>3. E[i - n] = Call("close", 2 + (i - n) - 1)
      BY <1>2, <3>1
    <3> QED BY <2>2, <3>1, <3>2, <3>3
  <2> QED BY <2>1, <2>2
<1> QED BY <1>4, <1>5, <1>6 DEF n

LEMMA OpenLotsLeaves ==
  ASSUME NEW table, Idle(table)
  PROVE  Idle(Run(table, err_open_lots).table)
<1> DEFINE n == PcbLength - 1
           R == {p \in Nat \X States :
                   /\ p[1] <= n => p[2].good = Opens(p[1])
                   /\ OpenedOrClosed(p[1], p[2].table)}
<1>1. PcbLength \in Nat /\ PcbLength > 2 /\ n \in Nat /\ n = PcbLength - 1
  BY DescriptorAssumption
<1> HIDE DEF n
<1>2. Len(err_open_lots) \in Nat /\ Len(err_open_lots) = n + (PcbLength - 2)
  BY <1>1, OpenLotsCalls
<1>3. <<0, Started(table)>> \in R
  <2>1. Opens(0) = 0
    BY <1>1 DEF Opens
  <2>2. Started(table) \in States /\ Started(table).good = 0 /\ Started(table).table = table
    BY DEF Started, States, Idle
  <2>3. Filled(table, 0)
    BY DEF Idle, Filled
  <2>4. OpenedOrClosed(0, table)
    BY <1>1, <2>1, <2>3 DEF OpenedOrClosed
  <2> QED BY <2>1, <2>2, <2>4
<1>4. ASSUME NEW i \in 1 .. Len(err_open_lots), NEW st, <<i - 1, st>> \in R
      PROVE  <<i, Answer(st, err_open_lots[i])>> \in R
  <2> DEFINE c == err_open_lots[i]
             u == Answer(st, c)
  <2>1. /\ st \in States /\ i \in Nat
        /\ i - 1 <= n => st.good = Opens(i - 1)
        /\ OpenedOrClosed(i - 1, st.table)
    BY <1>2, <1>4
  <2>2. c = IF i <= n THEN Call("open", ".") ELSE Call("close", i - n + 1)
    BY <1>1, <1>2, OpenLotsCalls
  <2>3. CASE i <= n
    <3>1. i \in 1 .. PcbLength - 1 /\ i - 1 <= n /\ i - 1 <= PcbLength - 1
          /\ i <= PcbLength - 1
      BY <1>1, <2>1, <2>3
    <3>2. Filled(st.table, Opens(i - 1))
      BY <2>1, <3>1 DEF OpenedOrClosed
    <3>3. u \in States /\ u.good = Opens(i) /\ Filled(u.table, Opens(i))
      BY <2>1, <2>2, <2>3, <3>1, <3>2, OpenNext
    <3>4. OpenedOrClosed(i, u.table)
      BY <3>1, <3>3 DEF OpenedOrClosed
    <3> HIDE DEF u
    <3>5. <<i, u>> \in R
      BY <2>1, <3>3, <3>4
    <3> QED BY <3>5 DEF u
  <2>4. CASE ~ (i <= n)
    <3> DEFINE fd == i - n + 1
               t == st.table
               v == After(t, c)
    <3>1. fd \in 2 .. PcbLength - 1 /\ fd = i - PcbLength + 2 /\ i > PcbLength - 1
          /\ fd \in Nat
      BY <1>1, <1>2, <2>1, <2>4
    <3>2. c = Call("close", fd)
      BY <2>2, <2>4
    <3>3. t \in Tables
      BY <2>1 DEF States
    <3> HIDE DEF c, fd, t
    <3>4. /\ v \in Tables /\ v[fd].flags = 0
          /\ \A e \in Fds : e # fd => v[e] = t[e]
      BY <3>1, <3>2, <3>3, AfterClose
    <3>5. u.table = v /\ u \in States
      <4>1. st.good \in Nat
        BY <2>1 DEF States
      <4>2. u = [table |-> v, good |-> st.good + (IF Succeeds(t, c) THEN 1 ELSE 0)]
        BY DEF Answer, t
      <4>3. st.good + (IF Succeeds(t, c) THEN 1 ELSE 0) \in Nat
        BY <4>1
      <4> HIDE DEF u, v
      <4> QED BY <3>4, <4>2, <4>3 DEF States
    <3>6. ASSUME NEW e \in Fds, e < 2 \/ e < i - PcbLength + 3 PROVE v[e].flags = 0
      <4>1. CASE e = fd
        BY <3>4, <4>1
      <4>2. CASE e # fd
        <5>1. e \in Nat /\ (e < 2 \/ e < (i - 1) - PcbLength + 3)
          BY <1>1, <2>1, <3>1, <3>6, <4>2 DEF Fds
        <5>2. t[e].flags = 0
          <6>1. CASE i - 1 <= PcbLength - 1
            <7>1. e < 2 /\ e \notin 2 .. Opens(i - 1) + 1
              BY <1>1, <2>1, <5>1, <6>1
            <7> QED BY <2>1, <6>1, <7>1 DEF OpenedOrClosed, Filled, t
          <6>2. CASE ~ (i - 1 <= PcbLength - 1)
            BY <2>1, <5>1, <6>2 DEF OpenedOrClosed, t
          <6> QED BY <6>1, <6>2
        <5> QED BY <3>4, <4>2, <5>2
      <4> QED BY <4>1, <4>2
    <3>7. OpenedOrClosed(i, v)
      <4>1. ~ (i <= PcbLength - 1)
        BY <1>1, <2>1, <3>1
      <4> HIDE DEF v
      <4> QED BY <3>4, <3>6, <4>1 DEF OpenedOrClosed
    <3> HIDE DEF u, v
    <3>8. <<i, u>> \in R
      BY <2>1, <2>4, <3>5, <3>7
    <3> QED BY <3>8 DEF u, c
  <2> QED BY <2>3, <2>4
<1> HIDE DEF R
<1>5. <<Len(err_open_lots), Run(table, err_open_lots)>> \in R
  BY <1>2, <1>3, <1>4, RunInduction
<1> DEFINE w == Run(table, err_open_lots).table
<1>6. OpenedOrClosed(Len(err_open_lots), w)
  BY <1>5 DEF R
<1> HIDE DEF w
<1>7. ~ (Len(err_open_lots) <= PcbLength - 1)
      /\ \A fd \in Fds : fd < Len(err_open_lots) - PcbLength + 3
  BY <1>1, <1>2 DEF Fds
<1>8. Idle(w)
  BY <1>6, <1>7 DEF OpenedOrClosed, Idle
<1> QED BY <1>8 DEF w

-----------------------------------------------------------------------------
(* Test 5.  The closes, which fail but leave operations that refuse the    *)
(* reads and writes after them.                                            *)
LEMMA UnopenedCalls ==
  LET n == PcbLength
      m == PcbLength - 2
  IN
  /\ Len(err_unopened) = n + m + m
  /\ \A i \in 1 .. n : err_unopened[i] = Call("close", i - 1)
  /\ \A i \in n + 1 .. n + m + m : \E name \in {"read", "write"}, fd \in 2 .. n - 1 :
       err_unopened[i] = Call(name, fd)
<1> DEFINE n == PcbLength
           m == PcbLength - 2
           h == PcbLength - 1
           A == Each("close", 0, h)
           B == Each("read", 2, h)
           C == Each("write", 2, h)
           D == A \o B
<1>1. n \in Nat /\ m \in Nat /\ h \in Nat /\ 2 <= h /\ 0 <= h
      /\ h - 0 + 1 = n /\ h - 2 + 1 = m /\ h = n - 1
  BY DescriptorAssumption
<1>2. "close" \in CallNames /\ "read" \in CallNames /\ "write" \in CallNames
  BY DEF CallNames
<1>3. err_unopened = D \o C
  BY DEF err_unopened
<1> HIDE DEF n, m, h
<1>4. /\ A \in Seq(Calls) /\ Len(A) = n
      /\ \A i \in 1 .. n : A[i] = Call("close", 0 + i - 1)
  <2>1. /\ A \in Seq(Calls) /\ Len(A) = h - 0 + 1
        /\ \A i \in 1 .. h - 0 + 1 : A[i] = Call("close", 0 + i - 1)
    BY <1>1, <1>2, EachIs
  <2> QED BY <1>1, <2>1
<1>5. /\ B \in Seq(Calls) /\ Len(B) = m
      /\ \A i \in 1 .. m : B[i] = Call("read", 2 + i - 1)
  <2>1. /\ B \in Seq(Calls) /\ Len(B) = h - 2 + 1
        /\ \A i \in 1 .. h - 2 + 1 : B[i] = Call("read", 2 + i - 1)
    BY <1>1, <1>2, EachIs
  <2> QED BY <1>1, <2>1
<1>6. /\ C \in Seq(Calls) /\ Len(C) = m
      /\ \A i \in 1 .. m : C[i] = Call("write", 2 + i - 1)
  <2>1. /\ C \in Seq(Calls) /\ Len(C) = h - 2 + 1
        /\ \A i \in 1 .. h - 2 + 1 : C[i] = Call("write", 2 + i - 1)
    BY <1>1, <1>2, EachIs
  <2> QED BY <1>1, <2>1
<1> HIDE DEF A, B, C
<1>7. /\ D \in Seq(Calls) /\ Len(D) = n + m
      /\ \A i \in 1 .. n + m : D[i] = IF i <= n THEN A[i] ELSE B[i - n]
  <2>1. /\ D \in Seq(Calls) /\ Len(D) = Len(A) + Len(B)
        /\ \A i \in 1 .. Len(A) + Len(B) : D[i] = IF i <= Len(A) THEN A[i] ELSE B[i - Len(A)]
    BY <1>4, <1>5, ConcatProperties
  <2>2. Len(A) = n /\ Len(B) = m
    BY <1>4, <1>5
  <2> HIDE DEF D
  <2> QED BY <2>1, <2>2, Zenon
<1> HIDE DEF D
<1>8. /\ Len(err_unopened) = (n + m) + m
      /\ \A i \in 1 .. (n + m) + m :
            err_unopened[i] = IF i <= n + m THEN D[i] ELSE C[i - (n + m)]
  <2>1. /\ Len(D \o C) = Len(D) + Len(C)
        /\ \A i \in 1 .. Len(D) + Len(C) : (D \o C)[i] =
              IF i <= Len(D) THEN D[i] ELSE C[i - Len(D)]
    BY <1>6, <1>7, ConcatProperties
  <2>2. Len(D) = n + m /\ Len(C) = m
    BY <1>6, <1>7
  <2> QED BY <1>3, <2>1, <2>2, Zenon
<1>9. ASSUME NEW i \in 1 .. n PROVE err_unopened[i] = Call("close", i - 1)
  <2>1. i \in 1 .. (n + m) + m /\ i <= n + m /\ i \in 1 .. n + m /\ i <= n /\ 0 + i - 1 = i - 1
    BY <1>1
  <2>2. err_unopened[i] = D[i] /\ D[i] = A[i] /\ A[i] = Call("close", 0 + i - 1)
    BY <1>4, <1>7, <1>8, <2>1
  <2> QED BY <2>1, <2>2
<1>10. ASSUME NEW i \in n + 1 .. n + m + m
       PROVE  \E name \in {"read", "write"}, fd \in 2 .. n - 1 :
                err_unopened[i] = Call(name, fd)
  <2>1. i \in 1 .. (n + m) + m /\ ~ (i <= n) /\ i \in Nat
    BY <1>1
  <2>2. CASE i <= n + m
    <3> DEFINE j == i - n
    <3>1. i \in 1 .. n + m /\ j \in 1 .. m /\ 2 + j - 1 \in 2 .. n - 1
      BY <1>1, <2>1, <2>2
    <3>2. err_unopened[i] = B[j] /\ B[j] = Call("read", 2 + j - 1)
      BY <1>5, <1>7, <1>8, <2>1, <2>2, <3>1
    <3> HIDE DEF j
    <3> QED BY <3>1, <3>2
  <2>3. CASE ~ (i <= n + m)
    <3> DEFINE j == i - (n + m)
    <3>1. j \in 1 .. m /\ 2 + j - 1 \in 2 .. n - 1
      BY <1>1, <2>1, <2>3
    <3>2. err_unopened[i] = C[j] /\ C[j] = Call("write", 2 + j - 1)
      BY <1>6, <1>8, <2>1, <2>3, <3>1
    <3> HIDE DEF j
    <3> QED BY <3>1, <3>2
  <2> QED BY <2>2, <2>3
<1>11. n = PcbLength /\ m = PcbLength - 2
  BY DEF n, m
<1> QED BY <1>8, <1>9, <1>10, <1>11, Zenon

Shut(i, t) ==
  Idle(t) /\ \A fd \in 2 .. PcbLength - 1 : fd < i => t[fd].file_operations = "dir"

LEMMA UnopenedRun ==
  ASSUME NEW table, Idle(table)
  PROVE  Run(table, err_unopened).good = 0 /\ Idle(Run(table, err_unopened).table)
<1> DEFINE n == PcbLength
           m == PcbLength - 2
           R == {p \in Nat \X States : p[2].good = 0 /\ Shut(p[1], p[2].table)}
<1>1. n \in Nat /\ n > 2 /\ m \in Nat /\ n = PcbLength
  BY DescriptorAssumption
<1>2. /\ Len(err_unopened) = n + m + m
      /\ \A i \in 1 .. n : err_unopened[i] = Call("close", i - 1)
      /\ \A i \in n + 1 .. n + m + m : \E name \in {"read", "write"}, fd \in 2 .. n - 1 :
           err_unopened[i] = Call(name, fd)
  BY UnopenedCalls, Zenon
<1> HIDE DEF n, m
<1>3. Len(err_unopened) \in Nat
  BY <1>1, <1>2
<1>4. <<0, Started(table)>> \in R
  <2>1. Started(table) \in States /\ Started(table).good = 0 /\ Started(table).table = table
    BY DEF Started, States, Idle
  <2>2. Shut(0, table)
    BY DEF Shut
  <2> QED BY <2>1, <2>2
<1>5. ASSUME NEW i \in 1 .. Len(err_unopened), NEW st, <<i - 1, st>> \in R
      PROVE  <<i, Answer(st, err_unopened[i])>> \in R
  <2> DEFINE c == err_unopened[i]
             t == st.table
             u == Answer(st, c)
  <2>1. st \in States /\ st.good = 0 /\ Shut(i - 1, t) /\ t \in Tables /\ i \in Nat
    BY <1>2, <1>5 DEF States
  <2>2. SUFFICES ~ Succeeds(t, c) /\ Shut(i, After(t, c))
    <3>1. After(t, c) \in Tables
      BY <2>2 DEF Shut, Idle
    <3>2. u = [table |-> After(t, c), good |-> 0]
      BY <2>1, <2>2 DEF Answer
    <3> HIDE DEF t, c
    <3>3. u \in States /\ u.good = 0 /\ u.table = After(t, c)
      BY <3>1, <3>2 DEF States
    <3> HIDE DEF u
    <3>4. <<i, u>> \in R
      BY <2>1, <2>2, <3>3
    <3> QED BY <3>4 DEF u, c
  <2>3. Idle(t) /\ \A fd \in 2 .. n - 1 : fd < i - 1 => t[fd].file_operations = "dir"
    BY <1>1, <2>1 DEF Shut
  <2>4. CASE i <= 2
    <3>1. c = Call("close", i - 1) /\ i - 1 \in 0 .. 1
      BY <1>1, <1>2, <2>1, <2>4
    <3>2. Hopeless(c)
      BY <3>1 DEF Hopeless, Call
    <3>3. ~ Succeeds(t, c) /\ After(t, c) = t
      BY <3>2, HopelessFails
    <3>4. Shut(i, t)
      BY <2>1, <2>3, <2>4 DEF Shut
    <3> QED BY <3>3, <3>4
  <2>5. CASE 2 < i /\ i <= n
    <3> DEFINE d == i - 1
               v == After(t, c)
    <3>1. c = Call("close", d) /\ d \in 2 .. PcbLength - 1 /\ d \in Fds
      BY <1>1, <1>2, <2>1, <2>5 DEF Fds
    <3> HIDE DEF c, t
    <3>2. /\ v \in Tables /\ v[d].flags = 0 /\ v[d].file_operations = "dir"
          /\ \A e \in Fds : e # d => v[e] = t[e]
          /\ Succeeds(t, c) <=> t[d].flags = 1
      BY <2>1, <3>1, AfterClose
    <3>3. t[d].flags = 0
      BY <2>3, <3>1 DEF Idle
    <3> HIDE DEF v
    <3>4. Idle(v)
      BY <2>3, <3>1, <3>2 DEF Idle
    <3>5. ASSUME NEW fd \in 2 .. PcbLength - 1, fd < i PROVE v[fd].file_operations = "dir"
      <4>1. CASE fd = d
        BY <3>2, <4>1
      <4>2. CASE fd # d
        <5>1. fd \in Fds /\ fd < i - 1 /\ fd \in 2 .. n - 1
          BY <1>1, <2>1, <3>5, <4>2 DEF Fds
        <5> QED BY <2>3, <3>2, <4>2, <5>1
      <4> QED BY <4>1, <4>2
    <3>6. Shut(i, v)
      BY <3>4, <3>5 DEF Shut
    <3> QED BY <3>2, <3>3, <3>6 DEF v
  <2>6. CASE n < i
    <3>1. PICK name \in {"read", "write"}, fd \in 2 .. n - 1 : c = Call(name, fd)
      <4>1. i \in n + 1 .. n + m + m
        BY <1>1, <1>2, <2>1, <2>6
      <4> QED BY <1>2, <4>1
    <3>2. c.call = name /\ c.arg = fd
      BY <3>1 DEF Call
    <3>3. fd \in Fds /\ fd < i - 1 /\ fd \in ReadFds /\ fd \in WriteFds
      BY <1>1, <2>1, <2>6, <3>1 DEF Fds, ReadFds, WriteFds
    <3>4. t[fd].file_operations = "dir" /\ t[fd].flags = 0
      BY <2>3, <3>1, <3>3 DEF Idle
    <3> HIDE DEF c, t
    <3>5. After(t, c) = t
      BY <3>1, <3>2 DEF After
    <3>6. ~ Succeeds(t, c)
      <4>1. CASE name = "read"
        BY <3>2, <3>4, <4>1 DEF Succeeds, Refused
      <4>2. CASE name = "write"
        BY <3>2, <3>4, <4>2 DEF Succeeds
      <4> QED BY <3>1, <4>1, <4>2
    <3>7. Shut(i, t)
      <4>1. \A e \in 2 .. PcbLength - 1 : e \in 2 .. n - 1 /\ e < i - 1
        BY <1>1, <2>1, <2>6
      <4> QED BY <2>3, <4>1 DEF Shut
    <3> QED BY <3>5, <3>6, <3>7
  <2> QED BY <1>1, <2>1, <2>4, <2>5, <2>6
<1> HIDE DEF R
<1>6. <<Len(err_unopened), Run(table, err_unopened)>> \in R
  BY <1>3, <1>4, <1>5, RunInduction
<1> QED BY <1>6 DEF R, Shut

-----------------------------------------------------------------------------
LEMMA TestPasses ==
  ASSUME NEW table, Idle(table), NEW k \in 1 .. 8
  PROVE  Passes(table, k)
<1>1. CASE k = 3
  BY <1>1, OpenLotsRun DEF Passes
<1>2. CASE k = 5
  <2>1. Tests[5] = err_unopened
    BY DEF Tests
  <2> QED BY <1>2, <2>1, UnopenedRun DEF Passes
<1>3. CASE k \in {1, 2, 4, 6, 7, 8}
  <2>1. Run(table, Tests[k]) = Started(table)
    BY <1>3, HopelessTests, HopelessRun
  <2>2. Run(table, Tests[k]).good = 0
    BY <2>1 DEF Started
  <2> QED BY <1>3, <2>2 DEF Passes
<1> QED BY <1>1, <1>2, <1>3

LEMMA AllTestsPass ==
  ASSUME NEW table, Idle(table)
  PROVE  AllPass(table)
<1> DEFINE third == Run(table, err_open_lots).table
           fifth == Run(third, err_unopened).table
<1>1. Idle(third)
  BY OpenLotsLeaves
<1> HIDE DEF third
<1>2. Idle(fifth)
  BY <1>1, UnopenedRun
<1> HIDE DEF fifth
<1>3. Len(Tests) = 8
  BY DEF Tests
<1>4. \A k \in 1 .. Len(Tests) : Passes(table, k) /\ Passes(third, k) /\ Passes(fifth, k)
  BY <1>1, <1>2, <1>3, TestPasses
<1> QED BY <1>4, Zenon DEF AllPass, third, fifth

(* Whenever a process has no file open, whatever happened before, each     *)
(* test of syserr prints PASS, alone and after the others, for any number  *)
(* of descriptors and slots and every disk that has the directory itself   *)
(* and none of the names that must not be found.                           *)
THEOREM SyserrAlwaysPasses == FdSpec => []SyserrPasses
<1>1. FdInv => SyserrPasses
  <2> SUFFICES ASSUME FdInv, \A fd \in Fds : Table[fd].flags = 0 PROVE AllPass(Table)
    BY Zenon DEF SyserrPasses
  <2>1. Table \in Tables
    BY DEF FdInv, TypeOK, Table, Tables, FdEntry
  <2>2. Idle(Table)
    BY <2>1 DEF Idle
  <2> QED BY <2>2, AllTestsPass
<1> QED BY <1>1, FdInvAlways, PTL

=============================================================================
