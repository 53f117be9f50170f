----------------------------- MODULE FileAccess -----------------------------
(***************************************************************************)
(* The three loops over a file that the kernel runs: reads of a regular    *)
(* file through file_read, reads of the directory through dir_read, and    *)
(* the loop of sys_execute that copies a program to memory.  One behaviour *)
(* is one of them, on one image.                                           *)
(***************************************************************************)
EXTENDS FileSystem

CONSTANTS
  Images,      \* images of the file system
  ReadSize,    \* READ_SIZE, the bytes per read of the loader (100)
  MaxRead,     \* the largest nbytes a program asks for
  MaxDirReads  \* bound on the reads of the directory

ASSUME AccessAssumption ==
  /\ ReadSize \in Nat \ {0} /\ MaxRead \in Nat /\ MaxDirReads \in Nat
  /\ \A fs \in Images : Wellformed(fs)

VARIABLES
  fs,             \* the image
  ino,            \* the inode of the file that is read
  job,            \* "file", "dir" or "load"
  file_position,  \* of the open file or directory; l of the loader
  k,              \* what the last read returned
  done_flag,      \* loader
  pc,             \* loader: "first", "loop", "done"
  out             \* what was delivered: a sequence of bytes or of names;
                  \* loader: the bytes at 0x08048000 and after
avars == <<fs, ino, job, file_position, k, done_flag, pc, out>>

AccessInit ==
  /\ fs \in Images
  /\ ino \in 0 .. fs.inode_count - 1
  /\ job \in {"file", "dir", "load"}
  /\ file_position = 0
  /\ k = 0
  /\ done_flag = FALSE
  /\ pc = "first"
  /\ out = <<>>

Bytes(off, n) == [i \in 1 .. n |-> ByteRead(fs, ino, off, i - 1)]

(* file_read: a failed read moves the position back by one and returns 0.  *)
FileRead(nbytes) ==
  LET position == ReadData(fs, ino, file_position, nbytes) IN
  /\ job = "file"
  /\ file_position' = file_position + position
  /\ k' = IF position < 0 THEN 0 ELSE position
  /\ out' = out \o Bytes(file_position, k')
  /\ UNCHANGED <<fs, ino, job, done_flag, pc>>

(* dir_read: one name per call; the position moves on even past the end.   *)
(* k is 1 for the length of a name.                                        *)
DirRead ==
  /\ job = "dir"
  /\ file_position < MaxDirReads
  /\ file_position' = file_position + 1
  /\ IF DentryByIndex(fs, file_position)
       THEN /\ k' = 1
            /\ out' = Append(out, fs.direntries[file_position + 1].filename)
       ELSE k' = 0 /\ UNCHANGED out
  /\ UNCHANGED <<fs, ino, job, done_flag, pc>>

(* Memory after n bytes are written at off: earlier bytes are overwritten. *)
Store(off, n) ==
  [p \in 1 .. IF Len(out) > off + n THEN Len(out) ELSE off + n |->
     IF p > off /\ p <= off + n THEN ByteRead(fs, ino, off, p - off - 1)
                                ELSE out[p]]

(* The loader: a first read, then reads until one returned 0 and one was   *)
(* not complete.                                                           *)
LoadFirst ==
  /\ job = "load"
  /\ pc = "first"
  /\ k' = ReadData(fs, ino, 0, ReadSize)
  /\ file_position' = k'
  /\ out' = Store(0, k')
  /\ pc' = "loop"
  /\ UNCHANGED <<fs, ino, job, done_flag>>

LoadLoopEnds == k = 0 /\ done_flag

(* mutant: l is set, not advanced                    *)
LoadNextStuck ==
  /\ job = "load"
  /\ pc = "loop"
  /\ IF LoadLoopEnds
       THEN pc' = "done" /\ UNCHANGED <<k, done_flag, file_position, out>>
       ELSE /\ k' = ReadData(fs, ino, file_position, ReadSize)
            /\ done_flag' = (done_flag \/ k' # ReadSize)
            /\ file_position' = k'
            /\ out' = Store(file_position, k')
            /\ UNCHANGED pc
  /\ UNCHANGED <<fs, ino, job>>

LoadNext ==
  /\ job = "load"
  /\ pc = "loop"
  /\ IF LoadLoopEnds
       THEN pc' = "done" /\ UNCHANGED <<k, done_flag, file_position, out>>
       ELSE /\ k' = ReadData(fs, ino, file_position, ReadSize)
            /\ done_flag' = (done_flag \/ k' # ReadSize)
            /\ file_position' = file_position + k'
            /\ out' = Store(file_position, k')
            /\ UNCHANGED pc
  /\ UNCHANGED <<fs, ino, job>>

AccessNext == \/ \E nbytes \in 0 .. MaxRead : FileRead(nbytes)
              \/ DirRead
              \/ LoadFirst \/ LoadNext

(* sys_execute runs its loop to the end; nothing forces a program to read. *)
AccessSpec == /\ AccessInit /\ [][AccessNext]_avars
              /\ WF_avars(LoadFirst \/ LoadNext)

-----------------------------------------------------------------------------
(* Reads of any sizes, in any number, deliver the file from its start,     *)
(* each byte once and in order, across block boundaries; reads of the      *)
(* directory deliver its names, each once and in order, to its end.        *)
ReadsInOrder ==
  /\ job = "file" => out = SubSeq(Content(fs, ino), 1, file_position)
  /\ job = "dir" =>
       LET n == IF file_position < Len(fs.direntries)
                  THEN file_position ELSE Len(fs.direntries)
       IN  out = [i \in 1 .. n |-> fs.direntries[i].filename]

(* A read that asks for bytes returns 0 at the end of the file only:       *)
(* programs stop at the first 0.                                           *)
ZeroAtEndOnly ==
  [][\A nbytes \in 1 .. MaxRead :
       FileRead(nbytes) /\ k' = 0 => file_position = fs.inode[ino].length]_avars

(* What sys_execute leaves in memory is the program, no byte missing,      *)
(* misplaced or added, whatever its length is relative to BlockSize and    *)
(* ReadSize.                                                               *)
LoadExact == job = "load" /\ pc = "done" => out = Content(fs, ino)

(* The loop of sys_execute ends.                                           *)
LoadEnds == job = "load" ~> pc = "done"

=============================================================================
