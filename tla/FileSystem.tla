----------------------------- MODULE FileSystem -----------------------------
(***************************************************************************)
(* The read-only file system of the House AM kernel: the boot block with   *)
(* its directory, the inodes and read_data, as operators on an image fs:   *)
(*                                                                         *)
(*   fs.direntries   sequence of [filename, filetype, inode_num]           *)
(*   fs.inode_count, fs.data_count                                         *)
(*   fs.inode        inode number -> [length, data_block_num]              *)
(*                                                                         *)
(* A byte is named by where it is stored, <<data block, index>>: two reads *)
(* that return the same bytes read the same places of the image.           *)
(***************************************************************************)
EXTENDS Integers, Sequences

CONSTANTS
  BlockSize,   \* BLOCK_SIZE = BLOCK_BYTES (4096 in the code)
  MaxBlocks    \* entries of data_block_num (1023 in the code)

ASSUME BlockAssumption == BlockSize \in Nat \ {0} /\ MaxBlocks \in Nat \ {0}

RtcType == 0
DirType == 1
RegularType == 2

-----------------------------------------------------------------------------
(* read_data stops before byte i of the request                            *)
(*   when it has returned all n bytes,                                     *)
(*   when byte i is the first of a block whose number is out of range,     *)
(*   when the file ends.                                                   *)

Entry(fs, ino, pos) == fs.inode[ino].data_block_num[pos \div BlockSize]
OutOfRange(fs, ino, pos) == Entry(fs, ino, pos) >= fs.data_count

BadBlockAt(fs, ino, off, i) ==
  /\ i > 0
  /\ (off + i) % BlockSize = 0
  /\ OutOfRange(fs, ino, off + i)
EofAt(fs, ino, off, i) == fs.inode[ino].length <= off + i

StopsAt(fs, ino, off, n, i) ==
  i = n \/ BadBlockAt(fs, ino, off, i) \/ EofAt(fs, ino, off, i)

(* mutant: the next block is not looked up           *)
StopIndexOneBlock(fs, ino, off, n) ==
  CHOOSE i \in 0 .. n :
    /\ i = n \/ EofAt(fs, ino, off, i) \/ (off + i + 1) % BlockSize = 0
    /\ \A j \in 0 .. i - 1 :
          ~(EofAt(fs, ino, off, j) \/ (off + j + 1) % BlockSize = 0)

(* The number of bytes copied to the buffer.                               *)
StopIndex(fs, ino, off, n) ==
  CHOOSE i \in 0 .. n : /\ StopsAt(fs, ino, off, n, i)
                        /\ \A j \in 0 .. i - 1 : ~StopsAt(fs, ino, off, n, j)

(* The return value: the block number is tested before the end of the      *)
(* file, and both before the copy.                                         *)
ReadData(fs, ino, off, n) ==
  IF OutOfRange(fs, ino, off) \/ ino >= fs.inode_count
    THEN -1
    ELSE LET i == StopIndex(fs, ino, off, n)
         IN  IF i < n /\ BadBlockAt(fs, ino, off, i) THEN -1 ELSE i

(* mutant: dblock_begin is not advanced              *)
ByteReadSameBlock(fs, ino, off, i) ==
  <<Entry(fs, ino, off), (off + i) % BlockSize>>

(* The byte that read_data(ino, off) copies to buf[i].                     *)
ByteRead(fs, ino, off, i) ==
  <<Entry(fs, ino, off + i), (off + i) % BlockSize>>

(* read_dentry_by_name: the first entry with this name; comparing lengths  *)
(* first makes strncmp an equality of names.  0 stands for failure.        *)
DentryByName(fs, fname) ==
  LET hits == {i \in 1 .. Len(fs.direntries) :
                  fs.direntries[i].filename = fname}
  IN  IF hits = {} THEN 0 ELSE CHOOSE i \in hits : \A j \in hits : i <= j

(* read_dentry_by_index succeeds.                                          *)
DentryByIndex(fs, index) == index < Len(fs.direntries)

-----------------------------------------------------------------------------
(* What createfs writes: a file smaller than the block list allows, its    *)
(* blocks in range, the entries after them 0 (so in range as well).        *)
Wellformed(fs) ==
  /\ fs.inode_count \in Nat /\ fs.data_count \in Nat \ {0}
  /\ Len(fs.direntries) \in Nat
  /\ \A ino \in 0 .. fs.inode_count - 1 :
       /\ fs.inode[ino].length \in 0 .. MaxBlocks * BlockSize - 1
       /\ \A b \in 0 .. MaxBlocks - 1 :
            fs.inode[ino].data_block_num[b] \in 0 .. fs.data_count - 1
  /\ \A d \in 1 .. Len(fs.direntries) :
       /\ fs.direntries[d].inode_num \in 0 .. fs.inode_count - 1
       /\ fs.direntries[d].filetype \in {RtcType, DirType, RegularType}

(* The content of a file, independently of how it is read.                 *)
Content(fs, ino) ==
  [p \in 1 .. fs.inode[ino].length |->
     <<fs.inode[ino].data_block_num[(p - 1) \div BlockSize],
       (p - 1) % BlockSize>>]

=============================================================================
